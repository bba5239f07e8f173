---------------------------------- MODULE Mmu ----------------------------------
(***************************************************************************)
(* ideal_indirection/mmu.c: processes, their page directories and tables,  *)
(* and a TLB, above the frames of Kernel.  One caller makes one call at a  *)
(* time; a call is cut into actions at its requests for frames, as each of *)
(* them may take a page away from any process.                             *)
(*                                                                         *)
(* An address is a pair of indices: offsets within a page are left out, as *)
(* every access stays within one page (the assertions of mmu.c).           *)
(***************************************************************************)
EXTENDS Kernel

CONSTANTS Pid,
          Segments,     \* pages inside of segments
          Writable,     \* per page of a segment: WRITE is permitted
          Testing,      \* the pages that mmu_add_process maps
          Calls,        \* reads and writes made: [op, pid, page, value], reads with 0
          TlbSize

Page == Vpn1 \X Vpn2

ASSUME SegmentsAssumption == /\ Segments \subseteq Page
                             /\ Testing \subseteq { v \in Segments : v[1] = 0 }
                             /\ Writable \in [Segments -> BOOLEAN]
ASSUME CallsAssumption ==
  /\ NULL \notin Calls
  /\ \A c \in Calls : /\ c.pid \in Pid /\ c.page \in Page /\ c.value \in Nat
                      /\ c.op \in {"read", "write"}

VARIABLES page_directories,  \* per process: the frame of its directory, or NULL
          tlb,               \* per page: the address of its entry, or NULL
          curr_pid,
          call,              \* the call under way
          pte,               \* new_pte: an entry's address
          result,            \* what the last read stored in buffer, or 0
          mmuPc

translation == <<page_directories, tlb, curr_pid>>
mmuVars     == <<kernel, translation, call, pte, result, mmuPc>>

EmptyTlb == [v \in Page |-> NULL]

MmuInit == /\ KernelInit
           /\ page_directories = [p \in Pid |-> NULL]
           /\ tlb = EmptyTlb
           /\ curr_pid \in Pid      \* 0, a process like any other
           /\ call = NULL /\ pte = NULL
           /\ result = 0
           /\ mmuPc = "idle"

Exists(p) == page_directories[p] # NULL

Entry(a)     == table[a[1]][a[2]]
Present(a)   == Entry(a).base # NULL
TableOf(p,i) == directory[page_directories[p]][i]

-----------------------------------------------------------------------------
\* mmu_add_process: a directory, a table for its first entry, and the testing
\* pages, one frame after the other.
AddProcess(p) == /\ mmuPc = "idle" /\ ~Exists(p)
                 /\ call' = [op |-> "add", pid |-> p, left |-> Testing]
                 /\ \E f \in Frame :
                      /\ AskKernelForFrame(f, NULL)
                      /\ directory' = [directory EXCEPT ![f] = NoTables]
                      /\ table' = Cleared(f)
                      /\ page' = [page EXCEPT ![f] = 0]
                      /\ page_directories' = [page_directories EXCEPT ![p] = f]
                 /\ mmuPc' = "add table"
                 /\ UNCHANGED <<tlb, curr_pid, pte, result>>

AddTable == /\ mmuPc = "add table"
            /\ \E f \in Frame :
                 /\ AskKernelForFrame(f, NULL)
                 /\ directory' = [directory EXCEPT ![f] = NoTables,
                                    ![page_directories[call.pid]][0] = f]
                 /\ table' = Cleared(f)
                 /\ page' = [page EXCEPT ![f] = 0]
            /\ mmuPc' = "add pages"
            /\ UNCHANGED <<translation, call, pte, result>>

\* The testing pages are mapped in order; no entry is read from disk here.
AddPage == /\ mmuPc = "add pages" /\ call.left # {}
           /\ LET i == Min({ v[2] : v \in call.left })
                  a == <<TableOf(call.pid, 0), i>>
              IN  /\ call' = [call EXCEPT !.left = @ \ {<<0, i>>}]
                  /\ \E f \in Frame :
                       /\ AskKernelForFrame(f, a)
                       /\ directory' = [directory EXCEPT ![f] = NoTables]
                       /\ table' = [Cleared(f) EXCEPT ![a[1]][a[2]].base = f]
                       /\ page' = [page EXCEPT ![f] = 0]
           /\ UNCHANGED <<translation, pte, result, mmuPc>>

Added == /\ mmuPc = "add pages" /\ call.left = {}
         /\ call' = NULL /\ mmuPc' = "idle"
         /\ UNCHANGED <<kernel, translation, pte, result>>

-----------------------------------------------------------------------------
\* Fault: the TLB is not flushed when another process is served.
CallNoFlush(c) == /\ mmuPc = "idle" /\ Exists(c.pid)
                  /\ curr_pid' = c.pid
                  /\ IF c.page \in Segments THEN call' = c /\ mmuPc' = "lookup"
                     ELSE call' = NULL /\ mmuPc' = "idle"
                  /\ result' = 0
                  /\ UNCHANGED <<kernel, page_directories, tlb, pte>>

\* The entry of mmu_read_from_virtual_address and mmu_write_to_virtual_address:
\* switch the TLB to the process; outside of segments the call ends here.
Call(c) == /\ mmuPc = "idle" /\ Exists(c.pid)
           /\ tlb' = IF curr_pid = c.pid THEN tlb ELSE EmptyTlb
           /\ curr_pid' = c.pid
           /\ IF c.page \in Segments THEN call' = c /\ mmuPc' = "lookup"
              ELSE call' = NULL /\ mmuPc' = "idle"
           /\ result' = 0
           /\ UNCHANGED <<kernel, page_directories, pte>>

TlbHit == /\ mmuPc = "lookup" /\ tlb[call.page] # NULL
          /\ pte' = tlb[call.page]
          /\ mmuPc' = "entry"
          /\ UNCHANGED <<kernel, translation, call, result>>

\* A miss, and the directory has no table for the page yet: a page fault.
AllocTable == /\ mmuPc = "lookup" /\ tlb[call.page] = NULL
              /\ TableOf(call.pid, call.page[1]) = NULL
              /\ \E f \in Frame :
                   /\ AskKernelForFrame(f, NULL)
                   /\ directory' = [directory EXCEPT ![f] = NoTables,
                                      ![page_directories[call.pid]][call.page[1]] = f]
                   /\ table' = Cleared(f)
                   /\ page' = [page EXCEPT ![f] = 0]
              /\ UNCHANGED <<translation, call, pte, result, mmuPc>>

Cached == { v \in Page : tlb[v] # NULL }

\* tlb_add_pte drops an entry when the TLB is full.
TlbAdd(v, a) == IF Cardinality(Cached) < TlbSize THEN tlb' = [tlb EXCEPT ![v] = a]
                ELSE \E old \in Cached : tlb' = [tlb EXCEPT ![old] = NULL, ![v] = a]

Walk == LET t == TableOf(call.pid, call.page[1]) IN
        /\ mmuPc = "lookup" /\ tlb[call.page] = NULL
        /\ t # NULL
        /\ pte' = <<t, call.page[2]>>
        /\ TlbAdd(call.page, <<t, call.page[2]>>)
        /\ mmuPc' = "entry"
        /\ UNCHANGED <<kernel, page_directories, curr_pid, call, result>>

\* The page is not in memory: a page fault, also for a TLB hit.
LoadPage == /\ mmuPc = "entry" /\ ~Present(pte)
            /\ \E f \in Frame :
                 /\ AskKernelForFrame(f, pte)
                 /\ directory' = [directory EXCEPT ![f] = NoTables]
                 /\ table' = [Cleared(f) EXCEPT ![pte[1]][pte[2]].base = f]
                 /\ page' = [page EXCEPT ![f] = IF swap'[pte] = NULL THEN 0
                                                ELSE swap'[pte]]
            /\ UNCHANGED <<translation, call, pte, result, mmuPc>>

Return == call' = NULL /\ pte' = NULL /\ mmuPc' = "idle"

Read == /\ mmuPc = "entry" /\ Present(pte) /\ call.op = "read"
        /\ result' = page[Entry(pte).base]
        /\ Return
        /\ UNCHANGED <<kernel, translation>>

Write == /\ mmuPc = "entry" /\ Present(pte) /\ call.op = "write"
         /\ Writable[call.page]
         /\ page' = [page EXCEPT ![Entry(pte).base] = call.value]
         /\ table' = [table EXCEPT ![pte[1]][pte[2]].dirty = TRUE]
         /\ Return
         /\ UNCHANGED <<used, mapped, swap, directory, translation, result>>

\* Permissions are looked at after the page has been loaded.
WriteRefused == /\ mmuPc = "entry" /\ Present(pte) /\ call.op = "write"
                /\ ~Writable[call.page]
                /\ Return
                /\ UNCHANGED <<kernel, translation, result>>

-----------------------------------------------------------------------------
Tables(p)  == { t \in Frame : Exists(p) /\ \E i \in Vpn1 : TableOf(p, i) = t }
Entries(p) == Tables(p) \X Vpn2
Pages(p)   == { Entry(a).base : a \in { e \in Entries(p) : Present(e) } }

\* Every frame of a process: directory, tables and pages in memory.
Owned(p) == Tables(p) \cup Pages(p)
              \cup (IF Exists(p) THEN {page_directories[p]} ELSE {})

\* Fault: the TLB is not flushed when the process that it is for is removed.
RemoveKeepsTlb(p) == /\ mmuPc = "idle"
                     /\ GiveBack(Owned(p), Entries(p))
                     /\ page_directories' = [page_directories EXCEPT ![p] = NULL]
                     /\ UNCHANGED <<tlb, curr_pid, call, pte, result, mmuPc>>

\* Fault: page tables are not returned.
RemoveKeepsTables(p) == /\ mmuPc = "idle"
                        /\ GiveBack(Owned(p) \ Tables(p), Entries(p))
                        /\ page_directories' = [page_directories EXCEPT ![p] = NULL]
                        /\ tlb' = IF curr_pid = p THEN EmptyTlb ELSE tlb
                        /\ UNCHANGED <<curr_pid, call, pte, result, mmuPc>>

\* mmu_remove_process: pages, page files, tables and the directory, if any.
RemoveProcess(p) == /\ mmuPc = "idle"
                    /\ GiveBack(Owned(p), Entries(p))
                    /\ page_directories' = [page_directories EXCEPT ![p] = NULL]
                    /\ tlb' = IF curr_pid = p THEN EmptyTlb ELSE tlb
                    /\ UNCHANGED <<curr_pid, call, pte, result, mmuPc>>

MmuNext == \/ \E p \in Pid : AddProcess(p) \/ RemoveProcess(p)
           \/ AddTable \/ AddPage \/ Added
           \/ \E c \in Calls : Call(c)
           \/ TlbHit \/ AllocTable \/ Walk \/ LoadPage
           \/ Read \/ Write \/ WriteRefused

MmuSpec == MmuInit /\ [][MmuNext]_mmuVars

-----------------------------------------------------------------------------
\* Types of the frames, the tables and the call under way.
MmuTypeOK == /\ used \subseteq Frame
             /\ mapped \in [Frame -> Address \cup {NULL}]
             /\ directory \in [Frame -> [Vpn1 -> Frame \cup {NULL}]]
             /\ table \in [Frame -> [Vpn2 -> [base : Frame \cup {NULL},
                                              dirty : BOOLEAN]]]
             /\ page_directories \in [Pid -> Frame \cup {NULL}]
             /\ tlb \in [Page -> Address \cup {NULL}]
             /\ curr_pid \in Pid
             /\ pte \in Address \cup {NULL}

\* However pages move between memory and disk and processes come and go, a
\* frame given out belongs to exactly one process, in one role: as a directory,
\* a table or a page; the kernel knows the entry of every page; nothing leaks.
FramesOwned ==
  /\ used = UNION { Owned(p) : p \in Pid }
  /\ \A p, q \in Pid : p # q => Owned(p) \cap Owned(q) = {}
  /\ \A p \in Pid : /\ Tables(p) \cap Pages(p) = {}
                    /\ page_directories[p] \notin Tables(p) \cup Pages(p)
                    /\ \A a \in Entries(p) : Present(a) =>
                          mapped[Entry(a).base] = a

\* The TLB never says anything but what a walk through the tables of the
\* current process would find, also after that process has been replaced by
\* another one with its pid, or its tables' frames have been reused.
TlbTrue == \A v \in Page : tlb[v] # NULL =>
              /\ Exists(curr_pid)
              /\ tlb[v] = <<TableOf(curr_pid, v[1]), v[2]>>

-----------------------------------------------------------------------------
\* What process p would read at v.
Memory(p, v) ==
  IF ~Exists(p) \/ TableOf(p, v[1]) = NULL THEN 0
  ELSE LET a == <<TableOf(p, v[1]), v[2]>> IN
       IF Present(a) THEN page[Entry(a).base]
       ELSE IF swap[a] # NULL THEN swap[a] ELSE 0

\* The read or write that is being served.
Served == IF mmuPc \in {"lookup", "entry"} THEN call ELSE NULL

Virtual == INSTANCE VirtualMemory WITH
             Page <- Segments,
             alive <- { p \in Pid : Exists(p) },
             memory <- [p \in Pid |-> [v \in Segments |-> Memory(p, v)]],
             current <- Served

\* The mmu implements a memory per process: a read returns what the process that
\* makes it wrote last to that page, and a write changes that page of that
\* process only, whichever pages were evicted or loaded in between, whatever
\* the TLB holds, and whoever had the frame or the page file before.
MemorySpec == Virtual!Spec
=============================================================================
