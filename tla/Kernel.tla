-------------------------------- MODULE Kernel --------------------------------
(***************************************************************************)
(* The kernel library that mmu.c of ideal_indirection calls, which is not  *)
(* part of the repository: physical frames, and page files on disk.        *)
(*                                                                         *)
(* A frame can hold a page directory, a page table or a page; each frame   *)
(* is seen here in all three ways.  A page table entry has an address: the *)
(* frame of its table and its index.  The kernel is told the entry that a  *)
(* frame is wanted for, or NULL for directories and tables, which it never *)
(* takes back.  A page it takes back is saved under its entry's address.   *)
(***************************************************************************)
EXTENDS Integers, FiniteSetsExt

CONSTANTS Frame,      \* physical frames, numbered
          Vpn1, Vpn2, \* indices of page directories and of page tables
          NULL

ASSUME FrameAssumption == Frame \subseteq Nat /\ IsFiniteSet(Frame)
ASSUME VpnAssumption   == Vpn1 \subseteq Nat /\ Vpn2 \subseteq Nat /\ 0 \in Vpn1
ASSUME NullAssumption  == NULL \notin Frame \cup (Frame \X Vpn2) /\ NULL \notin Nat

VARIABLES used,       \* frames given out
          mapped,     \* per frame: the address of the entry it was wanted for
          directory,  \* frames seen as directories: the table of each index
          table,      \* frames seen as tables: entries, not present if base is NULL
          page,       \* frames seen as pages: a value stands for the content
          swap        \* per entry address: the page saved on disk, or NULL

physical == <<directory, table, page>>
kernel   == <<used, mapped, physical, swap>>

Address == Frame \X Vpn2

NoEntry  == [base |-> NULL, dirty |-> FALSE]
NoTables == [i \in Vpn1 |-> NULL]
NoPages  == [i \in Vpn2 |-> NoEntry]

KernelInit == /\ used = {}
              /\ mapped = [f \in Frame |-> NULL]
              /\ directory = [f \in Frame |-> NoTables]
              /\ table = [f \in Frame |-> NoPages]
              /\ page = [f \in Frame |-> 0]
              /\ swap = [a \in Address |-> NULL]

\* Frames that ask_kernel_for_frame may return: a free one, else any page's.
Available == IF used # Frame THEN {Min(Frame \ used)}
             ELSE { f \in Frame : mapped[f] # NULL }

\* ask_kernel_for_frame(a) returns f, filled with zeros.  If f held a page, that
\* is saved if it was changed, and its entry is no longer present.  The caller
\* adds what it writes into the directory (d), the tables (t) and the page.
Saved(f) == IF mapped[f] # NULL /\ table[mapped[f][1]][mapped[f][2]].dirty
            THEN [swap EXCEPT ![mapped[f]] = page[f]] ELSE swap

Cleared(f) == IF mapped[f] = NULL THEN [table EXCEPT ![f] = NoPages]
              ELSE [table EXCEPT ![f] = NoPages,
                                 ![mapped[f][1]][mapped[f][2]].base = NULL]

AskKernelForFrame(f, a) == /\ f \in Available
                           /\ used' = used \cup {f}
                           /\ mapped' = [mapped EXCEPT ![f] = a]
                           /\ swap' = Saved(f)

\* return_frame_to_kernel for every frame of F, remove_swap_file for every
\* entry of A.  A free frame counts as zeroed: it is before anyone gets it.
Without(f, F, none) == [g \in Frame |-> IF g \in F THEN none ELSE f[g]]

GiveBack(F, A) == /\ used' = used \ F
                  /\ mapped' = Without(mapped, F, NULL)
                  /\ directory' = Without(directory, F, NoTables)
                  /\ table' = Without(table, F, NoPages)
                  /\ page' = Without(page, F, 0)
                  /\ swap' = [a \in Address |-> IF a \in A THEN NULL ELSE swap[a]]
=============================================================================
