------------------------------- MODULE MmuProofs -------------------------------
(***************************************************************************)
(* ideal_indirection/mmu.c for any processes, segments, calls and number   *)
(* of frames: whose each frame is, what the TLB says, and that each        *)
(* process has a memory of its own.                                        *)
(*                                                                         *)
(* A frame has at most one role: it is the directory of a process, or the  *)
(* table of one index of one directory, or the page of one entry of one    *)
(* table, and then the kernel has been told that entry.  So a page that is *)
(* taken away is struck out in the one entry that refers to it.            *)
(***************************************************************************)
EXTENDS Mmu, SequenceLemmas

\* Process p has a page table for index i of its directory.
HasTable(p, i) == Exists(p) /\ TableOf(p, i) # NULL

\* The operation under way.
Places == {"idle", "add table", "add pages", "lookup", "entry"}

TypesOK == /\ used \subseteq Frame
           /\ mapped \in [Frame -> Address \cup {NULL}]
           /\ directory \in [Frame -> [Vpn1 -> Frame \cup {NULL}]]
           /\ table \in [Frame -> [Vpn2 -> [base : Frame \cup {NULL}, dirty : BOOLEAN]]]
           /\ page_directories \in [Pid -> Frame \cup {NULL}]
           /\ tlb \in [Page -> Address \cup {NULL}]
           /\ curr_pid \in Pid
           /\ mmuPc \in Places

\* A directory or a table is that of one process, in one place, and no page.
DirectoriesApart == \A p, q \in Pid : Exists(p) /\ page_directories[p] = page_directories[q]
                                         => p = q
TablesApart == \A p, q \in Pid, i, j \in Vpn1 :
                  HasTable(p, i) /\ Exists(q) =>
                     /\ TableOf(p, i) # page_directories[q]
                     /\ TableOf(p, i) = TableOf(q, j) => p = q /\ i = j
NoPageOf == /\ \A p \in Pid : Exists(p) => mapped[page_directories[p]] = NULL
            /\ \A p \in Pid, i \in Vpn1 : HasTable(p, i) => mapped[TableOf(p, i)] = NULL

\* The kernel knows the entry of each page in memory, and no other one.
EntriesKnown == \A p \in Pid, i \in Vpn1, k \in Vpn2 : HasTable(p, i) =>
                   LET f == table[TableOf(p, i)][k].base IN
                   f # NULL => mapped[f] = <<TableOf(p, i), k>>
PagesKnown == \A f \in Frame : mapped[f] # NULL =>
                 /\ Entry(mapped[f]).base = f
                 /\ \E p \in Pid, i \in Vpn1 : HasTable(p, i) /\ TableOf(p, i) = mapped[f][1]

\* The frames given out are those with a role.
InRole(f) == \/ \E p \in Pid : page_directories[p] = f
             \/ \E p \in Pid, i \in Vpn1 : HasTable(p, i) /\ TableOf(p, i) = f
             \/ mapped[f] # NULL
UsedOK == \A f \in Frame : f \in used <=> InRole(f)

FramesOK == /\ DirectoriesApart /\ TablesApart /\ NoPageOf
            /\ EntriesKnown /\ PagesKnown /\ UsedOK

\* What the operation under way has done so far.
AddingOK ==
  /\ mmuPc \in {"add table", "add pages"} =>
        /\ call \in [op : {"add"}, pid : Pid, left : SUBSET Testing]
        /\ Exists(call.pid)
  /\ mmuPc = "add table" => \A i \in Vpn1 : TableOf(call.pid, i) = NULL
  /\ mmuPc = "add pages" =>
        /\ TableOf(call.pid, 0) # NULL
        /\ \A v \in call.left : ~Present(<<TableOf(call.pid, 0), v[2]>>)

CallOK ==
  /\ mmuPc \in {"lookup", "entry"} =>
        /\ call.pid \in Pid /\ Exists(call.pid) /\ curr_pid = call.pid
        /\ call.page \in Segments
  /\ mmuPc = "entry" =>
        /\ TableOf(call.pid, call.page[1]) # NULL
        /\ pte = <<TableOf(call.pid, call.page[1]), call.page[2]>>

\* TlbTrue says nothing of an index without a table, and an entry needs one.
TlbOK == \A v \in Page : tlb[v] # NULL =>
            /\ HasTable(curr_pid, v[1])
            /\ tlb[v] = <<TableOf(curr_pid, v[1]), v[2]>>

IInv == TypesOK /\ FramesOK /\ AddingOK /\ CallOK /\ TlbOK

USE FrameAssumption, VpnAssumption, NullAssumption

-----------------------------------------------------------------------------
\* An entry that the kernel knows is one.
LEMMA MappedIs ==
  ASSUME TypesOK, NEW f \in Frame, mapped[f] # NULL
  PROVE  /\ mapped[f] \in Address
         /\ mapped[f][1] \in Frame /\ mapped[f][2] \in Vpn2
         /\ mapped[f] = <<mapped[f][1], mapped[f][2]>>
  BY DEF TypesOK, Address

\* The frame that ask_kernel_for_frame returns was free, or a page.
LEMMA AvailableIs ==
  ASSUME TypesOK, NEW f, f \in Available
  PROVE  f \in Frame /\ (f \notin used \/ mapped[f] # NULL)
<1>1. CASE used # Frame
  <2>1. Frame \ used \in SUBSET Nat /\ Frame \ used # {}
    BY <1>1 DEF TypesOK
  <2>2. Min(Frame \ used) \in Frame \ used
    BY <2>1, MinOfNat
  <2> QED
    BY <1>1, <2>2 DEF Available
<1>2. CASE used = Frame
  BY <1>2 DEF Available
<1> QED
  BY <1>1, <1>2

\* Directories and tables are frames.
LEMMA TableIs ==
  ASSUME TypesOK, NEW p \in Pid
  PROVE  /\ Exists(p) => page_directories[p] \in Frame
         /\ \A i \in Vpn1 : Exists(p) => TableOf(p, i) \in Frame \cup {NULL}
         /\ \A i \in Vpn1 : HasTable(p, i) => TableOf(p, i) \in Frame
<1> SUFFICES ASSUME Exists(p)
             PROVE  /\ page_directories[p] \in Frame
                    /\ \A i \in Vpn1 : TableOf(p, i) \in Frame \cup {NULL}
  BY DEF HasTable
<1>1. page_directories[p] \in Frame
  BY DEF TypesOK, Exists
<1>2. directory[page_directories[p]] \in [Vpn1 -> Frame \cup {NULL}]
  BY <1>1 DEF TypesOK
<1> QED
  BY <1>1, <1>2 DEF TableOf

\* What an entry of a table is.
LEMMA EntryIs ==
  ASSUME TypesOK, NEW g \in Frame, NEW k \in Vpn2
  PROVE  /\ table[g][k] \in [base : Frame \cup {NULL}, dirty : BOOLEAN]
         /\ table[g][k].base \in Frame \cup {NULL}
<1>1. table[g] \in [Vpn2 -> [base : Frame \cup {NULL}, dirty : BOOLEAN]]
  BY DEF TypesOK
<1> QED
  BY <1>1

\* After that nothing refers to the frame: it is no directory and no table, and
\* the entry of the page that was in it is no longer present.
LEMMA Taken ==
  ASSUME TypesOK, FramesOK, NEW f, f \in Available
  PROVE  /\ f \in Frame
         /\ \A p \in Pid : page_directories[p] # f
         /\ \A p \in Pid, i \in Vpn1 : HasTable(p, i) => TableOf(p, i) # f
         /\ \A p \in Pid, i \in Vpn1, k \in Vpn2 : HasTable(p, i) =>
               Cleared(f)[TableOf(p, i)][k].base
                 = IF table[TableOf(p, i)][k].base = f THEN NULL
                   ELSE table[TableOf(p, i)][k].base
         /\ \A p \in Pid, i \in Vpn1, k \in Vpn2 : HasTable(p, i) =>
               Cleared(f)[TableOf(p, i)][k].dirty = table[TableOf(p, i)][k].dirty
         /\ Cleared(f)[f] = NoPages
         /\ Cleared(f) \in [Frame -> [Vpn2 -> [base : Frame \cup {NULL}, dirty : BOOLEAN]]]
<1>1. f \in Frame /\ (f \notin used \/ mapped[f] # NULL)
  BY AvailableIs
<1>2. \A p \in Pid : page_directories[p] # f
  BY <1>1 DEF FramesOK, UsedOK, InRole, NoPageOf, Exists
<1>3. \A p \in Pid, i \in Vpn1 : HasTable(p, i) => TableOf(p, i) # f
  BY <1>1 DEF FramesOK, UsedOK, InRole, NoPageOf
<1>4. \A p \in Pid, i \in Vpn1 : HasTable(p, i) => TableOf(p, i) \in Frame
  BY TableIs
<1>5. NoPages \in [Vpn2 -> [base : Frame \cup {NULL}, dirty : BOOLEAN]]
  BY DEF NoPages, NoEntry
<1>6. CASE mapped[f] = NULL
  <2>1. \A p \in Pid, i \in Vpn1, k \in Vpn2 :
           HasTable(p, i) => table[TableOf(p, i)][k].base # f
    <3> SUFFICES ASSUME NEW p \in Pid, NEW i \in Vpn1, NEW k \in Vpn2, HasTable(p, i),
                        table[TableOf(p, i)][k].base = f
                 PROVE  FALSE
      OBVIOUS
    <3>1. mapped[f] = <<TableOf(p, i), k>>
      BY <1>1 DEF FramesOK, EntriesKnown
    <3>2. <<TableOf(p, i), k>> \in Frame \X Vpn2
      BY <1>4
    <3> QED
      BY <1>6, <3>1, <3>2
  <2>2. Cleared(f) = [table EXCEPT ![f] = NoPages]
    BY <1>6 DEF Cleared
  <2> QED
    BY <1>1, <1>2, <1>3, <1>4, <1>5, <2>1, <2>2 DEF TypesOK
<1>7. CASE mapped[f] # NULL
  <2> DEFINE g == mapped[f][1]
             m == mapped[f][2]
  <2>1. g \in Frame /\ m \in Vpn2 /\ mapped[f] = <<g, m>> /\ g # f
    BY <1>1, <1>3, <1>7, MappedIs DEF FramesOK, PagesKnown
  <2>2. Cleared(f) = [table EXCEPT ![f] = NoPages, ![g][m].base = NULL]
    BY <1>7 DEF Cleared
  <2> HIDE DEF g, m
  <2>3. table[g][m].base = f
    BY <1>1, <1>7, <2>1 DEF FramesOK, PagesKnown, Entry
  <2>4. \A p \in Pid, i \in Vpn1, k \in Vpn2 :
           HasTable(p, i) /\ table[TableOf(p, i)][k].base = f => TableOf(p, i) = g /\ k = m
    BY <1>1, <2>1 DEF FramesOK, EntriesKnown
  <2>5. Cleared(f) = [h \in Frame |-> IF h = f THEN NoPages
                        ELSE IF h = g THEN [table[g] EXCEPT ![m].base = NULL] ELSE table[h]]
    BY <1>1, <2>1, <2>2 DEF TypesOK
  <2>6. table[g] \in [Vpn2 -> [base : Frame \cup {NULL}, dirty : BOOLEAN]]
    BY <2>1 DEF TypesOK
  <2>7. Cleared(f) \in [Frame -> [Vpn2 -> [base : Frame \cup {NULL}, dirty : BOOLEAN]]]
    <3>1. [table[g][m] EXCEPT !.base = NULL] \in [base : Frame \cup {NULL}, dirty : BOOLEAN]
      BY <2>1, <2>6
    <3>2. [table[g] EXCEPT ![m].base = NULL]
             \in [Vpn2 -> [base : Frame \cup {NULL}, dirty : BOOLEAN]]
      BY <2>1, <2>6, <3>1
    <3> QED
      BY <1>5, <2>5, <3>2 DEF TypesOK
  <2>8. \A p \in Pid, i \in Vpn1, k \in Vpn2 : HasTable(p, i) =>
           Cleared(f)[TableOf(p, i)][k].base
             = IF table[TableOf(p, i)][k].base = f THEN NULL
               ELSE table[TableOf(p, i)][k].base
    BY <1>3, <1>4, <2>1, <2>3, <2>4, <2>5, <2>6
  <2>9. \A p \in Pid, i \in Vpn1, k \in Vpn2 : HasTable(p, i) =>
           Cleared(f)[TableOf(p, i)][k].dirty = table[TableOf(p, i)][k].dirty
    <3> SUFFICES ASSUME NEW p \in Pid, NEW i \in Vpn1, NEW k \in Vpn2, HasTable(p, i)
                 PROVE  Cleared(f)[TableOf(p, i)][k].dirty = table[TableOf(p, i)][k].dirty
      OBVIOUS
    <3>1. TableOf(p, i) \in Frame \ {f}
      BY <1>3, <1>4
    <3>2. CASE TableOf(p, i) = g
      <4>1. table[g][m] \in [base : Frame \cup {NULL}, dirty : BOOLEAN]
        BY <2>1, <2>6
      <4>2. [table[g][m] EXCEPT !.base = NULL].dirty = table[g][m].dirty
        BY <4>1
      <4> QED
        BY <2>1, <2>5, <2>6, <3>1, <3>2, <4>2
    <3>3. CASE TableOf(p, i) # g
      BY <2>5, <3>1, <3>3
    <3> QED
      BY <3>2, <3>3
  <2> QED
    BY <1>1, <1>2, <1>3, <2>5, <2>7, <2>8, <2>9
<1> QED
  BY <1>6, <1>7

-----------------------------------------------------------------------------
\* A new frame becomes the table of index i of process p.
LEMMA NewTable ==
  ASSUME TypesOK, FramesOK, NEW p \in Pid, NEW i \in Vpn1, NEW f,
         Exists(p), TableOf(p, i) = NULL,
         AskKernelForFrame(f, NULL),
         directory' = [directory EXCEPT ![f] = NoTables, ![page_directories[p]][i] = f],
         table' = Cleared(f),
         UNCHANGED translation, mmuPc' \in Places
  PROVE  /\ TypesOK' /\ FramesOK'
         /\ \A q \in Pid, j \in Vpn1 : Exists(q) =>
               TableOf(q, j)' = IF q = p /\ j = i THEN f ELSE TableOf(q, j)
         /\ f \in Frame /\ table'[f] = NoPages
<1> USE DEF translation
<1>1. f \in Available /\ used' = used \cup {f} /\ mapped' = [mapped EXCEPT ![f] = NULL]
  BY DEF AskKernelForFrame
<1>2. /\ f \in Frame
      /\ \A q \in Pid : page_directories[q] # f
      /\ \A q \in Pid, j \in Vpn1 : HasTable(q, j) => TableOf(q, j) # f
      /\ table'[f] = NoPages
      /\ \A q \in Pid, j \in Vpn1, k \in Vpn2 : HasTable(q, j) =>
               table'[TableOf(q, j)][k].base
                 = IF table[TableOf(q, j)][k].base = f THEN NULL
                   ELSE table[TableOf(q, j)][k].base
  BY <1>1, Taken
<1>3. TypesOK'
  <2>1. directory' \in [Frame -> [Vpn1 -> Frame \cup {NULL}]]
    BY <1>2 DEF TypesOK, NoTables
  <2> QED
    BY <1>1, <1>2, <2>1, Taken DEF TypesOK
<1>4. \A q \in Pid : Exists(q)' <=> Exists(q)
  BY DEF Exists
<1>5. \A q \in Pid, j \in Vpn1 : Exists(q) =>
         TableOf(q, j)' = IF q = p /\ j = i THEN f ELSE TableOf(q, j)
  <2> SUFFICES ASSUME NEW q \in Pid, NEW j \in Vpn1, Exists(q)
               PROVE  TableOf(q, j)' = IF q = p /\ j = i THEN f ELSE TableOf(q, j)
    OBVIOUS
  <2>1. page_directories[p] \in Frame \ {f} /\ page_directories[q] \in Frame \ {f}
    BY <1>2, TableIs
  <2>2. directory \in [Frame -> [Vpn1 -> Frame \cup {NULL}]]
    BY DEF TypesOK
  <2>3. directory'[page_directories[q]]
           = IF page_directories[q] = page_directories[p]
             THEN [directory[page_directories[q]] EXCEPT ![i] = f]
             ELSE directory[page_directories[q]]
    BY <1>2, <2>1, <2>2
  <2>4. page_directories[q] = page_directories[p] <=> q = p
    BY DEF FramesOK, DirectoriesApart
  <2> QED
    BY <2>1, <2>2, <2>3, <2>4 DEF TableOf
<1>6. \A q \in Pid, j \in Vpn1 : HasTable(q, j)' <=> HasTable(q, j) \/ (q = p /\ j = i)
  BY <1>2, <1>4, <1>5 DEF HasTable
<1>7. UNCHANGED page_directories
  OBVIOUS
<1>8. DirectoriesApart'
  BY <1>4, <1>7 DEF FramesOK, DirectoriesApart
<1>9. TablesApart'
  BY <1>2, <1>4, <1>5, <1>6, <1>7 DEF FramesOK, TablesApart, HasTable
<1>10. NoPageOf'
  BY <1>1, <1>2, <1>4, <1>5, <1>6, <1>7, TableIs DEF FramesOK, NoPageOf, HasTable, TypesOK
<1>11. EntriesKnown'
  <2> SUFFICES ASSUME NEW q \in Pid, NEW j \in Vpn1, NEW k \in Vpn2, HasTable(q, j)',
                      table'[TableOf(q, j)'][k].base # NULL
               PROVE  mapped'[table'[TableOf(q, j)'][k].base] = <<TableOf(q, j)', k>>
    BY DEF EntriesKnown
  <2>1. HasTable(q, j) /\ TableOf(q, j)' = TableOf(q, j)
    BY <1>2, <1>4, <1>5, <1>6 DEF NoPages, NoEntry, HasTable
  <2>2. /\ table'[TableOf(q, j)][k].base = table[TableOf(q, j)][k].base
        /\ table[TableOf(q, j)][k].base # f
    <3>1. table'[TableOf(q, j)][k].base # NULL
      BY <2>1
    <3>2. table'[TableOf(q, j)][k].base
            = IF table[TableOf(q, j)][k].base = f THEN NULL ELSE table[TableOf(q, j)][k].base
      BY <1>2, <2>1
    <3> QED
      BY <3>1, <3>2
  <2>3. table[TableOf(q, j)][k].base \in Frame
    BY <1>1, <2>1, <2>2, TableIs, EntryIs DEF HasTable
  <2> QED
    BY <1>1, <2>1, <2>2, <2>3 DEF FramesOK, EntriesKnown, TypesOK
<1>12. PagesKnown'
  <2> SUFFICES ASSUME NEW g \in Frame, mapped'[g] # NULL
               PROVE  /\ table'[mapped'[g][1]][mapped'[g][2]].base = g
                      /\ \E q \in Pid, j \in Vpn1 :
                            HasTable(q, j)' /\ TableOf(q, j)' = mapped'[g][1]
    BY DEF PagesKnown, Entry
  <2>1. g # f /\ mapped'[g] = mapped[g] /\ mapped[g] # NULL
    BY <1>1, <1>2 DEF TypesOK
  <2>2. PICK q \in Pid, j \in Vpn1 : HasTable(q, j) /\ TableOf(q, j) = mapped[g][1]
    BY <2>1 DEF FramesOK, PagesKnown
  <2>3. table[mapped[g][1]][mapped[g][2]].base = g /\ mapped[g][2] \in Vpn2
    BY <2>1, MappedIs DEF FramesOK, PagesKnown, Entry
  <2>4. table'[mapped[g][1]][mapped[g][2]].base = g
    <3> DEFINE k == mapped[g][2]
    <3>1. HasTable(q, j) /\ k \in Vpn2 /\ table[TableOf(q, j)][k].base = g
      BY <2>2, <2>3
    <3> HIDE DEF k
    <3>2. table'[TableOf(q, j)][k].base = g
      BY <1>2, <2>1, <3>1
    <3> QED
      BY <2>2, <3>2 DEF k
  <2>5. HasTable(q, j)' /\ TableOf(q, j)' = mapped[g][1]
    BY <1>5, <1>6, <2>2 DEF HasTable
  <2> QED
    BY <2>1, <2>4, <2>5
<1>13. UsedOK'
  <2> SUFFICES ASSUME NEW g \in Frame
               PROVE  g \in used' <=> InRole(g)'
    BY DEF UsedOK
  <2>1. CASE g = f
    BY <1>1, <1>4, <1>5, <1>6, <2>1 DEF InRole
  <2>2. CASE g # f
    <3>1. mapped'[g] = mapped[g] /\ (g \in used' <=> g \in used)
      BY <1>1, <1>2, <2>2 DEF TypesOK
    <3>2. (\E q \in Pid, j \in Vpn1 : HasTable(q, j)' /\ TableOf(q, j)' = g)
             <=> \E q \in Pid, j \in Vpn1 : HasTable(q, j) /\ TableOf(q, j) = g
      BY <1>5, <1>6, <2>2 DEF HasTable
    <3> QED
      BY <1>7, <3>1, <3>2 DEF FramesOK, UsedOK, InRole
  <2> QED
    BY <2>1, <2>2
<1> QED
  BY <1>2, <1>3, <1>5, <1>8, <1>9, <1>10, <1>11, <1>12, <1>13 DEF FramesOK

\* A new frame becomes the directory of a process that has had none.
LEMMA NewDirectory ==
  ASSUME TypesOK, FramesOK, NEW p \in Pid, NEW f,
         ~Exists(p),
         AskKernelForFrame(f, NULL),
         directory' = [directory EXCEPT ![f] = NoTables],
         table' = Cleared(f),
         page_directories' = [page_directories EXCEPT ![p] = f],
         UNCHANGED <<tlb, curr_pid>>, mmuPc' \in Places
  PROVE  /\ TypesOK' /\ FramesOK'
         /\ Exists(p)' /\ \A j \in Vpn1 : TableOf(p, j)' = NULL
         /\ \A q \in Pid, j \in Vpn1 : HasTable(q, j)' => HasTable(q, j)
         /\ \A q \in Pid, j \in Vpn1 : HasTable(q, j) =>
               HasTable(q, j)' /\ TableOf(q, j)' = TableOf(q, j)
<1>1. f \in Available /\ used' = used \cup {f} /\ mapped' = [mapped EXCEPT ![f] = NULL]
  BY DEF AskKernelForFrame
<1>2. /\ f \in Frame
      /\ \A q \in Pid : page_directories[q] # f
      /\ \A q \in Pid, j \in Vpn1 : HasTable(q, j) => TableOf(q, j) # f
      /\ \A q \in Pid, j \in Vpn1, k \in Vpn2 : HasTable(q, j) =>
               table'[TableOf(q, j)][k].base
                 = IF table[TableOf(q, j)][k].base = f THEN NULL
                   ELSE table[TableOf(q, j)][k].base
  BY <1>1, Taken
<1>3. TypesOK'
  <2>1. directory' \in [Frame -> [Vpn1 -> Frame \cup {NULL}]]
    BY <1>2 DEF TypesOK, NoTables
  <2> QED
    BY <1>1, <1>2, <2>1, Taken DEF TypesOK
<1>4. \A q \in Pid : Exists(q)' <=> Exists(q) \/ q = p
  BY <1>2 DEF Exists, TypesOK
<1>5. \A q \in Pid : page_directories'[q] = IF q = p THEN f ELSE page_directories[q]
  BY DEF TypesOK
<1>6. \A q \in Pid, j \in Vpn1 :
         TableOf(q, j)' = IF q = p \/ ~Exists(q) THEN TableOf(q, j)' ELSE TableOf(q, j)
  BY <1>2, <1>5, TableIs DEF TableOf, TypesOK
<1>7. \A j \in Vpn1 : TableOf(p, j)' = NULL
  BY <1>2, <1>5 DEF TableOf, TypesOK, NoTables
<1>8. \A q \in Pid, j \in Vpn1 : HasTable(q, j)' <=> HasTable(q, j)
  BY <1>4, <1>6, <1>7 DEF HasTable
<1>9. \A q \in Pid, j \in Vpn1 : HasTable(q, j) => TableOf(q, j)' = TableOf(q, j)
  BY <1>6 DEF HasTable
<1>10. DirectoriesApart'
  BY <1>2, <1>4, <1>5 DEF FramesOK, DirectoriesApart
<1>11. TablesApart'
  <2> SUFFICES ASSUME NEW q \in Pid, NEW r \in Pid, NEW i \in Vpn1, NEW j \in Vpn1,
                      HasTable(q, i)', Exists(r)'
               PROVE  /\ TableOf(q, i)' # page_directories'[r]
                      /\ TableOf(q, i)' = TableOf(r, j)' => q = r /\ i = j
    BY DEF TablesApart
  <2>1. HasTable(q, i) /\ TableOf(q, i)' = TableOf(q, i) /\ TableOf(q, i) # NULL
    BY <1>8, <1>9 DEF HasTable
  <2>2. CASE r = p
    BY <1>2, <1>5, <1>7, <2>1, <2>2
  <2>3. CASE r # p
    BY <1>4, <1>5, <1>6, <2>1, <2>3 DEF FramesOK, TablesApart
  <2> QED
    BY <2>2, <2>3
<1>12. NoPageOf'
  <2>1. \A q \in Pid : Exists(q)' => mapped'[page_directories'[q]] = NULL
    BY <1>1, <1>2, <1>4, <1>5, TableIs DEF FramesOK, NoPageOf, TypesOK
  <2>2. \A q \in Pid, j \in Vpn1 : HasTable(q, j)' => mapped'[TableOf(q, j)'] = NULL
    BY <1>1, <1>2, <1>8, <1>9, TableIs DEF FramesOK, NoPageOf, TypesOK
  <2> QED
    BY <2>1, <2>2 DEF NoPageOf
<1>13. EntriesKnown'
  <2> SUFFICES ASSUME NEW q \in Pid, NEW j \in Vpn1, NEW k \in Vpn2, HasTable(q, j)',
                      table'[TableOf(q, j)'][k].base # NULL
               PROVE  mapped'[table'[TableOf(q, j)'][k].base] = <<TableOf(q, j)', k>>
    BY DEF EntriesKnown
  <2>1. HasTable(q, j) /\ TableOf(q, j)' = TableOf(q, j)
    BY <1>8, <1>9
  <2>2. /\ table'[TableOf(q, j)][k].base = table[TableOf(q, j)][k].base
        /\ table[TableOf(q, j)][k].base # f
    <3>1. table'[TableOf(q, j)][k].base # NULL
      BY <2>1
    <3>2. table'[TableOf(q, j)][k].base
            = IF table[TableOf(q, j)][k].base = f THEN NULL ELSE table[TableOf(q, j)][k].base
      BY <1>2, <2>1
    <3> QED
      BY <3>1, <3>2
  <2>3. table[TableOf(q, j)][k].base \in Frame
    BY <2>1, <2>2, TableIs, EntryIs
  <2> QED
    BY <1>1, <2>1, <2>2, <2>3 DEF FramesOK, EntriesKnown, TypesOK
<1>14. PagesKnown'
  <2> SUFFICES ASSUME NEW g \in Frame, mapped'[g] # NULL
               PROVE  /\ table'[mapped'[g][1]][mapped'[g][2]].base = g
                      /\ \E q \in Pid, j \in Vpn1 :
                            HasTable(q, j)' /\ TableOf(q, j)' = mapped'[g][1]
    BY DEF PagesKnown, Entry
  <2>1. g # f /\ mapped'[g] = mapped[g] /\ mapped[g] # NULL
    BY <1>1, <1>2 DEF TypesOK
  <2>2. PICK q \in Pid, j \in Vpn1 : HasTable(q, j) /\ TableOf(q, j) = mapped[g][1]
    BY <2>1 DEF FramesOK, PagesKnown
  <2>3. table[mapped[g][1]][mapped[g][2]].base = g /\ mapped[g][2] \in Vpn2
    BY <2>1, MappedIs DEF FramesOK, PagesKnown, Entry
  <2>4. table'[mapped[g][1]][mapped[g][2]].base = g
    <3> DEFINE k == mapped[g][2]
    <3>1. HasTable(q, j) /\ k \in Vpn2 /\ table[TableOf(q, j)][k].base = g
      BY <2>2, <2>3
    <3> HIDE DEF k
    <3>2. table'[TableOf(q, j)][k].base = g
      BY <1>2, <2>1, <3>1
    <3> QED
      BY <2>2, <3>2 DEF k
  <2> QED
    BY <1>8, <1>9, <2>1, <2>2, <2>4
<1>15. UsedOK'
  <2> SUFFICES ASSUME NEW g \in Frame
               PROVE  g \in used' <=> InRole(g)'
    BY DEF UsedOK
  <2>1. CASE g = f
    BY <1>1, <1>5, <2>1 DEF InRole
  <2>2. CASE g # f
    <3>1. mapped'[g] = mapped[g] /\ (g \in used' <=> g \in used)
      BY <1>1, <1>2, <2>2 DEF TypesOK
    <3>2. (\E q \in Pid, j \in Vpn1 : HasTable(q, j)' /\ TableOf(q, j)' = g)
             <=> \E q \in Pid, j \in Vpn1 : HasTable(q, j) /\ TableOf(q, j) = g
      BY <1>8, <1>9
    <3>3. (\E q \in Pid : page_directories'[q] = g) <=> \E q \in Pid : page_directories[q] = g
      BY <1>5, <2>2 DEF Exists
    <3> QED
      BY <3>1, <3>2, <3>3 DEF FramesOK, UsedOK, InRole
  <2> QED
    BY <2>1, <2>2
<1> QED
  BY <1>3, <1>4, <1>7, <1>8, <1>9, <1>10, <1>11, <1>12, <1>13, <1>14, <1>15 DEF FramesOK

\* A new frame becomes the page of an entry that is not present.
LEMMA NewPage ==
  ASSUME TypesOK, FramesOK, NEW p \in Pid, NEW i \in Vpn1, NEW k \in Vpn2, NEW f,
         HasTable(p, i), ~Present(<<TableOf(p, i), k>>),
         AskKernelForFrame(f, <<TableOf(p, i), k>>),
         directory' = [directory EXCEPT ![f] = NoTables],
         table' = [Cleared(f) EXCEPT ![TableOf(p, i)][k].base = f],
         UNCHANGED translation, mmuPc' \in Places
  PROVE  /\ TypesOK' /\ FramesOK'
         /\ \A q \in Pid, j \in Vpn1 : Exists(q) => TableOf(q, j)' = TableOf(q, j)
         /\ \A m \in Vpn2 : m # k /\ ~Present(<<TableOf(p, i), m>>) =>
                              table'[TableOf(p, i)][m].base = NULL
<1> USE DEF translation
<1> DEFINE t == TableOf(p, i)
<1>1. /\ f \in Available /\ used' = used \cup {f} /\ mapped' = [mapped EXCEPT ![f] = <<t, k>>]
      /\ f \in Frame
  BY Taken DEF AskKernelForFrame
<1>2. t \in Frame /\ t # f /\ <<t, k>> \in Address /\ <<t, k>> # NULL
  BY <1>1, TableIs, Taken DEF Address
<1> HIDE DEF t
<1>3. /\ \A q \in Pid : page_directories[q] # f
      /\ \A q \in Pid, j \in Vpn1 : HasTable(q, j) => TableOf(q, j) # f
  BY <1>1, Taken
<1>4. /\ table' \in [Frame -> [Vpn2 -> [base : Frame \cup {NULL}, dirty : BOOLEAN]]]
      /\ \A g \in Frame, m \in Vpn2 :
            table'[g][m].base = IF g = t /\ m = k THEN f ELSE Cleared(f)[g][m].base
  <2> DEFINE c == Cleared(f)
  <2>1. c \in [Frame -> [Vpn2 -> [base : Frame \cup {NULL}, dirty : BOOLEAN]]]
    BY <1>1, Taken
  <2> HIDE DEF c
  <2>2. c[t] \in [Vpn2 -> [base : Frame \cup {NULL}, dirty : BOOLEAN]]
    BY <1>2, <2>1
  <2>3. c[t][k] \in [base : Frame \cup {NULL}, dirty : BOOLEAN]
    BY <2>2
  <2> DEFINE e   == [c[t][k] EXCEPT !.base = f]
             row == [c[t] EXCEPT ![k] = e]
  <2>4. e \in [base : Frame \cup {NULL}, dirty : BOOLEAN] /\ e.base = f
    BY <1>1, <2>3
  <2>5. table' = [c EXCEPT ![t] = row]
    BY <1>2, <2>1, <2>2 DEF c, t
  <2> HIDE DEF e
  <2>6. /\ row \in [Vpn2 -> [base : Frame \cup {NULL}, dirty : BOOLEAN]]
        /\ \A m \in Vpn2 : row[m] = IF m = k THEN e ELSE c[t][m]
    BY <2>2, <2>4
  <2> HIDE DEF row
  <2>7. table' \in [Frame -> [Vpn2 -> [base : Frame \cup {NULL}, dirty : BOOLEAN]]]
    BY <1>2, <2>1, <2>5, <2>6
  <2>8. \A g \in Frame : table'[g] = IF g = t THEN row ELSE c[g]
    BY <1>2, <2>1, <2>5
  <2>9. \A g \in Frame, m \in Vpn2 :
           table'[g][m].base = IF g = t /\ m = k THEN f ELSE c[g][m].base
    <3> SUFFICES ASSUME NEW g \in Frame, NEW m \in Vpn2
                 PROVE  table'[g][m].base = IF g = t /\ m = k THEN f ELSE c[g][m].base
      OBVIOUS
    <3>1. CASE g = t
      BY <2>4, <2>6, <2>8, <3>1
    <3>2. CASE g # t
      <4>1. table'[g] = c[g]
        BY <2>8, <3>2
      <4> QED
        BY <2>1, <2>7, <3>2, <4>1
    <3> QED
      BY <3>1, <3>2
  <2> QED
    BY <2>7, <2>9 DEF c
<1>5. \A q \in Pid, j \in Vpn1, m \in Vpn2 : HasTable(q, j) =>
         table'[TableOf(q, j)][m].base
           = IF TableOf(q, j) = t /\ m = k THEN f
             ELSE IF table[TableOf(q, j)][m].base = f THEN NULL
             ELSE table[TableOf(q, j)][m].base
  BY <1>1, <1>4, Taken, TableIs
<1>6. TypesOK'
  <2>1. directory' \in [Frame -> [Vpn1 -> Frame \cup {NULL}]]
    BY <1>1 DEF TypesOK, NoTables
  <2> QED
    BY <1>1, <1>2, <1>4, <2>1 DEF TypesOK
<1>7. \A q \in Pid : Exists(q)' <=> Exists(q)
  BY DEF Exists
<1>8. \A q \in Pid, j \in Vpn1 : Exists(q) => TableOf(q, j)' = TableOf(q, j)
  BY <1>3, TableIs DEF TableOf, TypesOK
<1>9. \A q \in Pid, j \in Vpn1 : HasTable(q, j)' <=> HasTable(q, j)
  BY <1>7, <1>8 DEF HasTable
<1>10. UNCHANGED page_directories
  OBVIOUS
<1>11. DirectoriesApart' /\ TablesApart'
  BY <1>7, <1>8, <1>9, <1>10 DEF FramesOK, DirectoriesApart, TablesApart, HasTable
<1>12. NoPageOf'
  BY <1>1, <1>3, <1>7, <1>8, <1>9, <1>10, TableIs DEF FramesOK, NoPageOf, HasTable, TypesOK
<1>13. EntriesKnown'
  <2> SUFFICES ASSUME NEW q \in Pid, NEW j \in Vpn1, NEW m \in Vpn2, HasTable(q, j)',
                      table'[TableOf(q, j)'][m].base # NULL
               PROVE  mapped'[table'[TableOf(q, j)'][m].base] = <<TableOf(q, j)', m>>
    BY DEF EntriesKnown
  <2>0. HasTable(q, j) /\ TableOf(q, j)' = TableOf(q, j)
    BY <1>8, <1>9 DEF HasTable
  <2>1. CASE TableOf(q, j) = t /\ m = k
    BY <1>1, <1>5, <2>0, <2>1 DEF TypesOK
  <2>2. CASE ~(TableOf(q, j) = t /\ m = k)
    <3>1. /\ table'[TableOf(q, j)][m].base = table[TableOf(q, j)][m].base
          /\ table[TableOf(q, j)][m].base # f
      BY <1>5, <2>0, <2>2
    <3>2. table[TableOf(q, j)][m].base \in Frame
      BY <2>0, <3>1, TableIs, EntryIs
    <3>3. EntriesKnown
      BY DEF FramesOK
    <3>4. PICK b : b = table[TableOf(q, j)][m].base
      OBVIOUS
    <3>5. b # NULL /\ b # f /\ b \in Frame
      BY <3>1, <3>2, <3>4
    <3>6. mapped[b] = <<TableOf(q, j), m>>
      BY ONLY <2>0, <3>3, <3>4, <3>5 DEF EntriesKnown
    <3>7. mapped'[b] = mapped[b]
      BY <1>1, <3>5 DEF TypesOK
    <3> QED
      BY ONLY <2>0, <3>1, <3>4, <3>6, <3>7
  <2> QED
    BY <2>1, <2>2
<1>14. PagesKnown'
  <2> SUFFICES ASSUME NEW g \in Frame, mapped'[g] # NULL
               PROVE  /\ table'[mapped'[g][1]][mapped'[g][2]].base = g
                      /\ \E q \in Pid, j \in Vpn1 :
                            HasTable(q, j)' /\ TableOf(q, j)' = mapped'[g][1]
    BY DEF PagesKnown, Entry
  <2>1. CASE g = f
    <3>1. mapped'[g] = <<t, k>>
      BY <1>1, <2>1 DEF TypesOK
    <3>2. HasTable(p, i)' /\ TableOf(p, i)' = t
      BY <1>8, <1>9 DEF t, HasTable
    <3>3. table'[t][k].base = f
      BY <1>2, <1>4
    <3> QED
      BY <2>1, <3>1, <3>2, <3>3
  <2>2. CASE g # f
    <3>1. mapped'[g] = mapped[g] /\ mapped[g] # NULL
      BY <1>1, <2>2 DEF TypesOK
    <3>2. PICK q \in Pid, j \in Vpn1 : HasTable(q, j) /\ TableOf(q, j) = mapped[g][1]
      BY <3>1 DEF FramesOK, PagesKnown
    <3> DEFINE m == mapped[g][2]
    <3>3. m \in Vpn2 /\ table[TableOf(q, j)][m].base = g
      BY <3>1, <3>2, MappedIs DEF FramesOK, PagesKnown, Entry
    <3> HIDE DEF m
    <3>4. ~(TableOf(q, j) = t /\ m = k)
      BY <2>2, <3>3, NullAssumption DEF t, Present, Entry
    <3>5. table'[TableOf(q, j)][m].base = g
      BY <1>5, <2>2, <3>2, <3>3, <3>4
    <3> QED
      BY <1>8, <1>9, <3>1, <3>2, <3>5 DEF m, HasTable
  <2> QED
    BY <2>1, <2>2
<1>15. UsedOK'
  <2> SUFFICES ASSUME NEW g \in Frame
               PROVE  g \in used' <=> InRole(g)'
    BY DEF UsedOK
  <2>1. CASE g = f
    BY <1>1, <1>2, <2>1 DEF InRole, TypesOK
  <2>2. CASE g # f
    <3>1. mapped'[g] = mapped[g] /\ (g \in used' <=> g \in used)
      BY <1>1, <2>2 DEF TypesOK
    <3>2. (\E q \in Pid, j \in Vpn1 : HasTable(q, j)' /\ TableOf(q, j)' = g)
             <=> \E q \in Pid, j \in Vpn1 : HasTable(q, j) /\ TableOf(q, j) = g
      BY <1>8, <1>9 DEF HasTable
    <3> QED
      BY <1>10, <3>1, <3>2 DEF FramesOK, UsedOK, InRole
  <2> QED
    BY <2>1, <2>2
<1>16. ASSUME NEW m \in Vpn2, m # k, ~Present(<<TableOf(p, i), m>>)
       PROVE  table'[TableOf(p, i)][m].base = NULL
  BY <1>5, <1>16 DEF Present, Entry, t
<1> QED
  BY <1>6, <1>8, <1>11, <1>12, <1>13, <1>14, <1>15, <1>16 DEF FramesOK

-----------------------------------------------------------------------------
\* The frames of a process, said without the sets of the definition.
LEMMA OwnedIs ==
  ASSUME TypesOK, FramesOK, NEW p \in Pid, NEW g \in Frame
  PROVE  g \in Owned(p) <=>
            \/ page_directories[p] = g
            \/ \E i \in Vpn1 : HasTable(p, i) /\ TableOf(p, i) = g
            \/ mapped[g] # NULL /\ \E i \in Vpn1 : HasTable(p, i) /\ TableOf(p, i) = mapped[g][1]
<1>1. g \in Tables(p) <=> \E i \in Vpn1 : HasTable(p, i) /\ TableOf(p, i) = g
  BY DEF Tables, HasTable
<1>2. page_directories[p] = g => Exists(p)
  BY DEF Exists
<1>3. g \in Pages(p) <=> \E i \in Vpn1, k \in Vpn2 :
                            HasTable(p, i) /\ table[TableOf(p, i)][k].base = g
  <2>1. ASSUME g \in Pages(p)
        PROVE  \E i \in Vpn1, k \in Vpn2 : HasTable(p, i) /\ table[TableOf(p, i)][k].base = g
    <3>1. PICK a \in Entries(p) : table[a[1]][a[2]].base = g
      BY <2>1 DEF Pages, Entry
    <3>2. a[1] \in Tables(p) /\ a[2] \in Vpn2
      BY DEF Entries
    <3>3. PICK i \in Vpn1 : HasTable(p, i) /\ TableOf(p, i) = a[1]
      BY <3>2 DEF Tables, HasTable
    <3> QED
      BY <3>1, <3>2, <3>3
  <2>2. ASSUME NEW i \in Vpn1, NEW k \in Vpn2, HasTable(p, i), table[TableOf(p, i)][k].base = g
        PROVE  g \in Pages(p)
    <3> DEFINE a == <<TableOf(p, i), k>>
    <3>1. TableOf(p, i) \in Tables(p)
      BY <2>2, TableIs DEF Tables, HasTable
    <3>2. a \in Entries(p) /\ Entry(a).base = g /\ Present(a)
      BY <2>2, <3>1 DEF Entries, Entry, Present
    <3> QED
      BY <3>2 DEF Pages
  <2> QED
    BY <2>1, <2>2
<1>4. (\E i \in Vpn1, k \in Vpn2 : HasTable(p, i) /\ table[TableOf(p, i)][k].base = g)
         <=> mapped[g] # NULL /\ \E i \in Vpn1 : HasTable(p, i) /\ TableOf(p, i) = mapped[g][1]
  <2>1. ASSUME NEW i \in Vpn1, NEW k \in Vpn2, HasTable(p, i), table[TableOf(p, i)][k].base = g
        PROVE  mapped[g] # NULL /\ TableOf(p, i) = mapped[g][1]
    <3>1. mapped[g] = <<TableOf(p, i), k>>
      BY <2>1 DEF FramesOK, EntriesKnown
    <3>2. <<TableOf(p, i), k>> \in Frame \X Vpn2
      BY <2>1, TableIs
    <3> QED
      BY <3>1, <3>2
  <2>2. ASSUME mapped[g] # NULL, NEW i \in Vpn1, HasTable(p, i), TableOf(p, i) = mapped[g][1]
        PROVE  \E k \in Vpn2 : table[TableOf(p, i)][k].base = g
    BY <2>2, MappedIs DEF FramesOK, PagesKnown, Entry
  <2> QED
    BY <2>1, <2>2
<1> QED
  BY <1>1, <1>2, <1>3, <1>4 DEF Owned

\* A process that goes leaves all frames of the others alone.
LEMMA Removed ==
  ASSUME TypesOK, FramesOK, NEW p \in Pid, RemoveProcess(p)
  PROVE  /\ TypesOK' /\ FramesOK' /\ ~Exists(p)'
         /\ \A q \in Pid, j \in Vpn1 : q # p /\ HasTable(q, j) =>
               HasTable(q, j)' /\ TableOf(q, j)' = TableOf(q, j)
<1> DEFINE O == Owned(p)
<1> USE DEF RemoveProcess, GiveBack, Without
<1>1. /\ used' = used \ O
      /\ mapped' = [g \in Frame |-> IF g \in O THEN NULL ELSE mapped[g]]
      /\ directory' = [g \in Frame |-> IF g \in O THEN NoTables ELSE directory[g]]
      /\ table' = [g \in Frame |-> IF g \in O THEN NoPages ELSE table[g]]
      /\ page_directories' = [page_directories EXCEPT ![p] = NULL]
      /\ tlb' = IF curr_pid = p THEN EmptyTlb ELSE tlb
      /\ UNCHANGED <<curr_pid, mmuPc>>
  OBVIOUS
<1>2. \A g \in Frame : g \in O <=>
            \/ page_directories[p] = g
            \/ \E i \in Vpn1 : HasTable(p, i) /\ TableOf(p, i) = g
            \/ mapped[g] # NULL /\ \E i \in Vpn1 : HasTable(p, i) /\ TableOf(p, i) = mapped[g][1]
  BY OwnedIs
<1> HIDE DEF O
<1>3. TypesOK'
  <2>1. NoPages \in [Vpn2 -> [base : Frame \cup {NULL}, dirty : BOOLEAN]]
    BY DEF NoPages, NoEntry
  <2>2. NoTables \in [Vpn1 -> Frame \cup {NULL}] /\ EmptyTlb \in [Page -> Address \cup {NULL}]
    BY DEF NoTables, EmptyTlb
  <2>3. table' \in [Frame -> [Vpn2 -> [base : Frame \cup {NULL}, dirty : BOOLEAN]]]
    BY <1>1, <2>1 DEF TypesOK
  <2>4. directory' \in [Frame -> [Vpn1 -> Frame \cup {NULL}]]
    BY <1>1, <2>2 DEF TypesOK
  <2>5. mapped' \in [Frame -> Address \cup {NULL}] /\ used' \subseteq Frame
    BY <1>1 DEF TypesOK
  <2>6. tlb' \in [Page -> Address \cup {NULL}]
    BY <1>1, <2>2 DEF TypesOK
  <2>7. page_directories' \in [Pid -> Frame \cup {NULL}] /\ curr_pid' \in Pid /\ mmuPc' \in Places
    BY <1>1 DEF TypesOK
  <2> QED
    BY <2>3, <2>4, <2>5, <2>6, <2>7 DEF TypesOK
<1>4. \A q \in Pid : /\ page_directories'[q] = IF q = p THEN NULL ELSE page_directories[q]
                     /\ Exists(q)' <=> q # p /\ Exists(q)
  BY <1>1 DEF Exists, TypesOK
<1>5. \A q \in Pid : q # p /\ Exists(q) => page_directories[q] \notin O
  <2> SUFFICES ASSUME NEW q \in Pid, q # p, Exists(q)
               PROVE  page_directories[q] \notin O
    OBVIOUS
  <2>1. page_directories[q] \in Frame /\ mapped[page_directories[q]] = NULL
    BY TableIs DEF FramesOK, NoPageOf
  <2>2. page_directories[p] # page_directories[q]
    BY DEF FramesOK, DirectoriesApart
  <2>3. \A i \in Vpn1 : HasTable(p, i) => TableOf(p, i) # page_directories[q]
    BY DEF FramesOK, TablesApart
  <2> QED
    BY <1>2, <2>1, <2>2, <2>3
<1>6. \A q \in Pid, j \in Vpn1 : q # p /\ HasTable(q, j) => TableOf(q, j) \notin O
  <2> SUFFICES ASSUME NEW q \in Pid, NEW j \in Vpn1, q # p, HasTable(q, j)
               PROVE  TableOf(q, j) \notin O
    OBVIOUS
  <2>1. TableOf(q, j) \in Frame /\ mapped[TableOf(q, j)] = NULL /\ Exists(q)
    BY TableIs DEF FramesOK, NoPageOf, HasTable
  <2>2. page_directories[p] # TableOf(q, j)
    BY <2>1 DEF FramesOK, TablesApart, Exists
  <2>3. \A i \in Vpn1 : HasTable(p, i) => TableOf(p, i) # TableOf(q, j)
    BY <2>1 DEF FramesOK, TablesApart
  <2> QED
    BY <1>2, <2>1, <2>2, <2>3
<1>7. \A q \in Pid, j \in Vpn1 : q # p /\ Exists(q) => TableOf(q, j)' = TableOf(q, j)
  <2> SUFFICES ASSUME NEW q \in Pid, NEW j \in Vpn1, q # p, Exists(q)
               PROVE  TableOf(q, j)' = TableOf(q, j)
    OBVIOUS
  <2>1. page_directories[q] \in Frame \ O /\ page_directories'[q] = page_directories[q]
    BY <1>4, <1>5, TableIs
  <2>2. directory'[page_directories[q]] = directory[page_directories[q]]
    BY <1>1, <2>1
  <2> QED
    BY <2>1, <2>2 DEF TableOf
<1>8. \A q \in Pid, j \in Vpn1 : HasTable(q, j)' <=> q # p /\ HasTable(q, j)
  BY <1>4, <1>7 DEF HasTable
<1>9. \A q \in Pid, j \in Vpn1 : HasTable(q, j)' =>
         /\ q # p /\ HasTable(q, j) /\ Exists(q)
         /\ TableOf(q, j)' = TableOf(q, j)
         /\ TableOf(q, j) \in Frame \ O /\ table'[TableOf(q, j)] = table[TableOf(q, j)]
  <2> SUFFICES ASSUME NEW q \in Pid, NEW j \in Vpn1, HasTable(q, j)'
               PROVE  /\ q # p /\ HasTable(q, j) /\ Exists(q)
                      /\ TableOf(q, j)' = TableOf(q, j) /\ TableOf(q, j) \in Frame \ O
                      /\ table'[TableOf(q, j)] = table[TableOf(q, j)]
    OBVIOUS
  <2>1. q # p /\ HasTable(q, j)
    BY <1>8
  <2>2. Exists(q)
    BY <2>1 DEF HasTable
  <2>3. TableOf(q, j)' = TableOf(q, j)
    BY <1>7, <2>1, <2>2
  <2>4. TableOf(q, j) \in Frame
    BY <2>1, TableIs
  <2>5. TableOf(q, j) \notin O
    BY <1>6, <2>1
  <2>6. table'[TableOf(q, j)] = table[TableOf(q, j)]
    BY <1>1, <2>4, <2>5
  <2> QED
    BY <2>1, <2>2, <2>3, <2>4, <2>5, <2>6
<1>10. DirectoriesApart'
  <2> SUFFICES ASSUME NEW q \in Pid, NEW r \in Pid, Exists(q)',
                      page_directories'[q] = page_directories'[r]
               PROVE  q = r
    BY DEF DirectoriesApart
  <2>1. q # p /\ Exists(q) /\ r # p
    BY <1>4 DEF Exists
  <2> QED
    BY <1>4, <2>1 DEF FramesOK, DirectoriesApart
<1>11. TablesApart'
  <2> SUFFICES ASSUME NEW q \in Pid, NEW r \in Pid, NEW i \in Vpn1, NEW j \in Vpn1,
                      HasTable(q, i)', Exists(r)'
               PROVE  /\ TableOf(q, i)' # page_directories'[r]
                      /\ TableOf(q, i)' = TableOf(r, j)' => q = r /\ i = j
    BY DEF TablesApart
  <2>1. HasTable(q, i) /\ TableOf(q, i)' = TableOf(q, i)
    BY <1>9
  <2>2. /\ r # p /\ Exists(r) /\ page_directories'[r] = page_directories[r]
        /\ TableOf(r, j)' = TableOf(r, j)
    BY <1>4, <1>7
  <2> QED
    BY <2>1, <2>2 DEF FramesOK, TablesApart
<1>12. NoPageOf'
  <2>1. \A q \in Pid : Exists(q)' => mapped'[page_directories'[q]] = NULL
    BY <1>1, <1>4, TableIs DEF FramesOK, NoPageOf
  <2>2. \A q \in Pid, j \in Vpn1 : HasTable(q, j)' => mapped'[TableOf(q, j)'] = NULL
    <3> SUFFICES ASSUME NEW q \in Pid, NEW j \in Vpn1, HasTable(q, j)'
                 PROVE  mapped'[TableOf(q, j)'] = NULL
      OBVIOUS
    <3>1. /\ HasTable(q, j) /\ TableOf(q, j)' = TableOf(q, j)
          /\ TableOf(q, j) \in Frame \ O
      BY <1>9
    <3>2. mapped[TableOf(q, j)] = NULL
      BY <3>1 DEF FramesOK, NoPageOf
    <3>3. mapped'[TableOf(q, j)] = mapped[TableOf(q, j)]
      BY <1>1, <3>1
    <3> QED
      BY <3>1, <3>2, <3>3
  <2> QED
    BY <2>1, <2>2 DEF NoPageOf
<1>13. EntriesKnown'
  <2> SUFFICES ASSUME NEW q \in Pid, NEW j \in Vpn1, NEW k \in Vpn2, HasTable(q, j)',
                      table'[TableOf(q, j)'][k].base # NULL
               PROVE  mapped'[table'[TableOf(q, j)'][k].base] = <<TableOf(q, j)', k>>
    BY DEF EntriesKnown
  <2> DEFINE t == TableOf(q, j)
             g == table[t][k].base
  <2>1. /\ q # p /\ HasTable(q, j) /\ Exists(q) /\ TableOf(q, j)' = t
        /\ t \in Frame \ O /\ table'[t] = table[t]
    BY <1>9
  <2>2. g \in Frame /\ mapped[g] = <<t, k>>
    <3>1. g # NULL
      BY <2>1
    <3>2. g \in Frame
      BY <2>1, <3>1, EntryIs
    <3> QED
      BY <2>1, <3>1, <3>2 DEF FramesOK, EntriesKnown
  <2>3. g \notin O
    <3>1. mapped[g] # NULL /\ mapped[g][1] = t
      BY <2>1, <2>2
    <3>2. InRole(g) /\ page_directories[p] # g
      BY <2>2, <3>1 DEF FramesOK, NoPageOf, Exists, InRole
    <3>3. \A i \in Vpn1 : HasTable(p, i) => TableOf(p, i) # g /\ TableOf(p, i) # t
      BY <2>1, <3>1 DEF FramesOK, NoPageOf, TablesApart
    <3> QED
      BY <1>2, <2>2, <3>1, <3>2, <3>3
  <2>4. mapped'[g] = mapped[g]
    BY <1>1, <2>2, <2>3
  <2>5. table'[TableOf(q, j)'][k].base = g
    BY <2>1
  <2> QED
    BY <2>1, <2>2, <2>4, <2>5
<1>14. PagesKnown'
  <2> SUFFICES ASSUME NEW g \in Frame, mapped'[g] # NULL
               PROVE  /\ table'[mapped'[g][1]][mapped'[g][2]].base = g
                      /\ \E q \in Pid, j \in Vpn1 :
                            HasTable(q, j)' /\ TableOf(q, j)' = mapped'[g][1]
    BY DEF PagesKnown, Entry
  <2>1. g \notin O /\ mapped'[g] = mapped[g] /\ mapped[g] # NULL
    BY <1>1
  <2>2. PICK q \in Pid, j \in Vpn1 : HasTable(q, j) /\ TableOf(q, j) = mapped[g][1]
    BY <2>1 DEF FramesOK, PagesKnown
  <2>3. q # p
    BY <1>2, <2>1, <2>2
  <2>4. HasTable(q, j)' /\ TableOf(q, j)' = mapped[g][1]
        /\ table'[mapped[g][1]] = table[mapped[g][1]]
    BY <1>8, <1>9, <2>2, <2>3
  <2> QED
    BY <2>1, <2>4 DEF FramesOK, PagesKnown, Entry
<1>15. UsedOK'
  <2> SUFFICES ASSUME NEW g \in Frame
               PROVE  g \in used' <=> InRole(g)'
    BY DEF UsedOK
  <2>1. CASE g \in O
    <3>1. g \notin used' /\ mapped'[g] = NULL
      BY <1>1, <2>1
    <3>2. \A q \in Pid : page_directories'[q] # g
      BY <1>4, <1>5, <2>1, NullAssumption DEF Exists
    <3>3. \A q \in Pid, j \in Vpn1 : HasTable(q, j)' => TableOf(q, j)' # g
      BY <1>9, <2>1
    <3> QED
      BY <3>1, <3>2, <3>3 DEF InRole
  <2>2. CASE g \notin O
    <3>1. mapped'[g] = mapped[g] /\ (g \in used' <=> g \in used)
      BY <1>1, <2>2
    <3>2. \A q \in Pid : page_directories'[q] = g <=> page_directories[q] = g
      BY <1>2, <1>4, <2>2
    <3>3. \A q \in Pid, j \in Vpn1 :
             HasTable(q, j)' /\ TableOf(q, j)' = g <=> HasTable(q, j) /\ TableOf(q, j) = g
      BY <1>2, <1>8, <1>9, <2>2
    <3> QED
      BY <3>1, <3>2, <3>3 DEF FramesOK, UsedOK, InRole
  <2> QED
    BY <2>1, <2>2
<1> QED
  BY <1>3, <1>4, <1>8, <1>9, <1>10, <1>11, <1>12, <1>13, <1>14, <1>15 DEF FramesOK

-----------------------------------------------------------------------------
\* While the tables of the process served stay, the TLB stays true.
LEMMA TlbKept ==
  ASSUME TypesOK, TlbOK, UNCHANGED <<tlb, curr_pid>>,
         \A j \in Vpn1 : HasTable(curr_pid, j) =>
            HasTable(curr_pid, j)' /\ TableOf(curr_pid, j)' = TableOf(curr_pid, j)
  PROVE  TlbOK'
<1> SUFFICES ASSUME NEW v \in Page, tlb[v] # NULL
             PROVE  HasTable(curr_pid, v[1])' /\ tlb[v] = <<TableOf(curr_pid, v[1])', v[2]>>
  BY DEF TlbOK
<1>1. v[1] \in Vpn1 /\ HasTable(curr_pid, v[1]) /\ tlb[v] = <<TableOf(curr_pid, v[1]), v[2]>>
  BY DEF TlbOK, Page
<1> QED
  BY <1>1

LEMMA InitOK == MmuInit => IInv
<1> SUFFICES ASSUME MmuInit PROVE IInv
  OBVIOUS
<1> USE DEF MmuInit, KernelInit
<1>1. TypesOK
  BY DEF TypesOK, NoTables, NoPages, NoEntry, EmptyTlb, Places
<1>2. (\A p \in Pid : ~Exists(p)) /\ \A p \in Pid, i \in Vpn1 : ~HasTable(p, i)
  BY DEF Exists, HasTable
<1>3. FramesOK
  BY <1>2 DEF FramesOK, DirectoriesApart, TablesApart, NoPageOf, EntriesKnown, PagesKnown,
              UsedOK, InRole, Exists
<1> QED
  BY <1>1, <1>3 DEF IInv, AddingOK, CallOK, TlbOK, EmptyTlb

LEMMA AddProcessOK ==
  ASSUME IInv, NEW p \in Pid, AddProcess(p)
  PROVE  IInv'
<1> USE DEF IInv
<1>1. PICK f \in Frame : /\ AskKernelForFrame(f, NULL)
                         /\ directory' = [directory EXCEPT ![f] = NoTables]
                         /\ table' = Cleared(f)
                         /\ page_directories' = [page_directories EXCEPT ![p] = f]
  BY DEF AddProcess
<1>2. /\ ~Exists(p) /\ call' = [op |-> "add", pid |-> p, left |-> Testing]
      /\ mmuPc' = "add table" /\ UNCHANGED <<tlb, curr_pid>>
  BY DEF AddProcess
<1>3. mmuPc' \in Places
  BY <1>2 DEF Places
<1>4. /\ TypesOK' /\ FramesOK' /\ Exists(p)'
      /\ \A j \in Vpn1 : TableOf(p, j)' = NULL
      /\ \A q \in Pid, j \in Vpn1 : HasTable(q, j) =>
            HasTable(q, j)' /\ TableOf(q, j)' = TableOf(q, j)
  BY <1>1, <1>2, <1>3, NewDirectory
<1>5. AddingOK'
  <2>1. call' \in [op : {"add"}, pid : Pid, left : SUBSET Testing] /\ call'.pid = p
    BY <1>2
  <2>2. Exists(call.pid)' /\ \A j \in Vpn1 : TableOf(call.pid, j)' = NULL
    BY <1>4, <2>1 DEF Exists, TableOf
  <2> QED
    BY <1>2, <2>1, <2>2 DEF AddingOK
<1>6. CallOK'
  BY <1>2 DEF CallOK
<1>7. TlbOK'
  BY <1>2, <1>4, TlbKept DEF TypesOK
<1> QED
  BY <1>4, <1>5, <1>6, <1>7

LEMMA AddTableOK == ASSUME IInv, AddTable PROVE IInv'
<1> USE DEF IInv
<1> DEFINE p == call.pid
<1>1. PICK f \in Frame : /\ AskKernelForFrame(f, NULL)
                         /\ directory' = [directory EXCEPT ![f] = NoTables,
                                            ![page_directories[p]][0] = f]
                         /\ table' = Cleared(f)
  BY DEF AddTable
<1>2. mmuPc = "add table" /\ mmuPc' = "add pages" /\ UNCHANGED <<translation, call>>
  BY DEF AddTable
<1>3. /\ p \in Pid /\ Exists(p) /\ TableOf(p, 0) = NULL
      /\ call \in [op : {"add"}, pid : Pid, left : SUBSET Testing]
  BY <1>2 DEF AddingOK
<1> HIDE DEF p
<1>4. /\ TypesOK' /\ FramesOK'
      /\ \A q \in Pid, j \in Vpn1 : Exists(q) =>
            TableOf(q, j)' = IF q = p /\ j = 0 THEN f ELSE TableOf(q, j)
      /\ f \in Frame /\ table'[f] = NoPages
  BY <1>1, <1>2, <1>3, NewTable DEF Places
<1>5. \A q \in Pid : Exists(q)' <=> Exists(q)
  BY <1>2 DEF Exists, translation
<1>6. AddingOK'
  <2>1. call' = call /\ call'.pid = p
    BY <1>2 DEF p
  <2>2. Exists(call.pid)' /\ TableOf(call.pid, 0)' = f
    BY <1>3, <1>4, <1>5, <2>1 DEF Exists, TableOf
  <2>3. ASSUME NEW v \in call.left PROVE table'[f][v[2]].base = NULL
    <3>1. v[2] \in Vpn2
      BY <1>3, SegmentsAssumption DEF Page
    <3> QED
      BY <1>4, <3>1 DEF NoPages, NoEntry
  <2> QED
    BY <1>2, <1>3, <2>1, <2>2, <2>3 DEF AddingOK, Present, Entry
<1>7. CallOK'
  BY <1>2 DEF CallOK
<1>8. TlbOK'
  <2>1. curr_pid \in Pid /\ UNCHANGED <<tlb, curr_pid>>
    BY <1>2 DEF TypesOK, translation
  <2> QED
    BY <1>3, <1>4, <1>5, <2>1, TlbKept DEF HasTable
<1> QED
  BY <1>4, <1>6, <1>7, <1>8

LEMMA AddPageOK == ASSUME IInv, AddPage PROVE IInv'
<1> USE DEF IInv
<1> DEFINE p == call.pid
           k == Min({ v[2] : v \in call.left })
           t == TableOf(p, 0)
<1>1. PICK f \in Frame : /\ AskKernelForFrame(f, <<t, k>>)
                         /\ directory' = [directory EXCEPT ![f] = NoTables]
                         /\ table' = [Cleared(f) EXCEPT ![t][k].base = f]
  BY DEF AddPage
<1>2. /\ mmuPc = "add pages" /\ mmuPc' = "add pages" /\ UNCHANGED translation
      /\ call.left # {} /\ call' = [call EXCEPT !.left = @ \ {<<0, k>>}]
  BY DEF AddPage
<1>3. /\ p \in Pid /\ Exists(p) /\ t # NULL
      /\ call \in [op : {"add"}, pid : Pid, left : SUBSET Testing]
      /\ \A v \in call.left : ~Present(<<t, v[2]>>)
  BY <1>2 DEF AddingOK
<1>4. \A v \in call.left : v[1] = 0 /\ v[2] \in Vpn2 /\ v = <<0, v[2]>>
  BY <1>3, SegmentsAssumption DEF Page
<1>5. k \in { v[2] : v \in call.left }
  <2>1. { v[2] : v \in call.left } \in SUBSET Nat /\ { v[2] : v \in call.left } # {}
    BY <1>2, <1>4
  <2> QED
    BY <2>1, MinOfNat
<1>6. k \in Vpn2 /\ ~Present(<<t, k>>)
  BY <1>3, <1>4, <1>5
<1>7. /\ TypesOK' /\ FramesOK'
      /\ \A q \in Pid, j \in Vpn1 : Exists(q) => TableOf(q, j)' = TableOf(q, j)
      /\ \A m \in Vpn2 : m # k /\ ~Present(<<t, m>>) => table'[t][m].base = NULL
  <2> HIDE DEF p, k
  <2>1. p \in Pid /\ 0 \in Vpn1 /\ HasTable(p, 0) /\ mmuPc' \in Places
    BY <1>2, <1>3 DEF HasTable, Places
  <2>2. UNCHANGED translation
    BY <1>2
  <2> QED
    BY <1>1, <1>6, <2>1, <2>2, NewPage
<1>8. \A q \in Pid : Exists(q)' <=> Exists(q)
  BY <1>2 DEF Exists, translation
<1>9. /\ call' \in [op : {"add"}, pid : Pid, left : SUBSET Testing]
      /\ call'.pid = p /\ call'.left = call.left \ {<<0, k>>}
  BY <1>2, <1>3
<1> HIDE DEF p, k, t
<1>10. AddingOK'
  <2>1. Exists(call.pid)' /\ TableOf(call.pid, 0)' = t
    BY <1>3, <1>7, <1>8, <1>9 DEF Exists, TableOf, t
  <2>2. ASSUME NEW v \in call'.left PROVE table'[t][v[2]].base = NULL
    <3>1. v \in call.left /\ v # <<0, k>>
      BY <1>9
    <3>2. v[2] \in Vpn2 /\ v[2] # k
      BY <1>4, <3>1
    <3> QED
      BY <1>3, <1>7, <3>1, <3>2
  <2> QED
    BY <1>2, <1>3, <1>9, <2>1, <2>2 DEF AddingOK, Present, Entry
<1>11. CallOK'
  BY <1>2 DEF CallOK
<1>12. TlbOK'
  <2>1. curr_pid \in Pid /\ UNCHANGED <<tlb, curr_pid>>
    BY <1>2 DEF TypesOK, translation
  <2> QED
    BY <1>7, <1>8, <2>1, TlbKept DEF HasTable
<1> QED
  BY <1>7, <1>10, <1>11, <1>12

LEMMA AllocTableOK == ASSUME IInv, AllocTable PROVE IInv'
<1> USE DEF IInv
<1> DEFINE p == call.pid
           i == call.page[1]
<1>1. PICK f \in Frame : /\ AskKernelForFrame(f, NULL)
                         /\ directory' = [directory EXCEPT ![f] = NoTables,
                                            ![page_directories[p]][i] = f]
                         /\ table' = Cleared(f)
  BY DEF AllocTable
<1>2. mmuPc = "lookup" /\ TableOf(p, i) = NULL /\ UNCHANGED <<translation, call, mmuPc>>
  BY DEF AllocTable
<1>3. /\ p \in Pid /\ Exists(p) /\ curr_pid = p
      /\ call.page \in Segments /\ i \in Vpn1
  BY <1>2, SegmentsAssumption DEF CallOK, Page
<1>4. /\ TypesOK' /\ FramesOK'
      /\ \A q \in Pid, j \in Vpn1 : Exists(q) =>
            TableOf(q, j)' = IF q = p /\ j = i THEN f ELSE TableOf(q, j)
  <2> HIDE DEF p, i
  <2> QED
    BY <1>1, <1>2, <1>3, NewTable DEF Places
<1>5. \A q \in Pid : Exists(q)' <=> Exists(q)
  BY <1>2 DEF Exists, translation
<1>6. AddingOK'
  BY <1>2 DEF AddingOK
<1>7. CallOK'
  BY <1>2, <1>3, <1>5 DEF CallOK, translation, Exists
<1>8. TlbOK'
  <2>1. curr_pid \in Pid /\ UNCHANGED <<tlb, curr_pid>>
    BY <1>2 DEF TypesOK, translation
  <2> HIDE DEF p, i
  <2> QED
    BY <1>2, <1>3, <1>4, <1>5, <2>1, TlbKept DEF HasTable
<1> QED
  BY <1>4, <1>6, <1>7, <1>8

LEMMA LoadPageOK == ASSUME IInv, LoadPage PROVE IInv'
<1> USE DEF IInv
<1> DEFINE p == call.pid
           i == call.page[1]
           k == call.page[2]
<1>1. PICK f \in Frame : /\ AskKernelForFrame(f, pte)
                         /\ directory' = [directory EXCEPT ![f] = NoTables]
                         /\ table' = [Cleared(f) EXCEPT ![pte[1]][pte[2]].base = f]
  BY DEF LoadPage
<1>2. mmuPc = "entry" /\ ~Present(pte) /\ UNCHANGED <<translation, call, pte, mmuPc>>
  BY DEF LoadPage
<1>3. /\ p \in Pid /\ Exists(p) /\ curr_pid = p /\ call.page \in Segments
      /\ i \in Vpn1 /\ k \in Vpn2 /\ TableOf(p, i) # NULL /\ pte = <<TableOf(p, i), k>>
  BY <1>2, SegmentsAssumption DEF CallOK, Page
<1>4. /\ TypesOK' /\ FramesOK'
      /\ \A q \in Pid, j \in Vpn1 : Exists(q) => TableOf(q, j)' = TableOf(q, j)
  <2> HIDE DEF p, i, k
  <2>1. HasTable(p, i) /\ mmuPc' \in Places
    BY <1>2, <1>3 DEF HasTable, Places
  <2>2. pte[1] = TableOf(p, i) /\ pte[2] = k
    BY <1>3
  <2>3. /\ AskKernelForFrame(f, <<TableOf(p, i), k>>)
        /\ table' = [Cleared(f) EXCEPT ![TableOf(p, i)][k].base = f]
        /\ ~Present(<<TableOf(p, i), k>>)
    BY <1>1, <1>2, <1>3, <2>2
  <2> QED
    BY <1>1, <1>2, <1>3, <2>1, <2>3, NewPage
<1>5. \A q \in Pid : Exists(q)' <=> Exists(q)
  BY <1>2 DEF Exists, translation
<1>6. AddingOK'
  BY <1>2 DEF AddingOK
<1>7. CallOK'
  <2>1. directory'[page_directories'[p]][i] = directory[page_directories[p]][i]
    BY <1>3, <1>4 DEF TableOf
  <2> QED
    BY <1>2, <1>3, <2>1 DEF CallOK, translation, Exists, TableOf
<1>8. TlbOK'
  <2>1. curr_pid \in Pid /\ UNCHANGED <<tlb, curr_pid>>
    BY <1>2 DEF TypesOK, translation
  <2> QED
    BY <1>4, <1>5, <2>1, TlbKept DEF HasTable
<1> QED
  BY <1>4, <1>6, <1>7, <1>8

-----------------------------------------------------------------------------
\* The steps that ask for no frame.
LEMMA FramesKept ==
  ASSUME FramesOK, UNCHANGED <<kernel, page_directories>>
  PROVE  /\ FramesOK'
         /\ \A q \in Pid : Exists(q)' <=> Exists(q)
         /\ \A q \in Pid, j \in Vpn1 : TableOf(q, j)' = TableOf(q, j)
<1> USE DEF kernel, physical
<1>1. /\ \A q \in Pid : Exists(q)' <=> Exists(q)
      /\ \A q \in Pid, j \in Vpn1 : TableOf(q, j)' = TableOf(q, j)
      /\ \A q \in Pid, j \in Vpn1 : HasTable(q, j)' <=> HasTable(q, j)
  BY DEF Exists, TableOf, HasTable
<1>2. FramesOK /\ UNCHANGED <<used, mapped, table, page_directories>>
  OBVIOUS
<1>3. DirectoriesApart' /\ TablesApart'
  <2>1. DirectoriesApart'
    BY ONLY <1>1, <1>2 DEF FramesOK, DirectoriesApart
  <2>2. TablesApart'
    BY ONLY <1>1, <1>2 DEF FramesOK, TablesApart
  <2> QED
    BY ONLY <2>1, <2>2
<1>4. NoPageOf'
  BY ONLY <1>1, <1>2 DEF FramesOK, NoPageOf
<1>5. EntriesKnown'
  BY ONLY <1>1, <1>2 DEF FramesOK, EntriesKnown
<1>6. PagesKnown'
  BY ONLY <1>1, <1>2 DEF FramesOK, PagesKnown, Entry
<1>7. UsedOK'
  BY ONLY <1>1, <1>2 DEF FramesOK, UsedOK, InRole
<1> QED
  BY ONLY <1>1, <1>3, <1>4, <1>5, <1>6, <1>7 DEF FramesOK

LEMMA AddedOK == ASSUME IInv, Added PROVE IInv'
<1> USE DEF IInv, Added
<1>1. FramesOK'
  BY FramesKept DEF translation
<1>2. TypesOK'
  BY DEF TypesOK, kernel, physical, translation, Places
<1>3. AddingOK' /\ CallOK'
  BY DEF AddingOK, CallOK
<1>4. TlbOK'
  BY DEF TlbOK, HasTable, Exists, TableOf, kernel, physical, translation
<1> QED
  BY <1>1, <1>2, <1>3, <1>4

\* Another process than the one served last is served with an empty TLB.
LEMMA CallIsOK == ASSUME IInv, NEW c \in Calls, Call(c) PROVE IInv'
<1> USE DEF IInv
<1>1. /\ Exists(c.pid) /\ UNCHANGED <<kernel, page_directories>>
      /\ tlb' = IF curr_pid = c.pid THEN tlb ELSE EmptyTlb
      /\ curr_pid' = c.pid
      /\ \/ c.page \in Segments /\ call' = c /\ mmuPc' = "lookup"
         \/ call' = NULL /\ mmuPc' = "idle"
  BY DEF Call
<1>2. c.pid \in Pid /\ c.page \in Page
  BY CallsAssumption
<1>3. /\ FramesOK'
      /\ \A q \in Pid : Exists(q)' <=> Exists(q)
  BY <1>1, FramesKept
<1>4. TypesOK'
  <2>1. tlb' \in [Page -> Address \cup {NULL}]
    BY <1>1 DEF TypesOK, EmptyTlb
  <2>2. mmuPc' \in Places
    BY <1>1 DEF Places
  <2> QED
    BY <1>1, <1>2, <2>1, <2>2 DEF TypesOK, kernel, physical
<1>5. AddingOK' /\ CallOK'
  BY <1>1, <1>2 DEF AddingOK, CallOK, Exists
<1>6. TlbOK'
  <2>1. CASE curr_pid = c.pid
    BY <1>1, <2>1 DEF TlbOK, HasTable, Exists, TableOf, kernel, physical
  <2>2. CASE curr_pid # c.pid
    BY <1>1, <2>2 DEF TlbOK, EmptyTlb
  <2> QED
    BY <2>1, <2>2
<1> QED
  BY <1>3, <1>4, <1>5, <1>6

LEMMA TlbHitOK == ASSUME IInv, TlbHit PROVE IInv'
<1> USE DEF IInv, TlbHit
<1>1. FramesOK'
  BY FramesKept DEF translation
<1>2. TypesOK'
  BY DEF TypesOK, kernel, physical, translation, Places
<1>3. AddingOK'
  BY DEF AddingOK
<1>4. CallOK'
  <2>1. /\ call.pid \in Pid /\ Exists(call.pid) /\ curr_pid = call.pid
        /\ call.page \in Segments /\ call.page \in Page
    BY SegmentsAssumption DEF CallOK
  <2>2. /\ TableOf(call.pid, call.page[1]) # NULL
        /\ tlb[call.page] = <<TableOf(call.pid, call.page[1]), call.page[2]>>
    BY <2>1 DEF TlbOK, HasTable
  <2> QED
    BY <2>1, <2>2 DEF CallOK, Exists, TableOf, kernel, physical, translation
<1>5. TlbOK'
  BY DEF TlbOK, HasTable, Exists, TableOf, kernel, physical, translation
<1> QED
  BY <1>1, <1>2, <1>3, <1>4, <1>5

\* What a walk finds is added to the TLB, in place of another entry if it is full.
LEMMA WalkOK == ASSUME IInv, Walk PROVE IInv'
<1> USE DEF IInv
<1> DEFINE t == TableOf(call.pid, call.page[1])
           a == <<t, call.page[2]>>
<1>1. /\ mmuPc = "lookup" /\ mmuPc' = "entry" /\ t # NULL /\ pte' = a
      /\ TlbAdd(call.page, a)
      /\ UNCHANGED <<kernel, page_directories, curr_pid, call>>
  BY DEF Walk
<1>2. /\ call.pid \in Pid /\ Exists(call.pid) /\ curr_pid = call.pid
      /\ call.page \in Segments /\ call.page \in Page
      /\ call.page[1] \in Vpn1 /\ call.page[2] \in Vpn2
  BY <1>1, SegmentsAssumption DEF CallOK, Page
<1>3. HasTable(curr_pid, call.page[1]) /\ t = TableOf(curr_pid, call.page[1]) /\ t \in Frame
  BY <1>1, <1>2, TableIs DEF HasTable
<1>4. /\ tlb' \in [Page -> Address \cup {NULL}]
      /\ \A v \in Page : tlb'[v] = NULL \/ tlb'[v] = tlb[v] \/ (v = call.page /\ tlb'[v] = a)
  <2>1. a \in Address
    BY <1>2, <1>3 DEF Address
  <2> HIDE DEF a
  <2>2. CASE tlb' = [tlb EXCEPT ![call.page] = a]
    BY <1>2, <2>1, <2>2 DEF TypesOK
  <2>3. CASE \E old \in Cached : tlb' = [tlb EXCEPT ![old] = NULL, ![call.page] = a]
    <3>1. PICK old \in Page : tlb' = [tlb EXCEPT ![old] = NULL, ![call.page] = a]
      BY <2>3 DEF Cached
    <3> QED
      BY <1>2, <2>1, <3>1 DEF TypesOK
  <2> QED
    BY <1>1, <2>2, <2>3 DEF TlbAdd
<1>5. FramesOK' /\ TypesOK'
  BY <1>1, <1>4, FramesKept DEF TypesOK, kernel, physical, Places
<1>6. AddingOK'
  BY <1>1 DEF AddingOK
<1>7. CallOK'
  BY <1>1, <1>2 DEF CallOK, Exists, TableOf, kernel, physical
<1>8. TlbOK'
  <2> SUFFICES ASSUME NEW v \in Page, tlb'[v] # NULL
               PROVE  HasTable(curr_pid, v[1]) /\ tlb'[v] = <<TableOf(curr_pid, v[1]), v[2]>>
    BY <1>1 DEF TlbOK, HasTable, Exists, TableOf, kernel, physical
  <2> QED
    BY <1>3, <1>4 DEF TlbOK
<1> QED
  BY <1>5, <1>6, <1>7, <1>8

LEMMA ReadOK == ASSUME IInv, Read \/ WriteRefused PROVE IInv'
<1> USE DEF IInv
<1>1. UNCHANGED <<kernel, translation>> /\ mmuPc' = "idle"
  BY DEF Read, WriteRefused, Return
<1>2. FramesOK' /\ TypesOK'
  BY <1>1, FramesKept DEF TypesOK, kernel, physical, translation, Places
<1>3. AddingOK' /\ CallOK'
  BY <1>1 DEF AddingOK, CallOK
<1>4. TlbOK'
  BY <1>1 DEF TlbOK, HasTable, Exists, TableOf, kernel, physical, translation
<1> QED
  BY <1>2, <1>3, <1>4

\* A write marks an entry as dirty, whose page stays where it is.
LEMMA WriteOK == ASSUME IInv, Write PROVE IInv'
<1> USE DEF IInv
<1> DEFINE t == TableOf(call.pid, call.page[1])
           k == call.page[2]
<1>1. /\ mmuPc = "entry" /\ mmuPc' = "idle"
      /\ table' = [table EXCEPT ![pte[1]][pte[2]].dirty = TRUE]
      /\ UNCHANGED <<used, mapped, directory, translation>>
  BY DEF Write, Return
<1>2. call.pid \in Pid /\ Exists(call.pid) /\ k \in Vpn2 /\ t # NULL /\ pte = <<t, k>>
      /\ call.page[1] \in Vpn1
  BY <1>1, SegmentsAssumption DEF CallOK, Page
<1>3. t \in Frame /\ pte[1] = t /\ pte[2] = k
  BY <1>2, TableIs DEF HasTable
<1> HIDE DEF t, k
<1>4. /\ table' \in [Frame -> [Vpn2 -> [base : Frame \cup {NULL}, dirty : BOOLEAN]]]
      /\ \A g \in Frame, m \in Vpn2 : table'[g][m].base = table[g][m].base
  <2>1. table[t] \in [Vpn2 -> [base : Frame \cup {NULL}, dirty : BOOLEAN]]
        /\ table[t][k] \in [base : Frame \cup {NULL}, dirty : BOOLEAN]
    BY <1>2, <1>3, EntryIs DEF TypesOK
  <2> DEFINE e == [table[t][k] EXCEPT !.dirty = TRUE]
             r == [table[t] EXCEPT ![k] = e]
  <2>2. e \in [base : Frame \cup {NULL}, dirty : BOOLEAN] /\ e.base = table[t][k].base
    BY <2>1
  <2>3. table' = [table EXCEPT ![t] = r]
    BY <1>1, <1>3
  <2> HIDE DEF e
  <2>4. r \in [Vpn2 -> [base : Frame \cup {NULL}, dirty : BOOLEAN]]
        /\ \A m \in Vpn2 : r[m].base = table[t][m].base
    BY <1>2, <2>1, <2>2
  <2> HIDE DEF r
  <2> QED
    BY <1>3, <2>3, <2>4 DEF TypesOK
<1>5. TypesOK'
  BY <1>1, <1>4 DEF TypesOK, translation, Places
<1>6. /\ \A q \in Pid : Exists(q)' <=> Exists(q)
      /\ \A q \in Pid, j \in Vpn1 : TableOf(q, j)' = TableOf(q, j)
      /\ \A q \in Pid, j \in Vpn1 : HasTable(q, j)' <=> HasTable(q, j)
      /\ \A q \in Pid, j \in Vpn1 : HasTable(q, j) => TableOf(q, j) \in Frame
  BY <1>1, TableIs DEF Exists, TableOf, HasTable, translation
<1>7. DirectoriesApart' /\ TablesApart' /\ NoPageOf'
  <2>1. DirectoriesApart'
    BY <1>1 DEF FramesOK, DirectoriesApart, Exists, translation
  <2>2. TablesApart'
    BY <1>1 DEF FramesOK, TablesApart, HasTable, Exists, TableOf, translation
  <2>3. NoPageOf'
    BY <1>1 DEF FramesOK, NoPageOf, HasTable, Exists, TableOf, translation
  <2> QED
    BY <2>1, <2>2, <2>3
<1>8. EntriesKnown'
  <2> SUFFICES ASSUME NEW q \in Pid, NEW j \in Vpn1, NEW m \in Vpn2, HasTable(q, j)',
                      table'[TableOf(q, j)'][m].base # NULL
               PROVE  mapped'[table'[TableOf(q, j)'][m].base] = <<TableOf(q, j)', m>>
    BY DEF EntriesKnown
  <2>1. /\ HasTable(q, j) /\ TableOf(q, j)' = TableOf(q, j)
        /\ table'[TableOf(q, j)][m].base = table[TableOf(q, j)][m].base
    BY <1>4, <1>6
  <2>2. mapped' = mapped /\ table[TableOf(q, j)][m].base # NULL
    BY <1>1, <2>1
  <2>3. mapped[table[TableOf(q, j)][m].base] = <<TableOf(q, j), m>>
    BY <2>1, <2>2 DEF FramesOK, EntriesKnown
  <2> QED
    BY <2>1, <2>2, <2>3
<1>9. PagesKnown'
  <2> SUFFICES ASSUME NEW g \in Frame, mapped[g] # NULL
               PROVE  /\ table'[mapped[g][1]][mapped[g][2]].base = g
                      /\ \E q \in Pid, j \in Vpn1 :
                            HasTable(q, j)' /\ TableOf(q, j)' = mapped[g][1]
    BY <1>1 DEF PagesKnown, Entry
  <2>1. table[mapped[g][1]][mapped[g][2]].base = g
    BY DEF FramesOK, PagesKnown, Entry
  <2>2. PICK q \in Pid, j \in Vpn1 : HasTable(q, j) /\ TableOf(q, j) = mapped[g][1]
    BY DEF FramesOK, PagesKnown
  <2>3. mapped[g][1] \in Frame /\ mapped[g][2] \in Vpn2
    BY MappedIs
  <2>4. table'[mapped[g][1]][mapped[g][2]].base = g
    BY <1>4, <2>1, <2>3
  <2>5. HasTable(q, j)' /\ TableOf(q, j)' = mapped[g][1]
    BY <1>6, <2>2
  <2> QED
    BY <2>4, <2>5
<1>10. UsedOK'
  BY <1>1 DEF FramesOK, UsedOK, InRole, HasTable, Exists, TableOf, translation
<1>11. AddingOK' /\ CallOK'
  BY <1>1 DEF AddingOK, CallOK
<1>12. TlbOK'
  BY <1>1 DEF TlbOK, HasTable, Exists, TableOf, translation
<1> QED
  BY <1>5, <1>7, <1>8, <1>9, <1>10, <1>11, <1>12 DEF FramesOK

\* The TLB of a process that is removed is flushed with it.
LEMMA RemoveProcessOK ==
  ASSUME IInv, NEW p \in Pid, RemoveProcess(p)
  PROVE  IInv'
<1> USE DEF IInv
<1>1. /\ TypesOK' /\ FramesOK'
      /\ \A q \in Pid, j \in Vpn1 : q # p /\ HasTable(q, j) =>
            HasTable(q, j)' /\ TableOf(q, j)' = TableOf(q, j)
  BY Removed
<1>2. /\ mmuPc = "idle" /\ UNCHANGED <<curr_pid, call, pte, mmuPc>>
      /\ tlb' = IF curr_pid = p THEN EmptyTlb ELSE tlb
  BY DEF RemoveProcess
<1>3. AddingOK' /\ CallOK'
  BY <1>2 DEF AddingOK, CallOK
<1>4. TlbOK'
  <2>1. CASE curr_pid = p
    BY <1>2, <2>1 DEF TlbOK, EmptyTlb
  <2>2. CASE curr_pid # p
    BY <1>1, <1>2, <2>2, TlbKept DEF TypesOK
  <2> QED
    BY <2>1, <2>2
<1> QED
  BY <1>1, <1>3, <1>4

LEMMA InductiveStep == IInv /\ [MmuNext]_mmuVars => IInv'
<1> SUFFICES ASSUME IInv, [MmuNext]_mmuVars PROVE IInv'
  OBVIOUS
<1>1. ASSUME NEW p \in Pid, AddProcess(p) PROVE IInv'
  BY <1>1, AddProcessOK
<1>2. ASSUME NEW p \in Pid, RemoveProcess(p) PROVE IInv'
  BY <1>2, RemoveProcessOK
<1>3. CASE AddTable
  BY <1>3, AddTableOK
<1>4. CASE AddPage
  BY <1>4, AddPageOK
<1>5. CASE Added
  BY <1>5, AddedOK
<1>6. ASSUME NEW c \in Calls, Call(c) PROVE IInv'
  BY <1>6, CallIsOK
<1>7. CASE TlbHit
  BY <1>7, TlbHitOK
<1>8. CASE AllocTable
  BY <1>8, AllocTableOK
<1>9. CASE Walk
  BY <1>9, WalkOK
<1>10. CASE LoadPage
  BY <1>10, LoadPageOK
<1>11. CASE Read \/ WriteRefused
  BY <1>11, ReadOK
<1>12. CASE Write
  BY <1>12, WriteOK
<1>13. CASE UNCHANGED mmuVars
  <2>1. FramesOK'
    BY <1>13, FramesKept DEF IInv, mmuVars, translation
  <2> QED
    BY <1>13, <2>1 DEF IInv, TypesOK, AddingOK, CallOK, TlbOK, HasTable, Exists, TableOf,
                       Present, Entry, mmuVars, translation, kernel, physical
<1> QED
  BY <1>1, <1>2, <1>3, <1>4, <1>5, <1>6, <1>7, <1>8, <1>9, <1>10, <1>11, <1>12, <1>13
     DEF MmuNext

LEMMA Inductive == MmuSpec => []IInv
  BY InitOK, InductiveStep, PTL DEF MmuSpec

-----------------------------------------------------------------------------
\* FramesOwned, of processes p and q.
LEMMA OwnersApart ==
  ASSUME IInv, NEW p \in Pid, NEW q \in Pid, p # q
  PROVE  Owned(p) \cap Owned(q) = {}
<1> USE DEF IInv
<1>1. \A r \in Pid : Owned(r) \subseteq Frame
  <2> SUFFICES ASSUME NEW r \in Pid PROVE Owned(r) \subseteq Frame
    OBVIOUS
  <2>1. Tables(r) \subseteq Frame /\ (Exists(r) => page_directories[r] \in Frame)
    BY TableIs DEF Tables
  <2>2. Pages(r) \subseteq Frame
    <3> SUFFICES ASSUME NEW a \in Entries(r), Present(a) PROVE Entry(a).base \in Frame
      BY DEF Pages
    <3>1. a[1] \in Frame /\ a[2] \in Vpn2
      BY <2>1 DEF Entries
    <3> QED
      BY <3>1, EntryIs DEF Entry, Present
  <2> QED
    BY <2>1, <2>2 DEF Owned
<1> SUFFICES ASSUME NEW g \in Frame, g \in Owned(p), g \in Owned(q) PROVE FALSE
  BY <1>1
<1>2. /\ \/ page_directories[p] = g
         \/ \E i \in Vpn1 : HasTable(p, i) /\ TableOf(p, i) = g
         \/ mapped[g] # NULL /\ \E i \in Vpn1 : HasTable(p, i) /\ TableOf(p, i) = mapped[g][1]
      /\ \/ page_directories[q] = g
         \/ \E i \in Vpn1 : HasTable(q, i) /\ TableOf(q, i) = g
         \/ mapped[g] # NULL /\ \E i \in Vpn1 : HasTable(q, i) /\ TableOf(q, i) = mapped[g][1]
  BY OwnedIs
<1>3. \A r \in Pid : page_directories[r] = g => Exists(r) /\ mapped[g] = NULL
  BY DEF FramesOK, NoPageOf, Exists
<1>4. \A r \in Pid, i \in Vpn1 : HasTable(r, i) => Exists(r) /\ mapped[TableOf(r, i)] = NULL
  BY DEF FramesOK, NoPageOf, HasTable
<1>5. /\ Exists(p) /\ Exists(q) => page_directories[p] # page_directories[q]
      /\ \A i \in Vpn1 : HasTable(p, i) /\ Exists(q) => TableOf(p, i) # page_directories[q]
      /\ \A i \in Vpn1 : HasTable(q, i) /\ Exists(p) => TableOf(q, i) # page_directories[p]
      /\ \A i, j \in Vpn1 : HasTable(p, i) /\ HasTable(q, j) => TableOf(p, i) # TableOf(q, j)
  BY <1>4 DEF FramesOK, DirectoriesApart, TablesApart
<1> QED
  BY <1>2, <1>3, <1>4, <1>5

LEMMA RolesApart ==
  ASSUME IInv, NEW p \in Pid
  PROVE  /\ Tables(p) \cap Pages(p) = {}
         /\ page_directories[p] \notin Tables(p) \cup Pages(p)
         /\ \A a \in Entries(p) : Present(a) => mapped[Entry(a).base] = a
<1> USE DEF IInv
<1>1. ASSUME NEW t \in Tables(p)
      PROVE  /\ t \in Frame /\ mapped[t] = NULL /\ Exists(p) /\ t # page_directories[p]
             /\ \E i \in Vpn1 : HasTable(p, i) /\ TableOf(p, i) = t
  <2>1. PICK i \in Vpn1 : Exists(p) /\ TableOf(p, i) = t /\ t \in Frame
    BY DEF Tables
  <2>2. HasTable(p, i)
    BY <2>1 DEF HasTable
  <2> QED
    BY <2>1, <2>2 DEF FramesOK, NoPageOf, TablesApart
<1>2. ASSUME NEW a \in Entries(p), Present(a)
      PROVE  mapped[Entry(a).base] = a /\ a # NULL /\ Exists(p)
  <2>1. a[1] \in Tables(p) /\ a[2] \in Vpn2 /\ a = <<a[1], a[2]>>
    BY DEF Entries
  <2>2. PICK i \in Vpn1 : HasTable(p, i) /\ TableOf(p, i) = a[1]
    BY <1>1, <2>1
  <2>3. mapped[table[a[1]][a[2]].base] = <<a[1], a[2]>>
    BY <1>2, <2>1, <2>2 DEF FramesOK, EntriesKnown, Present, Entry
  <2>4. a \in Frame \X Vpn2
    BY <1>1, <2>1
  <2> QED
    BY <2>1, <2>2, <2>3, <2>4 DEF Entry, HasTable
<1>3. \A g \in Pages(p) : mapped[g] # NULL /\ Exists(p)
  BY <1>2 DEF Pages
<1>4. Exists(p) => mapped[page_directories[p]] = NULL
  BY DEF FramesOK, NoPageOf
<1> QED
  BY <1>1, <1>2, <1>3, <1>4

LEMMA NothingLeaks == ASSUME IInv PROVE used = UNION { Owned(p) : p \in Pid }
<1> USE DEF IInv
<1>1. ASSUME NEW g \in used PROVE \E p \in Pid : g \in Owned(p)
  <2>1. g \in Frame /\ InRole(g)
    BY DEF FramesOK, UsedOK, TypesOK
  <2>2. CASE mapped[g] # NULL
    BY <2>1, <2>2, OwnedIs DEF FramesOK, PagesKnown
  <2> QED
    BY <2>1, <2>2, OwnedIs DEF InRole
<1>2. ASSUME NEW p \in Pid, NEW g \in Owned(p) PROVE g \in used
  <2>1. g \in Frame
    <3>1. Tables(p) \subseteq Frame /\ (Exists(p) => page_directories[p] \in Frame)
      BY TableIs DEF Tables
    <3>2. \A a \in Entries(p) : Present(a) => Entry(a).base \in Frame
      BY <3>1, EntryIs DEF Entries, Entry, Present
    <3> QED
      BY <3>1, <3>2 DEF Owned, Pages
  <2>2. InRole(g)
    BY <2>1, OwnedIs DEF InRole
  <2> QED
    BY <2>1, <2>2 DEF FramesOK, UsedOK
<1> QED
  BY <1>1, <1>2

\* ask_kernel_for_frame takes pages from whichever process it likes, in the
\* middle of any operation; still a frame is that of one process in one role,
\* the kernel knows the entry of each page, and mmu_remove_process returns all.
THEOREM MmuFramesOwned == MmuSpec => []FramesOwned
<1>1. IInv => FramesOwned
  BY NothingLeaks, OwnersApart, RolesApart DEF FramesOwned
<1> QED
  BY <1>1, Inductive, PTL

\* The TLB answers as a walk through the current process's tables would, after
\* any switches, evictions and removals, whatever its size.
THEOREM MmuTlbTrue == MmuSpec => []TlbTrue
<1>1. IInv => TlbTrue
  BY DEF IInv, TlbOK, TlbTrue, HasTable
<1> QED
  BY <1>1, Inductive, PTL

-----------------------------------------------------------------------------
(***************************************************************************)
(* Each process has a memory of its own: Mmu implements VirtualMemory.     *)
(*                                                                         *)
(* What a process finds behind an entry is the page in memory if there is  *)
(* one, and the page file otherwise.  The two may differ only while the    *)
(* entry is dirty, so that a page that is taken away leaves the same       *)
(* content behind, and one that is loaded brings it back.                  *)
(***************************************************************************)
Disk(a) == IF swap[a] # NULL THEN swap[a] ELSE 0

\* What is behind entry k of table t, and that it needs no saving unless dirty.
Content(t, k) == IF table[t][k].base # NULL THEN page[table[t][k].base] ELSE Disk(<<t, k>>)
Clean(t, k)   == table[t][k].base # NULL /\ ~table[t][k].dirty
                    => page[table[t][k].base] = Disk(<<t, k>>)

IsTable(t) == \E p \in Pid, i \in Vpn1 : HasTable(p, i) /\ TableOf(p, i) = t

ContentsOK == page \in [Frame -> Nat] /\ swap \in [Address -> Nat \cup {NULL}]
\* A page file is that of an entry there is, so that new tables start from nothing.
SwapOwned  == \A a \in Address : swap[a] # NULL => IsTable(a[1])
CleanOK    == \A p \in Pid, i \in Vpn1, k \in Vpn2 :
                 HasTable(p, i) => Clean(TableOf(p, i), k)
DataOK     == ContentsOK /\ SwapOwned /\ CleanOK

\* mmu_add_process maps pages that have no page file, without looking.
NotOnDisk  == mmuPc = "add pages" =>
                 \A v \in call.left : swap[<<TableOf(call.pid, 0), v[2]>>] = NULL
CallMade   == mmuPc \in {"lookup", "entry"} => call \in Calls

MInv == IInv /\ DataOK /\ NotOnDisk /\ CallMade

-----------------------------------------------------------------------------
LEMMA MemoryIs ==
  ASSUME NEW p \in Pid, NEW v \in Page
  PROVE  Memory(p, v) = IF HasTable(p, v[1]) THEN Content(TableOf(p, v[1]), v[2]) ELSE 0
  BY Zenon DEF Memory, HasTable, Content, Disk, Present, Entry

\* The same of the state after a step.
LEMMA MemoryIsThen ==
  ASSUME NEW p \in Pid, NEW v \in Page
  PROVE  Memory(p, v)' = IF HasTable(p, v[1])' THEN Content(TableOf(p, v[1]), v[2])' ELSE 0
  BY DEF Memory, HasTable, Content, Disk, Present, Entry, Exists, TableOf

\* A frame is asked for: what is saved is the page that was in it.
LEMMA SwapIs ==
  ASSUME TypesOK, FramesOK, DataOK, NEW f, NEW a, AskKernelForFrame(f, a)
  PROVE  /\ f \in Frame
         /\ swap' \in [Address -> Nat \cup {NULL}]
         /\ \A b \in Address : swap'[b] = swap[b] \/ (b = mapped[f] /\ IsTable(b[1]))
         /\ \A b \in Address : b = mapped[f] =>
               swap'[b] = IF table[b[1]][b[2]].dirty THEN page[f] ELSE swap[b]
<1>1. f \in Frame /\ swap' = Saved(f)
  BY Taken DEF AskKernelForFrame
<1>2. CASE mapped[f] # NULL /\ table[mapped[f][1]][mapped[f][2]].dirty
  <2>1. mapped[f] \in Address /\ IsTable(mapped[f][1])
    BY <1>1, <1>2, MappedIs DEF FramesOK, PagesKnown, IsTable
  <2>2. swap' = [swap EXCEPT ![mapped[f]] = page[f]]
    BY <1>1, <1>2 DEF Saved
  <2> QED
    BY <1>1, <1>2, <2>1, <2>2 DEF DataOK, ContentsOK
<1>3. CASE ~(mapped[f] # NULL /\ table[mapped[f][1]][mapped[f][2]].dirty)
  <2>1. swap' = swap
    BY <1>1, <1>3 DEF Saved
  <2>2. \A b \in Address : b # NULL
    BY DEF Address
  <2> QED
    BY <1>1, <1>3, <2>1, <2>2 DEF DataOK, ContentsOK
<1> QED
  BY <1>2, <1>3

\* Entry k of table t stays as it is, but for losing its page to frame f.
LEMMA EntryKept ==
  ASSUME TypesOK, FramesOK, DataOK, NEW f, NEW a, AskKernelForFrame(f, a),
         page' \in [Frame -> Nat], \A g \in Frame \ {f} : page'[g] = page[g],
         NEW q \in Pid, NEW j \in Vpn1, NEW t, HasTable(q, j), TableOf(q, j) = t,
         NEW k \in Vpn2,
         table'[t][k].base = IF table[t][k].base = f THEN NULL ELSE table[t][k].base,
         table'[t][k].dirty = table[t][k].dirty
  PROVE  Content(t, k)' = Content(t, k) /\ Clean(t, k)'
<1> DEFINE b == <<t, k>>
<1>1. /\ t \in Frame /\ b \in Address /\ b # NULL /\ f \in Frame
      /\ table[t][k].base \in Frame \cup {NULL}
  <2>1. t \in Frame /\ f \in Frame
    BY TableIs, SwapIs
  <2>2. table[t][k].base \in Frame \cup {NULL}
    BY <2>1, EntryIs
  <2> QED
    BY <2>1, <2>2 DEF Address
<1>2. Clean(t, k)
  BY DEF DataOK, CleanOK
<1>3. CASE table[t][k].base = f
  <2>1. mapped[f] = b
    <3>1. table[TableOf(q, j)][k].base = f /\ f # NULL
      BY <1>1, <1>3
    <3>2. mapped[table[TableOf(q, j)][k].base] = <<TableOf(q, j), k>>
      BY ONLY FramesOK, HasTable(q, j), <3>1 DEF FramesOK, EntriesKnown
    <3> QED
      BY <3>1, <3>2
  <2>2. swap'[b] = IF table[t][k].dirty THEN page[f] ELSE swap[b]
    BY <1>1, <2>1, SwapIs
  <2>3. page[f] \in Nat
    BY <1>1 DEF DataOK, ContentsOK
  <2>4. Disk(b)' = page[f]
    BY <1>1, <1>2, <1>3, <2>2, <2>3 DEF Disk, Clean
  <2> QED
    BY <1>1, <1>3, <2>4 DEF Content, Clean
<1>4. CASE table[t][k].base # f
  <2>1. mapped[f] # b
    <3> SUFFICES ASSUME mapped[f] = b PROVE FALSE
      OBVIOUS
    <3>1. table[mapped[f][1]][mapped[f][2]].base = f
      BY <1>1 DEF FramesOK, PagesKnown, Entry
    <3> QED
      BY <1>4, <3>1
  <2>2. swap'[b] = swap[b]
    BY <1>1, <2>1, SwapIs
  <2>3. table[t][k].base # NULL => page'[table[t][k].base] = page[table[t][k].base]
    BY <1>1, <1>4 DEF DataOK, ContentsOK
  <2> QED
    BY <1>2, <1>4, <2>2, <2>3 DEF Content, Clean, Disk
<1> QED
  BY <1>3, <1>4

\* Nothing is saved for an entry that is not present.
LEMMA SwapKept ==
  ASSUME TypesOK, FramesOK, DataOK, NEW f, NEW a, AskKernelForFrame(f, a),
         NEW b \in Address, ~Present(b)
  PROVE  swap'[b] = swap[b]
<1>1. f \in Frame /\ b # NULL
  BY SwapIs DEF Address
<1>2. mapped[f] # b
  BY <1>1 DEF FramesOK, PagesKnown, Present
<1> QED
  BY <1>2, SwapIs

\* A page that is loaded holds what the page file held, or zeros.
LEMMA EntryLoaded ==
  ASSUME TypesOK, FramesOK, DataOK, NEW f, NEW t \in Frame, NEW k \in Vpn2,
         AskKernelForFrame(f, <<t, k>>), ~Present(<<t, k>>),
         table'[t][k].base = f, page'[f] = Disk(<<t, k>>)
  PROVE  Content(t, k)' = Content(t, k) /\ Clean(t, k)'
<1>1. <<t, k>> \in Address /\ f # NULL
  BY SwapIs DEF Address
<1>2. swap'[<<t, k>>] = swap[<<t, k>>]
  BY <1>1, SwapKept
<1>3. table[t][k].base = NULL
  BY DEF Present, Entry
<1> QED
  BY <1>1, <1>2, <1>3 DEF Content, Clean, Disk

\* All entries, when a frame is taken for a directory or a table.
LEMMA EntriesKept ==
  ASSUME TypesOK, FramesOK, DataOK, NEW f, NEW a, AskKernelForFrame(f, a),
         table' = Cleared(f), page' \in [Frame -> Nat], \A g \in Frame \ {f} : page'[g] = page[g]
  PROVE  \A t \in Frame, k \in Vpn2 :
            IsTable(t) => Content(t, k)' = Content(t, k) /\ Clean(t, k)'
<1> SUFFICES ASSUME NEW t \in Frame, NEW k \in Vpn2, IsTable(t)
             PROVE  Content(t, k)' = Content(t, k) /\ Clean(t, k)'
  OBVIOUS
<1>1. PICK q \in Pid, j \in Vpn1 : HasTable(q, j) /\ TableOf(q, j) = t
  BY DEF IsTable
<1>2. f \in Available
  BY DEF AskKernelForFrame
<1>3. /\ table'[t][k].base = IF table[t][k].base = f THEN NULL ELSE table[t][k].base
      /\ table'[t][k].dirty = table[t][k].dirty
  <2>1. /\ table'[TableOf(q, j)][k].base = IF table[TableOf(q, j)][k].base = f THEN NULL
                                            ELSE table[TableOf(q, j)][k].base
        /\ table'[TableOf(q, j)][k].dirty = table[TableOf(q, j)][k].dirty
    BY <1>1, <1>2, Taken
  <2> QED
    BY <1>1, <2>1
<1>4. TypesOK /\ FramesOK /\ DataOK /\ AskKernelForFrame(f, a)
  OBVIOUS
<1> QED
  BY <1>1, <1>3, <1>4, EntryKept, SMTT(60)

\* What follows for whole memories.
LEMMA MemoryKept ==
  ASSUME TypesOK, FramesOK, DataOK, NEW f, NEW a, AskKernelForFrame(f, a),
         page' \in [Frame -> Nat], \A g \in Frame \ {f} : page'[g] = page[g],
         \A q \in Pid, j \in Vpn1 : HasTable(q, j) =>
            HasTable(q, j)' /\ TableOf(q, j)' = TableOf(q, j),
         \A q \in Pid, j \in Vpn1 : HasTable(q, j)' /\ ~HasTable(q, j) =>
            TableOf(q, j)' = f /\ ~IsTable(f) /\ table'[f] = NoPages,
         \A t \in Frame, k \in Vpn2 :
            IsTable(t) => Content(t, k)' = Content(t, k) /\ Clean(t, k)'
  PROVE  /\ DataOK'
         /\ \A q \in Pid, v \in Page : Memory(q, v)' = Memory(q, v)
         /\ ~IsTable(f) => \A k \in Vpn2 : swap'[<<f, k>>] = NULL
<1>1. f \in Frame
  BY SwapIs
<1>2. ContentsOK'
  BY SwapIs DEF ContentsOK
<1>3. \A b \in Address : swap'[b] # NULL => IsTable(b[1])
  BY SwapIs DEF DataOK, SwapOwned
<1>4. \A t : IsTable(t) => IsTable(t)'
  <2> SUFFICES ASSUME NEW t, IsTable(t) PROVE IsTable(t)'
    OBVIOUS
  <2>1. PICK q \in Pid, j \in Vpn1 : HasTable(q, j) /\ TableOf(q, j) = t
    BY DEF IsTable
  <2>2. HasTable(q, j)' /\ TableOf(q, j)' = t
    BY <2>1
  <2> QED
    BY <2>2 DEF IsTable
<1>5. SwapOwned'
  <2> SUFFICES ASSUME NEW b \in Address, swap'[b] # NULL PROVE IsTable(b[1])'
    BY DEF SwapOwned, Address
  <2> QED
    BY <1>3, <1>4
<1>6. ~IsTable(f) => \A k \in Vpn2 : swap'[<<f, k>>] = NULL
  BY <1>1, <1>3 DEF Address
<1>7. ASSUME NEW q \in Pid, NEW j \in Vpn1, NEW k \in Vpn2, NEW t, HasTable(q, j)',
             TableOf(q, j)' = t
      PROVE  /\ Clean(t, k)'
             /\ HasTable(q, j) => TableOf(q, j) = t /\ Content(t, k)' = Content(t, k)
             /\ ~HasTable(q, j) => Content(t, k)' = 0
  <2>1. CASE HasTable(q, j)
    <3>1. TableOf(q, j) = t /\ t \in Frame /\ IsTable(t)
      BY <1>7, <2>1, TableIs DEF IsTable
    <3> QED
      BY <2>1, <3>1
  <2>2. CASE ~HasTable(q, j)
    <3>1. t = f /\ table'[t][k].base = NULL /\ swap'[<<t, k>>] = NULL
      BY <1>6, <1>7, <2>2 DEF NoPages, NoEntry
    <3> QED
      BY <2>2, <3>1 DEF Content, Clean, Disk
  <2> QED
    BY <2>1, <2>2
<1>8. CleanOK'
  <2> SUFFICES ASSUME NEW q \in Pid, NEW j \in Vpn1, NEW k \in Vpn2, HasTable(q, j)'
               PROVE  Clean(TableOf(q, j), k)'
    BY DEF CleanOK
  <2>1. PICK t : t = TableOf(q, j)'
    OBVIOUS
  <2>2. Clean(t, k)'
    BY <1>7, <2>1
  <2> QED
    BY <2>1, <2>2 DEF Clean, Disk
<1>9. ASSUME NEW q \in Pid, NEW v \in Page PROVE Memory(q, v)' = Memory(q, v)
  <2>1. v[1] \in Vpn1 /\ v[2] \in Vpn2
    BY DEF Page
  <2>2. Memory(q, v) = IF HasTable(q, v[1]) THEN Content(TableOf(q, v[1]), v[2]) ELSE 0
    BY MemoryIs, Zenon
  <2>3. Memory(q, v)' = IF HasTable(q, v[1])' THEN Content(TableOf(q, v[1]), v[2])' ELSE 0
    BY MemoryIsThen, Zenon
  <2>4. CASE HasTable(q, v[1])'
    <3>1. PICK t, i, k : t = TableOf(q, v[1])' /\ i = v[1] /\ k = v[2]
      OBVIOUS
    <3>2. Content(TableOf(q, v[1]), v[2])' = Content(t, k)'
      BY <3>1 DEF Content, Disk
    <3>3. HasTable(q, i)' /\ TableOf(q, i)' = t /\ i \in Vpn1 /\ k \in Vpn2
      BY <2>1, <2>4, <3>1
    <3>4. /\ HasTable(q, i) => TableOf(q, i) = t /\ Content(t, k)' = Content(t, k)
          /\ ~HasTable(q, i) => Content(t, k)' = 0
      BY <1>7, <3>3
    <3> QED
      BY <2>2, <2>3, <2>4, <3>1, <3>2, <3>4
  <2>5. CASE ~HasTable(q, v[1])'
    <3>1. ~HasTable(q, v[1])
      BY <2>1, <2>5
    <3> QED
      BY <2>2, <2>3, <2>5, <3>1
  <2> QED
    BY <2>4, <2>5
<1> QED
  BY <1>2, <1>5, <1>6, <1>8, <1>9 DEF DataOK

-----------------------------------------------------------------------------
\* A new table is empty, and no page file is left of what had its frame before.
LEMMA NewTableKeeps ==
  ASSUME TypesOK, FramesOK, DataOK, NEW p \in Pid, NEW i \in Vpn1, NEW f,
         Exists(p), TableOf(p, i) = NULL,
         AskKernelForFrame(f, NULL),
         directory' = [directory EXCEPT ![f] = NoTables, ![page_directories[p]][i] = f],
         table' = Cleared(f), page' = [page EXCEPT ![f] = 0],
         UNCHANGED translation, mmuPc' \in Places
  PROVE  /\ DataOK'
         /\ \A q \in Pid, v \in Page : Memory(q, v)' = Memory(q, v)
         /\ \A k \in Vpn2 : swap'[<<f, k>>] = NULL
<1>1. /\ \A q \in Pid, j \in Vpn1 : Exists(q) =>
            TableOf(q, j)' = IF q = p /\ j = i THEN f ELSE TableOf(q, j)
      /\ f \in Frame /\ table'[f] = NoPages
  BY NewTable
<1>2. \A q \in Pid : Exists(q)' <=> Exists(q)
  BY DEF Exists, translation
<1>3. ~IsTable(f)
  BY Taken DEF AskKernelForFrame, IsTable
<1>4. \A q \in Pid, j \in Vpn1 : HasTable(q, j) =>
         HasTable(q, j)' /\ TableOf(q, j)' = TableOf(q, j)
  BY <1>1, <1>2 DEF HasTable
<1>5. \A q \in Pid, j \in Vpn1 : HasTable(q, j)' /\ ~HasTable(q, j) =>
         TableOf(q, j)' = f /\ ~IsTable(f) /\ table'[f] = NoPages
  BY <1>1, <1>2, <1>3 DEF HasTable
<1>6. page' \in [Frame -> Nat] /\ \A g \in Frame \ {f} : page'[g] = page[g]
  BY DEF DataOK, ContentsOK
<1>7. \A t \in Frame, k \in Vpn2 :
         IsTable(t) => Content(t, k)' = Content(t, k) /\ Clean(t, k)'
  BY <1>6, EntriesKept
<1> QED
  BY <1>3, <1>4, <1>5, <1>6, <1>7, MemoryKept

\* A page is loaded into a new frame, with what its page file held.
LEMMA NewPageKeeps ==
  ASSUME TypesOK, FramesOK, DataOK, NEW p \in Pid, NEW i \in Vpn1, NEW k \in Vpn2, NEW f,
         HasTable(p, i), ~Present(<<TableOf(p, i), k>>),
         AskKernelForFrame(f, <<TableOf(p, i), k>>),
         directory' = [directory EXCEPT ![f] = NoTables],
         table' = [Cleared(f) EXCEPT ![TableOf(p, i)][k].base = f],
         page' = [page EXCEPT ![f] = Disk(<<TableOf(p, i), k>>)],
         UNCHANGED translation, mmuPc' \in Places
  PROVE  /\ DataOK'
         /\ \A q \in Pid, v \in Page : Memory(q, v)' = Memory(q, v)
<1>1. PICK t : t = TableOf(p, i)
  OBVIOUS
<1>2. /\ t \in Frame /\ f \in Frame /\ f \in Available
      /\ AskKernelForFrame(f, <<t, k>>) /\ ~Present(<<t, k>>)
  BY <1>1, TableIs, SwapIs DEF AskKernelForFrame
<1>3. table' = [Cleared(f) EXCEPT ![t][k].base = f]
  BY <1>1
<1>4. \A q \in Pid, j \in Vpn1 : HasTable(q, j)' <=> HasTable(q, j)
  <2>1. \A q \in Pid, j \in Vpn1 : Exists(q) => TableOf(q, j)' = TableOf(q, j)
    BY NewPage
  <2>2. \A q \in Pid : Exists(q)' <=> Exists(q)
    BY DEF Exists, translation
  <2> QED
    BY <2>1, <2>2 DEF HasTable
<1>5. \A q \in Pid, j \in Vpn1 : HasTable(q, j) => TableOf(q, j)' = TableOf(q, j)
  BY NewPage DEF HasTable
<1>6. <<t, k>> \in Address /\ Disk(<<t, k>>) \in Nat
  BY <1>2 DEF Disk, DataOK, ContentsOK, Address
<1>7. /\ page' \in [Frame -> Nat] /\ \A g \in Frame \ {f} : page'[g] = page[g]
      /\ page'[f] = Disk(<<t, k>>)
  BY <1>1, <1>2, <1>6 DEF DataOK, ContentsOK
<1>8. /\ table'[t][k].base = f
      /\ \A u \in Frame, m \in Vpn2 : <<u, m>> # <<t, k>> => table'[u][m] = Cleared(f)[u][m]
  <2> DEFINE E == [base : Frame \cup {NULL}, dirty : BOOLEAN]
             C == Cleared(f)
             r == [C[t] EXCEPT ![k].base = f]
  <2>1. C \in [Frame -> [Vpn2 -> E]]
    BY <1>2, Taken
  <2>2. table' = [C EXCEPT ![t] = r]
    BY <1>3
  <2> HIDE DEF C
  <2>3. C[t] \in [Vpn2 -> E] /\ C[t][k] \in E
    BY <1>2, <2>1
  <2>4. r[k].base = f /\ \A m \in Vpn2 : m # k => r[m] = C[t][m]
    BY <2>3
  <2> HIDE DEF r, E
  <2> QED
    BY <1>2, <2>1, <2>2, <2>4 DEF C
<1>9. ASSUME NEW u \in Frame, NEW m \in Vpn2, IsTable(u)
      PROVE  Content(u, m)' = Content(u, m) /\ Clean(u, m)'
  <2>1. CASE <<u, m>> = <<t, k>>
    <3>1. u = t /\ m = k
      BY <2>1
    <3> QED
      BY <1>2, <1>7, <1>8, <3>1, EntryLoaded
  <2>2. CASE <<u, m>> # <<t, k>>
    <3>1. PICK q \in Pid, j \in Vpn1 : HasTable(q, j) /\ TableOf(q, j) = u
      BY <1>9 DEF IsTable
    <3>2. /\ Cleared(f)[TableOf(q, j)][m].base
                = IF table[TableOf(q, j)][m].base = f THEN NULL ELSE table[TableOf(q, j)][m].base
          /\ Cleared(f)[TableOf(q, j)][m].dirty = table[TableOf(q, j)][m].dirty
      BY <1>2, <3>1, Taken
    <3>3. table'[u][m] = Cleared(f)[u][m]
      BY <1>8, <2>2
    <3>4. /\ table'[u][m].base = IF table[u][m].base = f THEN NULL ELSE table[u][m].base
          /\ table'[u][m].dirty = table[u][m].dirty
      BY <3>1, <3>2, <3>3
    <3> QED
      BY <1>2, <1>7, <3>1, <3>4, EntryKept, SMTT(60)
  <2> QED
    BY <2>1, <2>2
<1> QED
  BY <1>2, <1>4, <1>5, <1>7, <1>9, MemoryKept, SMTT(60)

-----------------------------------------------------------------------------
\* The variables of VirtualMemory.
Alive    == { p \in Pid : Exists(p) }
Memories == [p \in Pid |-> [v \in Segments |-> Memory(p, v)]]
seen     == <<Alive, Memories, Served, result>>

LEMMA SeenKept ==
  ASSUME \A q \in Pid, v \in Page : Memory(q, v)' = Memory(q, v)
  PROVE  Memories' = Memories
  BY SegmentsAssumption DEF Memories

\* Nor does a process see what leaves the frames, the page files and the
\* directories alone.
LEMMA StoreKept ==
  ASSUME DataOK, UNCHANGED <<kernel, page_directories>>
  PROVE  DataOK' /\ UNCHANGED <<Alive, Memories>>
<1>1. UNCHANGED <<mapped, swap, directory, table, page, page_directories>>
  BY DEF kernel, physical
<1>2. ContentsOK'
  BY <1>1 DEF DataOK, ContentsOK
<1>3. /\ \A q \in Pid : Exists(q)' <=> Exists(q)
      /\ \A q \in Pid, j \in Vpn1 : TableOf(q, j)' = TableOf(q, j)
      /\ \A q \in Pid, j \in Vpn1 : HasTable(q, j)' <=> HasTable(q, j)
  BY <1>1 DEF Exists, TableOf, HasTable
<1>4. SwapOwned'
  <2>1. \A t : IsTable(t) => IsTable(t)'
    BY <1>3 DEF IsTable
  <2> QED
    BY <1>1, <2>1 DEF DataOK, SwapOwned, Address
<1>5. CleanOK'
  <2> SUFFICES ASSUME NEW q \in Pid, NEW j \in Vpn1, NEW k \in Vpn2, HasTable(q, j)'
               PROVE  Clean(TableOf(q, j), k)'
    BY DEF CleanOK
  <2>1. Clean(TableOf(q, j), k)
    BY <1>3 DEF DataOK, CleanOK
  <2> QED
    BY <1>1, <2>1 DEF Clean, Disk, TableOf
<1>6. Alive' = Alive
  BY <1>3 DEF Alive
<1>7. \A q \in Pid, v \in Page : Memory(q, v)' = Memory(q, v)
  BY <1>1 DEF Memory, Exists, TableOf, Present, Entry
<1> QED
  BY <1>2, <1>4, <1>5, <1>6, <1>7, SeenKept DEF DataOK

LEMMA AddProcessSeen ==
  ASSUME MInv, NEW p \in Pid, AddProcess(p)
  PROVE  MInv' /\ Virtual!StartProcess(p)
<1> USE DEF MInv, IInv
<1>1. PICK f \in Frame : /\ AskKernelForFrame(f, NULL)
                         /\ directory' = [directory EXCEPT ![f] = NoTables]
                         /\ table' = Cleared(f)
                         /\ page' = [page EXCEPT ![f] = 0]
                         /\ page_directories' = [page_directories EXCEPT ![p] = f]
  BY DEF AddProcess
<1>2. /\ ~Exists(p) /\ mmuPc = "idle" /\ mmuPc' = "add table"
      /\ UNCHANGED <<tlb, curr_pid, result>>
  BY DEF AddProcess
<1>3. mmuPc' \in Places
  BY <1>2 DEF Places
<1>4. /\ Exists(p)'
      /\ \A q \in Pid, j \in Vpn1 : HasTable(q, j)' => HasTable(q, j)
      /\ \A q \in Pid, j \in Vpn1 : HasTable(q, j) =>
            HasTable(q, j)' /\ TableOf(q, j)' = TableOf(q, j)
  BY <1>1, <1>2, <1>3, NewDirectory
<1>5. page' \in [Frame -> Nat] /\ \A g \in Frame \ {f} : page'[g] = page[g]
  BY <1>1 DEF DataOK, ContentsOK
<1>6. DataOK' /\ \A q \in Pid, v \in Page : Memory(q, v)' = Memory(q, v)
  <2>1. \A t \in Frame, k \in Vpn2 :
           IsTable(t) => Content(t, k)' = Content(t, k) /\ Clean(t, k)'
    BY <1>1, <1>5, EntriesKept
  <2> QED
    BY <1>1, <1>4, <1>5, <2>1, MemoryKept, SMTT(60)
<1>7. MInv'
  BY <1>2, <1>6, AddProcessOK DEF NotOnDisk, CallMade
<1>8. Alive' = Alive \cup {p} /\ p \notin Alive
  <2>1. \A q \in Pid : q # p => page_directories'[q] = page_directories[q]
    BY <1>1 DEF TypesOK
  <2>2. \A q \in Pid : Exists(q)' <=> q = p \/ Exists(q)
    BY <1>4, <2>1 DEF Exists
  <2> QED
    BY <1>2, <2>2 DEF Alive
<1> QED
  BY <1>2, <1>6, <1>7, <1>8, SeenKept DEF Virtual!StartProcess, Alive, Memories, Served

LEMMA AddTableSeen ==
  ASSUME MInv, AddTable
  PROVE  MInv' /\ UNCHANGED seen
<1> USE DEF MInv, IInv
<1>1. PICK p : p = call.pid
  OBVIOUS
<1>2. PICK f \in Frame : /\ AskKernelForFrame(f, NULL)
                         /\ directory' = [directory EXCEPT ![f] = NoTables,
                                            ![page_directories[p]][0] = f]
                         /\ table' = Cleared(f)
                         /\ page' = [page EXCEPT ![f] = 0]
  BY <1>1 DEF AddTable
<1>3. /\ mmuPc = "add table" /\ mmuPc' = "add pages"
      /\ UNCHANGED <<translation, call, result>>
  BY DEF AddTable
<1>4. /\ p \in Pid /\ Exists(p) /\ TableOf(p, 0) = NULL
      /\ \A v \in call.left : v[2] \in Vpn2
  <2>1. /\ call \in [op : {"add"}, pid : Pid, left : SUBSET Testing]
        /\ p \in Pid /\ Exists(p) /\ TableOf(p, 0) = NULL
    BY <1>3, <1>1 DEF AddingOK
  <2>2. \A v \in Testing : v[2] \in Vpn2
    BY SegmentsAssumption DEF Page
  <2> QED
    BY <2>1, <2>2
<1>5. /\ DataOK'
      /\ \A q \in Pid, v \in Page : Memory(q, v)' = Memory(q, v)
      /\ \A k \in Vpn2 : swap'[<<f, k>>] = NULL
  BY <1>2, <1>3, <1>4, NewTableKeeps DEF Places
<1>6. NotOnDisk'
  <2>1. \A q \in Pid, j \in Vpn1 : Exists(q) =>
            TableOf(q, j)' = IF q = p /\ j = 0 THEN f ELSE TableOf(q, j)
    BY <1>2, <1>3, <1>4, NewTable DEF Places
  <2>2. directory'[page_directories'[p]][0] = f
    BY <1>4, <2>1 DEF TableOf
  <2>3. TableOf(call.pid, 0)' = f
    BY <1>3, <1>1, <2>2 DEF TableOf
  <2> QED
    BY <1>3, <1>4, <1>5, <2>3 DEF NotOnDisk
<1>7. MInv'
  BY <1>3, <1>5, <1>6, AddTableOK DEF CallMade
<1> QED
  BY <1>3, <1>5, <1>7, SeenKept DEF seen, Alive, Exists, translation, Served

\* The testing pages are not read from disk, and there is nothing to be read.
LEMMA AddPageSeen ==
  ASSUME MInv, AddPage
  PROVE  MInv' /\ UNCHANGED seen
<1> USE DEF MInv, IInv
<1>1. PICK p, k, t : /\ p = call.pid /\ k = Min({ v[2] : v \in call.left })
                     /\ t = TableOf(p, 0)
  OBVIOUS
<1>2. PICK f \in Frame : /\ AskKernelForFrame(f, <<t, k>>)
                         /\ directory' = [directory EXCEPT ![f] = NoTables]
                         /\ table' = [Cleared(f) EXCEPT ![t][k].base = f]
                         /\ page' = [page EXCEPT ![f] = 0]
  BY <1>1 DEF AddPage
<1>3. /\ mmuPc = "add pages" /\ mmuPc' = "add pages" /\ UNCHANGED <<translation, result>>
      /\ call.left # {} /\ call' = [call EXCEPT !.left = @ \ {<<0, k>>}]
  BY <1>1 DEF AddPage
<1>4. /\ p \in Pid /\ Exists(p) /\ t # NULL
      /\ call \in [op : {"add"}, pid : Pid, left : SUBSET Testing]
      /\ \A v \in call.left : ~Present(<<t, v[2]>>) /\ swap[<<t, v[2]>>] = NULL
  BY <1>1, <1>3 DEF AddingOK, NotOnDisk
<1>5. \A v \in call.left : v[1] = 0 /\ v[2] \in Vpn2 /\ v = <<0, v[2]>>
  BY <1>4, SegmentsAssumption DEF Page
<1>6. PICK w \in call.left : w[2] = k
  <2>1. { v[2] : v \in call.left } \in SUBSET Nat /\ { v[2] : v \in call.left } # {}
    BY <1>3, <1>5
  <2>2. k \in { v[2] : v \in call.left }
    BY <1>1, <2>1, MinOfNat
  <2> QED
    BY <2>2
<1>7. k \in Vpn2 /\ ~Present(<<t, k>>) /\ Disk(<<t, k>>) = 0 /\ HasTable(p, 0)
  BY <1>1, <1>4, <1>5, <1>6 DEF Disk, HasTable
<1>8. mmuPc' \in Places /\ 0 \in Vpn1 /\ UNCHANGED translation
  BY <1>3 DEF Places
<1>9. /\ DataOK'
      /\ \A q \in Pid, v \in Page : Memory(q, v)' = Memory(q, v)
  BY <1>1, <1>2, <1>4, <1>7, <1>8, NewPageKeeps
<1>10. NotOnDisk'
  <2>1. /\ call'.pid = p /\ call'.left = call.left \ {<<0, k>>}
    BY <1>1, <1>3, <1>4
  <2>2. TableOf(p, 0)' = t
    BY <1>1, <1>2, <1>4, <1>7, <1>8, NewPage
  <2>3. TableOf(call.pid, 0)' = t
    BY <2>1, <2>2 DEF TableOf
  <2>4. ASSUME NEW v \in call'.left PROVE swap'[<<t, v[2]>>] = NULL
    <3>1. v \in call.left /\ v[2] \in Vpn2
      BY <1>5, <2>1
    <3>2. <<t, v[2]>> \in Address /\ ~Present(<<t, v[2]>>) /\ swap[<<t, v[2]>>] = NULL
      BY <1>1, <1>4, <1>7, <3>1, TableIs DEF Address
    <3>3. swap'[<<t, v[2]>>] = swap[<<t, v[2]>>]
      BY <1>2, <3>2, SwapKept
    <3> QED
      BY <3>2, <3>3
  <2> QED
    BY <2>3, <2>4 DEF NotOnDisk
<1>11. MInv'
  BY <1>3, <1>9, <1>10, AddPageOK DEF CallMade
<1> QED
  BY <1>3, <1>9, <1>11, SeenKept DEF seen, Alive, Exists, translation, Served

LEMMA AllocTableSeen ==
  ASSUME MInv, AllocTable
  PROVE  MInv' /\ UNCHANGED seen
<1> USE DEF MInv, IInv
<1>1. PICK p, i : p = call.pid /\ i = call.page[1]
  OBVIOUS
<1>2. PICK f \in Frame : /\ AskKernelForFrame(f, NULL)
                         /\ directory' = [directory EXCEPT ![f] = NoTables,
                                            ![page_directories[p]][i] = f]
                         /\ table' = Cleared(f)
                         /\ page' = [page EXCEPT ![f] = 0]
  BY <1>1 DEF AllocTable
<1>3. /\ mmuPc = "lookup" /\ TableOf(p, i) = NULL
      /\ UNCHANGED <<translation, call, mmuPc, result>>
  BY <1>1 DEF AllocTable
<1>4. p \in Pid /\ Exists(p) /\ i \in Vpn1 /\ mmuPc' \in Places /\ UNCHANGED translation
  BY <1>1, <1>3, SegmentsAssumption DEF CallOK, Page, Places
<1>5. /\ DataOK'
      /\ \A q \in Pid, v \in Page : Memory(q, v)' = Memory(q, v)
  BY <1>2, <1>3, <1>4, NewTableKeeps
<1>6. MInv'
  BY <1>3, <1>5, AllocTableOK DEF NotOnDisk, CallMade
<1> QED
  BY <1>3, <1>5, <1>6, SeenKept DEF seen, Alive, Exists, translation, Served

LEMMA LoadPageSeen ==
  ASSUME MInv, LoadPage
  PROVE  MInv' /\ UNCHANGED seen
<1> USE DEF MInv, IInv
<1>1. PICK p, i, k : p = call.pid /\ i = call.page[1] /\ k = call.page[2]
  OBVIOUS
<1>2. mmuPc = "entry" /\ ~Present(pte) /\ UNCHANGED <<translation, call, mmuPc, result>>
  BY DEF LoadPage
<1>3. /\ p \in Pid /\ Exists(p) /\ i \in Vpn1 /\ k \in Vpn2 /\ TableOf(p, i) # NULL
      /\ pte = <<TableOf(p, i), k>> /\ mmuPc' \in Places /\ UNCHANGED translation
  BY <1>1, <1>2, SegmentsAssumption DEF CallOK, Page, Places
<1>4. PICK t : t = TableOf(p, i)
  OBVIOUS
<1>5. pte = <<t, k>> /\ pte[1] = t /\ pte[2] = k /\ HasTable(p, i) /\ <<t, k>> \in Address
  BY <1>3, <1>4, TableIs DEF HasTable, Address
<1>6. PICK f \in Frame : /\ AskKernelForFrame(f, <<t, k>>)
                         /\ directory' = [directory EXCEPT ![f] = NoTables]
                         /\ table' = [Cleared(f) EXCEPT ![t][k].base = f]
                         /\ page' = [page EXCEPT ![f] = IF swap'[<<t, k>>] = NULL THEN 0
                                                        ELSE swap'[<<t, k>>]]
  <2>1. PICK f \in Frame : /\ AskKernelForFrame(f, pte)
                           /\ directory' = [directory EXCEPT ![f] = NoTables]
                           /\ table' = [Cleared(f) EXCEPT ![pte[1]][pte[2]].base = f]
                           /\ page' = [page EXCEPT ![f] = IF swap'[pte] = NULL THEN 0
                                                          ELSE swap'[pte]]
    BY DEF LoadPage
  <2> QED
    BY <1>5, <2>1
<1>7. ~Present(<<t, k>>)
  BY <1>2, <1>5
<1>8. page' = [page EXCEPT ![f] = Disk(<<t, k>>)]
  <2>1. swap'[<<t, k>>] = swap[<<t, k>>]
    BY <1>5, <1>6, <1>7, SwapKept
  <2> QED
    BY <1>6, <2>1 DEF Disk
<1>9. /\ DataOK'
      /\ \A q \in Pid, v \in Page : Memory(q, v)' = Memory(q, v)
  BY <1>3, <1>4, <1>5, <1>6, <1>7, <1>8, NewPageKeeps
<1>10. MInv'
  BY <1>2, <1>9, LoadPageOK DEF NotOnDisk, CallMade
<1> QED
  BY <1>2, <1>9, <1>10, SeenKept DEF seen, Alive, Exists, translation, Served

LEMMA CallSeen ==
  ASSUME MInv, NEW c \in Calls, Call(c)
  PROVE  MInv' /\ Virtual!Ask(c)
<1> USE DEF MInv, IInv
<1>1. /\ UNCHANGED <<kernel, page_directories>> /\ result' = 0
      /\ mmuPc = "idle" /\ Exists(c.pid)
      /\ IF c.page \in Segments THEN call' = c /\ mmuPc' = "lookup" ELSE mmuPc' = "idle"
  BY DEF Call
<1>2. DataOK'
  BY <1>1, StoreKept
<1>3. UNCHANGED <<Alive, Memories>>
  BY <1>1, StoreKept
<1>4. MInv'
  BY <1>1, <1>2, CallIsOK DEF NotOnDisk, CallMade
<1>5. Served = NULL /\ Served' = IF c.page \in Segments THEN c ELSE NULL
  BY <1>1 DEF Served
<1>6. c.pid \in Alive
  BY <1>1, CallsAssumption DEF Alive
<1> QED
  BY <1>1, <1>3, <1>4, <1>5, <1>6 DEF Virtual!Ask, Alive, Memories

\* The other steps that no process sees.
LEMMA OthersSeen ==
  ASSUME MInv, Added \/ TlbHit \/ Walk \/ UNCHANGED mmuVars
  PROVE  MInv' /\ UNCHANGED seen
<1> USE DEF MInv, IInv
<1>1. /\ UNCHANGED <<kernel, page_directories, result>>
      /\ \/ mmuPc = "add pages" /\ mmuPc' = "idle"
         \/ UNCHANGED <<call, mmuPc>>
         \/ mmuPc = "lookup" /\ mmuPc' = "entry" /\ UNCHANGED call
  BY DEF Added, TlbHit, Walk, mmuVars, translation
<1>2. DataOK'
  BY <1>1, StoreKept
<1>3. UNCHANGED seen
  BY <1>1, StoreKept DEF seen, Served
<1>4. IInv'
  <2>1. [MmuNext]_mmuVars
    BY DEF MmuNext
  <2> QED
    BY <2>1, InductiveStep
<1>5. NotOnDisk' /\ CallMade'
  BY <1>1 DEF NotOnDisk, CallMade, TableOf, kernel, physical
<1> QED
  BY <1>2, <1>3, <1>4, <1>5

\* A write that is not permitted is the end of the call.
LEMMA RefusedSeen ==
  ASSUME MInv, WriteRefused
  PROVE  MInv' /\ Virtual!Refuse
<1> USE DEF MInv, IInv
<1>1. /\ UNCHANGED <<kernel, page_directories, result>>
      /\ mmuPc = "entry" /\ mmuPc' = "idle" /\ call.op = "write" /\ ~Writable[call.page]
  BY DEF WriteRefused, Return, translation
<1>2. DataOK' /\ UNCHANGED <<Alive, Memories>>
  BY <1>1, StoreKept
<1>3. IInv'
  <2>1. [MmuNext]_mmuVars
    BY DEF MmuNext
  <2> QED
    BY <2>1, InductiveStep
<1>4. MInv'
  BY <1>1, <1>2, <1>3 DEF NotOnDisk, CallMade
<1>5. Served = call /\ Served # NULL /\ Served' = NULL
  BY <1>1, CallsAssumption DEF Served, CallMade
<1> QED
  BY <1>1, <1>2, <1>4, <1>5 DEF Virtual!Refuse, Alive, Memories

\* The entry of the access under way, once its page is there.
LEMMA AccessIs ==
  ASSUME MInv, mmuPc = "entry", Present(pte)
  PROVE  \E p, v, t, k : /\ p = call.pid /\ v = call.page /\ p \in Pid /\ v \in Segments
                         /\ v \in Page /\ v[1] \in Vpn1 /\ k = v[2] /\ k \in Vpn2
                         /\ t = TableOf(p, v[1]) /\ HasTable(p, v[1]) /\ t \in Frame
                         /\ pte = <<t, k>> /\ Exists(p) /\ call \in Calls
                         /\ table[t][k].base \in Frame
                         /\ Entry(pte).base = table[t][k].base
                         /\ Memory(p, v) = page[table[t][k].base]
<1>0. TypesOK /\ CallOK /\ CallMade
  BY DEF MInv, IInv
<1>1. PICK p, v, t, k : /\ p = call.pid /\ v = call.page /\ k = v[2] /\ t = TableOf(p, v[1])
  OBVIOUS
<1>2. p \in Pid /\ v \in Segments /\ Exists(p) /\ pte = <<t, k>> /\ t # NULL /\ call \in Calls
  BY <1>0, <1>1 DEF CallOK, CallMade
<1>3. v \in Page /\ v[1] \in Vpn1 /\ k \in Vpn2
  BY <1>1, <1>2, SegmentsAssumption DEF Page
<1>4. HasTable(p, v[1]) /\ t \in Frame
  BY <1>0, <1>1, <1>2, <1>3, TableIs DEF HasTable
<1>5. Entry(pte).base = table[t][k].base /\ table[t][k].base # NULL
  BY <1>2 DEF Present, Entry
<1>6. table[t][k].base \in Frame
  BY <1>0, <1>3, <1>4, <1>5, EntryIs
<1>7. Memory(p, v) = page[table[t][k].base]
  <2>1. Memory(p, v) = Content(t, k)
    BY <1>1, <1>2, <1>3, <1>4, MemoryIs
  <2> QED
    BY <1>5, <2>1 DEF Content
<1> WITNESS p, v, t, k
<1> QED
  BY <1>1, <1>2, <1>3, <1>4, <1>5, <1>6, <1>7

LEMMA ReadSeen ==
  ASSUME MInv, Read
  PROVE  MInv' /\ Virtual!Read
<1> USE DEF MInv, IInv
<1>1. /\ mmuPc = "entry" /\ Present(pte) /\ mmuPc' = "idle"
      /\ result' = page[Entry(pte).base]
      /\ UNCHANGED <<kernel, page_directories>>
  BY DEF Read, Return, translation
<1>2. DataOK'
  BY <1>1, StoreKept
<1>3. UNCHANGED <<Alive, Memories>>
  BY <1>1, StoreKept
<1>4. MInv'
  BY <1>1, <1>2, ReadOK DEF NotOnDisk, CallMade
<1>5. /\ call.pid \in Pid /\ call.page \in Segments /\ call \in Calls
      /\ result' = Memory(call.pid, call.page)
  BY <1>1, AccessIs
<1>6. Served = call /\ Served # NULL /\ Served' = NULL /\ call.op = "read"
  BY <1>1, <1>5, CallsAssumption DEF Served, Read
<1>7. result' = Memories[call.pid][call.page]
  BY <1>5 DEF Memories
<1> QED
  BY <1>3, <1>4, <1>6, <1>7 DEF Virtual!Read, Alive, Memories

\* A write changes what is behind one entry, which is that of one process's page.
LEMMA WriteSeen ==
  ASSUME MInv, Write
  PROVE  MInv' /\ Virtual!Write
<1> USE DEF MInv, IInv
<1>1. /\ mmuPc = "entry" /\ Present(pte) /\ mmuPc' = "idle" /\ call.op = "write"
      /\ Writable[call.page]
      /\ page' = [page EXCEPT ![Entry(pte).base] = call.value]
      /\ table' = [table EXCEPT ![pte[1]][pte[2]].dirty = TRUE]
      /\ UNCHANGED <<mapped, swap, directory, page_directories, result>>
  BY DEF Write, Return, translation
<1>2. PICK p, v, t, k : /\ p = call.pid /\ v = call.page /\ p \in Pid /\ v \in Segments
                        /\ v \in Page /\ v[1] \in Vpn1 /\ k = v[2] /\ k \in Vpn2
                        /\ t = TableOf(p, v[1]) /\ HasTable(p, v[1]) /\ t \in Frame
                        /\ pte = <<t, k>> /\ Exists(p) /\ call \in Calls
                        /\ table[t][k].base \in Frame
                        /\ Entry(pte).base = table[t][k].base
  BY <1>1, AccessIs
<1>3. PICK x, b : x = call.value /\ b = table[t][k].base
  OBVIOUS
<1>4. x \in Nat
  BY <1>1, <1>2, <1>3, CallsAssumption
<1>5. b \in Frame /\ page' = [page EXCEPT ![b] = x] /\ mapped[b] = <<t, k>>
  <2>1. b \in Frame /\ page' = [page EXCEPT ![b] = x]
    BY <1>1, <1>2, <1>3
  <2>2. mapped[b] = <<t, k>>
    <3>1. table[TableOf(p, v[1])][k].base = b /\ b # NULL
      BY <1>2, <1>3, <2>1
    <3>2. mapped[table[TableOf(p, v[1])][k].base] = <<TableOf(p, v[1]), k>>
      BY <1>2, <3>1 DEF FramesOK, EntriesKnown
    <3> QED
      BY <1>2, <3>1, <3>2
  <2> QED
    BY ONLY <2>1, <2>2
<1>6. \A u \in Frame, m \in Vpn2 :
         /\ table'[u][m].base = table[u][m].base
         /\ <<u, m>> # <<t, k>> => table'[u][m].dirty = table[u][m].dirty
         /\ <<u, m>> = <<t, k>> => table'[u][m].dirty = TRUE
  <2> DEFINE E == [base : Frame \cup {NULL}, dirty : BOOLEAN]
             e == [table[t][k] EXCEPT !.dirty = TRUE]
             r == [table[t] EXCEPT ![k] = e]
  <2>1. table \in [Frame -> [Vpn2 -> E]]
    BY DEF TypesOK
  <2>2. table[t] \in [Vpn2 -> E] /\ table[t][k] \in E
    BY <1>2, <2>1
  <2>3. table' = [table EXCEPT ![t] = r]
    BY <1>1, <1>2
  <2>4. e.base = table[t][k].base /\ e.dirty = TRUE
    BY <2>2
  <2> HIDE DEF e
  <2>5. r[k] = e /\ \A m \in Vpn2 : m # k => r[m] = table[t][m]
    BY <1>2, <2>2
  <2> HIDE DEF r, E
  <2>6. table'[t] = r /\ \A u \in Frame : u # t => table'[u] = table[u]
    BY <1>2, <2>1, <2>3
  <2> QED
    BY <2>4, <2>5, <2>6
<1>7. ASSUME NEW u \in Frame, NEW m \in Vpn2, IsTable(u)
      PROVE  /\ Clean(u, m)'
             /\ Content(u, m)' = IF <<u, m>> = <<t, k>> THEN x ELSE Content(u, m)
  <2>1. PICK q \in Pid, j \in Vpn1 : HasTable(q, j) /\ TableOf(q, j) = u
    BY <1>7 DEF IsTable
  <2>2. table'[u][m].base = table[u][m].base /\ table[u][m].base \in Frame \cup {NULL}
    BY <1>6, EntryIs
  <2>3. CASE <<u, m>> = <<t, k>>
    <3>1. u = t /\ m = k /\ table'[u][m].base = b /\ table'[u][m].dirty = TRUE
      BY <1>3, <1>6, <2>2, <2>3
    <3>2. page'[b] = x /\ b # NULL
      BY <1>5 DEF DataOK, ContentsOK
    <3> QED
      BY <2>3, <3>1, <3>2 DEF Clean, Content
  <2>4. CASE <<u, m>> # <<t, k>>
    <3>1. table[u][m].base # b
      <4> SUFFICES ASSUME table[u][m].base = b PROVE FALSE
        OBVIOUS
      <4>1. b # NULL
        BY <1>5
      <4>2. mapped[b] = <<u, m>>
        BY <2>1, <4>1 DEF FramesOK, EntriesKnown
      <4> QED
        BY <1>5, <2>4, <4>2
    <3>2. table'[u][m].dirty = table[u][m].dirty
      BY <1>6, <2>4
    <3>3. table[u][m].base # NULL => page'[table[u][m].base] = page[table[u][m].base]
      BY <1>5, <2>2, <3>1 DEF DataOK, ContentsOK
    <3>4. Clean(u, m)
      BY <2>1 DEF DataOK, CleanOK
    <3>5. swap' = swap
      BY <1>1
    <3> QED
      BY <2>2, <2>4, <3>2, <3>3, <3>4, <3>5 DEF Clean, Content, Disk
  <2> QED
    BY <2>3, <2>4
<1>8. /\ \A q \in Pid, j \in Vpn1 : HasTable(q, j)' <=> HasTable(q, j)
      /\ \A q \in Pid, j \in Vpn1 : TableOf(q, j)' = TableOf(q, j)
      /\ \A u : IsTable(u)' <=> IsTable(u)
  BY <1>1 DEF HasTable, Exists, TableOf, IsTable
<1>9. DataOK'
  <2>1. ContentsOK'
    <3>1. page \in [Frame -> Nat] /\ swap \in [Address -> Nat \cup {NULL}]
      BY DEF DataOK, ContentsOK
    <3>2. page' \in [Frame -> Nat]
      BY ONLY <1>4, <1>5, <3>1
    <3>3. swap' = swap
      BY <1>1
    <3> QED
      BY <3>1, <3>2, <3>3 DEF ContentsOK
  <2>2. SwapOwned'
    BY <1>1, <1>8 DEF DataOK, SwapOwned, IsTable, HasTable, Exists, TableOf
  <2>3. CleanOK'
    <3> SUFFICES ASSUME NEW q \in Pid, NEW j \in Vpn1, NEW m \in Vpn2, HasTable(q, j)'
                 PROVE  Clean(TableOf(q, j), m)'
      BY DEF CleanOK
    <3>1. PICK u : u = TableOf(q, j)' /\ u = TableOf(q, j)
      BY <1>8
    <3>2. u \in Frame /\ IsTable(u)
      BY <1>8, <3>1, TableIs DEF IsTable
    <3>3. Clean(u, m)'
      BY <1>7, <3>2
    <3> QED
      BY <3>1, <3>3 DEF Clean, Disk
  <2> QED
    BY <2>1, <2>2, <2>3 DEF DataOK
<1>10. ASSUME NEW q \in Pid, NEW w \in Page
       PROVE  Memory(q, w)' = IF q = p /\ w = v THEN x ELSE Memory(q, w)
  <2>1. w[1] \in Vpn1 /\ w[2] \in Vpn2 /\ w = <<w[1], w[2]>> /\ v = <<v[1], v[2]>>
    BY <1>2 DEF Page
  <2>2. Memory(q, w) = IF HasTable(q, w[1]) THEN Content(TableOf(q, w[1]), w[2]) ELSE 0
    BY MemoryIs, Zenon
  <2>3. Memory(q, w)' = IF HasTable(q, w[1])' THEN Content(TableOf(q, w[1]), w[2])' ELSE 0
    BY MemoryIsThen, Zenon
  <2>4. CASE HasTable(q, w[1])
    <3>1. PICK u, m : u = TableOf(q, w[1]) /\ u = TableOf(q, w[1])' /\ m = w[2]
      BY <1>8, <2>1
    <3>2. u \in Frame /\ m \in Vpn2 /\ IsTable(u)
      BY <2>1, <2>4, <3>1, TableIs DEF IsTable
    <3>3. Content(u, m)' = IF <<u, m>> = <<t, k>> THEN x ELSE Content(u, m)
      BY <1>7, <3>2
    <3>4. Content(TableOf(q, w[1]), w[2])' = Content(u, m)'
      BY <3>1 DEF Content, Disk
    <3>5. <<u, m>> = <<t, k>> <=> q = p /\ w = v
      <4>1. u = t => q = p /\ w[1] = v[1]
        <5> SUFFICES ASSUME TableOf(q, w[1]) = TableOf(p, v[1]) PROVE q = p /\ w[1] = v[1]
          BY <1>2, <3>1
        <5>1. PICK i, j : i = w[1] /\ j = v[1]
          OBVIOUS
        <5>2. /\ HasTable(q, i) /\ Exists(p) /\ TableOf(q, i) = TableOf(p, j)
              /\ p \in Pid /\ i \in Vpn1 /\ j \in Vpn1
          BY <1>2, <2>1, <2>4, <5>1
        <5>3. TablesApart
          BY DEF FramesOK
        <5>4. HasTable(q, i) /\ Exists(p) /\ TableOf(q, i) = TableOf(p, j) => q = p /\ i = j
          BY <5>2, <5>3 DEF TablesApart
        <5> QED
          BY <5>1, <5>2, <5>4
      <4> QED
        BY <1>2, <2>1, <3>1, <4>1
    <3>6. HasTable(q, w[1])'
      BY <1>8, <2>1, <2>4
    <3> QED
      BY <2>2, <2>3, <2>4, <3>1, <3>3, <3>4, <3>5, <3>6
  <2>5. CASE ~HasTable(q, w[1])
    <3>1. ~HasTable(q, w[1])' /\ ~(q = p /\ w = v)
      BY <1>2, <1>8, <2>1, <2>5
    <3> QED
      BY <2>2, <2>3, <2>5, <3>1
  <2> QED
    BY <2>4, <2>5
<1>11. MInv'
  BY <1>1, <1>9, WriteOK DEF NotOnDisk, CallMade
<1>12. Memories' = [Memories EXCEPT ![p][v] = x]
  <2>1. \A q \in Pid, w \in Segments : Memory(q, w)' = IF q = p /\ w = v THEN x
                                                       ELSE Memory(q, w)
    BY <1>10, SegmentsAssumption
  <2> DEFINE M == [q \in Pid |-> [w \in Segments |-> IF q = p /\ w = v THEN x
                                                      ELSE Memory(q, w)]]
  <2>2. Memories' = M
    BY <2>1 DEF Memories
  <2>3. [Memories[p] EXCEPT ![v] = x] = M[p]
    BY <1>2 DEF Memories
  <2>4. \A q \in Pid \ {p} : Memories[q] = M[q]
    BY DEF Memories
  <2>5. [Memories EXCEPT ![p][v] = x] = M
    BY <1>2, <2>3, <2>4 DEF Memories
  <2> QED
    BY <2>2, <2>5
<1>13. Alive' = Alive /\ p \in Alive
  BY <1>1, <1>2 DEF Alive, Exists
<1>14. Served = call /\ Served # NULL /\ Served' = NULL
  BY <1>1, <1>2, CallsAssumption DEF Served
<1>15. Memories' = [Memories EXCEPT ![Served.pid][Served.page] = Served.value]
  BY <1>2, <1>3, <1>12, <1>14
<1> HIDE DEF MInv, IInv
<1> QED
  BY <1>1, <1>11, <1>13, <1>14, <1>15 DEF Virtual!Write, Alive, Memories

-----------------------------------------------------------------------------
\* What is behind the entries of the other processes when one is removed.
LEMMA OthersKept ==
  ASSUME TypesOK, FramesOK, DataOK, NEW p \in Pid, RemoveProcess(p),
         NEW q \in Pid, NEW j \in Vpn1, q # p, NEW t, HasTable(q, j), TableOf(q, j) = t,
         NEW k \in Vpn2
  PROVE  Clean(t, k)' /\ Content(t, k)' = Content(t, k)
<1> DEFINE O == Owned(p)
<1>1. /\ used' = used \ O
      /\ mapped' = [g \in Frame |-> IF g \in O THEN NULL ELSE mapped[g]]
      /\ table' = [g \in Frame |-> IF g \in O THEN NoPages ELSE table[g]]
      /\ page' = [g \in Frame |-> IF g \in O THEN 0 ELSE page[g]]
      /\ swap' = [a \in Address |-> IF a \in Entries(p) THEN NULL ELSE swap[a]]
  BY DEF RemoveProcess, GiveBack, Without
<1>2. Tables(p) \subseteq O
  BY DEF Owned
<1> HIDE DEF O
<1>3. /\ TypesOK' /\ FramesOK' /\ HasTable(q, j)' /\ TableOf(q, j)' = t
  BY Removed
<1>4. t \in Frame /\ t \notin O
  <2>1. t \in Frame
    BY TableIs
  <2>2. InRole(t)'
    BY <1>3 DEF InRole
  <2>3. t \in used'
    BY <1>3, <2>1, <2>2 DEF FramesOK, UsedOK
  <2> QED
    BY <1>1, <2>1, <2>3
<1>5. table'[t][k] = table[t][k] /\ table[t][k].base \in Frame \cup {NULL}
  BY <1>1, <1>4, EntryIs
<1>6. <<t, k>> \in Address /\ swap'[<<t, k>>] = swap[<<t, k>>]
  BY <1>1, <1>2, <1>4 DEF Entries, Address
<1>7. ASSUME table[t][k].base # NULL
      PROVE  page'[table[t][k].base] = page[table[t][k].base]
  <2>1. PICK g : g = table[t][k].base
    OBVIOUS
  <2>2. g \in Frame /\ table'[t][k].base = g
    BY <1>5, <1>7, <2>1
  <2>3. mapped'[g] = <<t, k>>
    <3>1. EntriesKnown'
      BY <1>3 DEF FramesOK
    <3>2. table'[TableOf(q, j)'][k].base = g /\ g # NULL
      BY <1>3, <1>7, <2>1, <2>2
    <3>3. mapped'[g] = <<TableOf(q, j)', k>>
      BY <1>3, <3>1, <3>2 DEF EntriesKnown
    <3> QED
      BY <1>3, <3>3
  <2>4. g \notin O
    BY <1>1, <1>6, <2>2, <2>3, NullAssumption DEF Address
  <2> QED
    BY <1>1, <2>1, <2>2, <2>4
<1>8. Clean(t, k)
  BY DEF DataOK, CleanOK
<1> QED
  BY <1>5, <1>6, <1>7, <1>8 DEF Clean, Content, Disk

LEMMA RemoveProcessSeen ==
  ASSUME MInv, NEW p \in Pid, RemoveProcess(p)
  PROVE  MInv' /\ IF Exists(p) THEN Virtual!Stop(p) ELSE UNCHANGED seen
<1> USE DEF MInv, IInv
<1>1. /\ mmuPc = "idle" /\ mmuPc' = "idle" /\ UNCHANGED result
      /\ page' = [g \in Frame |-> IF g \in Owned(p) THEN 0 ELSE page[g]]
      /\ swap' = [a \in Address |-> IF a \in Entries(p) THEN NULL ELSE swap[a]]
      /\ page_directories' = [page_directories EXCEPT ![p] = NULL]
  BY DEF RemoveProcess, GiveBack, Without
<1>2. /\ ~Exists(p)'
      /\ \A q \in Pid, j \in Vpn1 : q # p /\ HasTable(q, j) =>
            HasTable(q, j)' /\ TableOf(q, j)' = TableOf(q, j)
  BY Removed
<1>3. \A q \in Pid : Exists(q)' <=> q # p /\ Exists(q)
  BY <1>1 DEF Exists, TypesOK
<1>4. ASSUME NEW q \in Pid, NEW j \in Vpn1, HasTable(q, j)'
      PROVE  q # p /\ HasTable(q, j)
  <2>1. q # p /\ Exists(q) /\ Exists(q)'
    BY <1>3, <1>4 DEF HasTable
  <2>2. page_directories'[q] = page_directories[q] /\ page_directories[q] \in Frame
    BY <1>1, <2>1, TableIs DEF TypesOK
  <2>3. directory' = [g \in Frame |-> IF g \in Owned(p) THEN NoTables ELSE directory[g]]
    BY DEF RemoveProcess, GiveBack, Without
  <2>4. directory'[page_directories[q]][j] # NULL
    BY <1>4, <2>2 DEF HasTable, TableOf
  <2>5. TableOf(q, j) # NULL
    BY <2>2, <2>3, <2>4 DEF NoTables, TableOf
  <2> QED
    BY <2>1, <2>5 DEF HasTable
<1>5. ContentsOK'
  BY <1>1 DEF DataOK, ContentsOK
<1>6. SwapOwned'
  <2> SUFFICES ASSUME NEW a \in Address, swap'[a] # NULL PROVE IsTable(a[1])'
    BY DEF SwapOwned, Address
  <2>1. a \notin Entries(p) /\ swap[a] # NULL
    BY <1>1
  <2>2. PICK q \in Pid, j \in Vpn1 : HasTable(q, j) /\ TableOf(q, j) = a[1]
    BY <2>1 DEF DataOK, SwapOwned, IsTable
  <2>3. q # p
    <3> SUFFICES ASSUME q = p PROVE FALSE
      OBVIOUS
    <3>1. a[1] \in Tables(p)
      BY <2>2 DEF Tables, HasTable, Address
    <3> QED
      BY <2>1, <3>1 DEF Entries, Address
  <2>4. HasTable(q, j)' /\ TableOf(q, j)' = a[1]
    BY <1>2, <2>2, <2>3
  <2> QED
    BY <2>4 DEF IsTable
<1>7. CleanOK'
  <2> SUFFICES ASSUME NEW q \in Pid, NEW j \in Vpn1, NEW k \in Vpn2, HasTable(q, j)'
               PROVE  Clean(TableOf(q, j), k)'
    BY DEF CleanOK
  <2>1. q # p /\ HasTable(q, j)
    BY <1>4
  <2>2. PICK t : t = TableOf(q, j)' /\ t = TableOf(q, j)
    BY <1>2, <2>1
  <2>3. Clean(t, k)'
    BY <2>1, <2>2, OthersKept
  <2> QED
    BY <2>2, <2>3 DEF Clean, Disk
<1>8. MInv'
  BY <1>1, <1>5, <1>6, <1>7, RemoveProcessOK DEF DataOK, NotOnDisk, CallMade
<1>9. ASSUME NEW q \in Pid, NEW w \in Page
      PROVE  Memory(q, w)' = IF q = p THEN 0 ELSE Memory(q, w)
  <2>1. w[1] \in Vpn1 /\ w[2] \in Vpn2
    BY DEF Page
  <2>2. Memory(q, w) = IF HasTable(q, w[1]) THEN Content(TableOf(q, w[1]), w[2]) ELSE 0
    BY MemoryIs, Zenon
  <2>3. Memory(q, w)' = IF HasTable(q, w[1])' THEN Content(TableOf(q, w[1]), w[2])' ELSE 0
    BY MemoryIsThen, Zenon
  <2>4. CASE q # p /\ HasTable(q, w[1])
    <3>1. PICK t, k : t = TableOf(q, w[1]) /\ t = TableOf(q, w[1])' /\ k = w[2]
      BY <1>2, <2>1, <2>4
    <3>2. Content(t, k)' = Content(t, k)
      <4>1. PICK j \in Vpn1 : j = w[1]
        BY <2>1
      <4>2. q # p /\ HasTable(q, j) /\ TableOf(q, j) = t /\ k \in Vpn2
        BY <2>1, <2>4, <3>1, <4>1
      <4>3. TypesOK /\ FramesOK /\ DataOK
        OBVIOUS
      <4> QED
        BY ONLY RemoveProcess(p), <4>2, <4>3, OthersKept
    <3>3. Content(TableOf(q, w[1]), w[2])' = Content(t, k)'
      BY <3>1 DEF Content, Disk
    <3>4. HasTable(q, w[1])'
      BY <1>2, <2>1, <2>4
    <3> QED
      BY <2>2, <2>3, <2>4, <3>1, <3>2, <3>3, <3>4
  <2>5. CASE q = p \/ ~HasTable(q, w[1])
    <3>1. ~HasTable(q, w[1])'
      BY <1>4, <2>1, <2>5
    <3> QED
      BY <2>2, <2>3, <2>5, <3>1
  <2> QED
    BY <2>4, <2>5
<1>10. CASE Exists(p)
  <2>1. Alive' = Alive \ {p} /\ p \in Alive
    BY <1>3, <1>10 DEF Alive
  <2>2. \A q \in Pid, w \in Segments : Memory(q, w)' = IF q = p THEN 0 ELSE Memory(q, w)
    BY <1>9, SegmentsAssumption
  <2>3. Memories' = [Memories EXCEPT ![p] = [w \in Segments |-> 0]]
    BY <2>2 DEF Memories
  <2>4. Virtual!Stop(p)
    BY <1>1, <2>1, <2>3 DEF Virtual!Stop, Virtual!Zeros, Alive, Memories, Served
  <2> QED
    BY <1>8, <1>10, <2>4
<1>11. CASE ~Exists(p)
  <2>1. \A q \in Pid, w \in Page : Memory(q, w)' = Memory(q, w)
    <3>1. \A w \in Page : Memory(p, w) = 0
      BY <1>11 DEF Memory
    <3> QED
      BY <1>9, <3>1
  <2>2. Alive' = Alive
    BY <1>3, <1>11 DEF Alive
  <2> QED
    BY <1>1, <1>8, <1>11, <2>1, <2>2, SeenKept DEF seen, Served
<1> QED
  BY <1>10, <1>11

-----------------------------------------------------------------------------
LEMMA InitSeen == MmuInit => MInv /\ Virtual!Init
<1> SUFFICES ASSUME MmuInit PROVE MInv /\ Virtual!Init
  OBVIOUS
<1>1. \A p \in Pid : ~Exists(p)
  BY DEF MmuInit, Exists
<1>2. DataOK
  BY <1>1 DEF MmuInit, KernelInit, DataOK, ContentsOK, SwapOwned, CleanOK, HasTable
<1>3. MInv
  BY <1>2, InitOK DEF MInv, NotOnDisk, CallMade, MmuInit
<1>4. Virtual!Init
  BY <1>1 DEF Virtual!Init, Virtual!Zeros, Memory, MmuInit, Served
<1> QED
  BY <1>3, <1>4

LEMMA StepSeen ==
  ASSUME MInv, [MmuNext]_mmuVars
  PROVE  MInv' /\ [Virtual!Next]_seen
<1>1. ASSUME NEW p \in Pid, AddProcess(p) PROVE MInv' /\ Virtual!Next
  BY <1>1, AddProcessSeen DEF Virtual!Next
<1>2. ASSUME NEW p \in Pid, RemoveProcess(p) PROVE MInv' /\ [Virtual!Next]_seen
  BY <1>2, RemoveProcessSeen DEF Virtual!Next
<1>3. CASE AddTable
  BY <1>3, AddTableSeen
<1>4. CASE AddPage
  BY <1>4, AddPageSeen
<1>5. ASSUME NEW c \in Calls, Call(c) PROVE MInv' /\ Virtual!Next
  BY <1>5, CallSeen DEF Virtual!Next
<1>6. CASE AllocTable
  BY <1>6, AllocTableSeen
<1>7. CASE LoadPage
  BY <1>7, LoadPageSeen
<1>8. CASE Read
  BY <1>8, ReadSeen DEF Virtual!Next
<1>9. CASE Write
  BY <1>9, WriteSeen DEF Virtual!Next
<1>10. CASE WriteRefused
  BY <1>10, RefusedSeen DEF Virtual!Next
<1>11. CASE Added \/ TlbHit \/ Walk \/ UNCHANGED mmuVars
  BY <1>11, OthersSeen
<1> QED
  BY <1>1, <1>2, <1>3, <1>4, <1>5, <1>6, <1>7, <1>8, <1>9, <1>10, <1>11 DEF MmuNext

\* A read is answered from the page and the process that it names with what was
\* written there last, or zeros, and a write changes nothing else, however many
\* frames there are: pages that the kernel takes away, stores and brings back, in
\* the middle of any operation of any process, change nothing that a process
\* sees, and neither does a frame, a page file or a TLB entry that was another's.
THEOREM MmuImplements == MmuSpec => MemorySpec
<1>1. MInv /\ [MmuNext]_mmuVars => MInv' /\ [Virtual!Next]_seen
  BY StepSeen
<1> QED
  BY <1>1, InitSeen, PTL DEF MmuSpec, MemorySpec, Virtual!Spec, seen, Alive, Memories, Served
=============================================================================
