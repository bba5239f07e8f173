--------------------------------- MODULE Heap ---------------------------------
(***************************************************************************)
(* malloc/alloc.c: malloc, calloc, realloc and free on a heap that grows   *)
(* with sbrk.  Blocks lie side by side; each has a header (data_node), its *)
(* payload, and a mark that repeats its size, from which free finds the    *)
(* block before.  Free blocks are on a list, the newest first.             *)
(*                                                                         *)
(* An address is a number of bytes, and the sizes of a header and a mark   *)
(* are parameters.  What free and merges leave behind inside of a block is *)
(* dropped: nothing reads it again (HeapExact).                            *)
(***************************************************************************)
EXTENDS Integers, Sequences, SequencesExt, FiniteSetsExt

CONSTANTS STRUCT_SIZE, DATA_SIZE_SIZE,  \* of a header and of a mark
          Start,        \* the program break at the first malloc
          Limit,        \* sbrk fails to move the break beyond
          Large,        \* 256 MB: realloc cuts off nothing from smaller blocks
          Sizes,        \* the sizes that are asked for
          Counts        \* the counts given to calloc

ASSUME HeapAssumption == /\ STRUCT_SIZE \in Nat \ {0} /\ DATA_SIZE_SIZE \in Nat \ {0}
                         /\ Start \in Nat /\ Limit \in Nat /\ Large \in Nat
                         /\ Sizes \subseteq Nat \ {0} /\ Counts \subseteq Nat \ {0}

VARIABLES heap,     \* node: headers by address; mark: marks by address;
                    \* list: addresses of free blocks; brk: the program break
          live,     \* per payload given out: the bytes asked for
          crashed

heapVars == <<heap, live, crashed>>

META == STRUCT_SIZE + DATA_SIZE_SIZE

HeapInit == /\ heap = [node |-> <<>>, mark |-> <<>>, list |-> <<>>, brk |-> Start]
            /\ live = <<>>
            /\ crashed = FALSE

Payload(a) == a + STRUCT_SIZE

SizeOf(h, a) == h.node[a].size
MarkOf(h, a) == a + STRUCT_SIZE + SizeOf(h, a)      \* where its mark is
After(h, a)  == a + META + SizeOf(h, a)
Before(h, a) == a - META - h.mark[a - DATA_SIZE_SIZE]

\* A function changed or defined at x.
With(f, x, y) == [z \in DOMAIN f \cup {x} |-> IF z = x THEN y ELSE f[z]]

InUse(size)  == [size |-> size, free |-> FALSE]
Vacant(size) == [size |-> size, free |-> TRUE]

\* A header and its mark are written.
Block(h, a, header) ==
  [node |-> With(h.node, a, header),
   mark |-> With(h.mark, a + STRUCT_SIZE + header.size, header.size),
   list |-> h.list, brk |-> h.brk]

\* Only the list, or the break, is changed.
Relisted(h, list) == [node |-> h.node, mark |-> h.mark, list |-> list, brk |-> h.brk]
Moved(h, brk)     == [node |-> h.node, mark |-> h.mark, list |-> h.list, brk |-> brk]

-----------------------------------------------------------------------------
\* Fault: the first free block is taken, whatever its size.
FitsAny(h, n) == { k \in DOMAIN h.list : h.node[h.list[k]].free }

\* find_free_get_addr: where on the list the blocks are that are large enough;
\* the first is taken.
Fits(h, n) == { k \in DOMAIN h.list : /\ h.node[h.list[k]].free
                                      /\ SizeOf(h, h.list[k]) >= n }

\* The block that malloc gives out for n bytes.
Place(h, n) == IF Fits(h, n) = {} THEN h.brk ELSE h.list[Min(Fits(h, n))]

Expand(h, n) == Moved(Block(h, h.brk, InUse(n)), h.brk + META + n)

\* A block of n bytes, and a free one of what is left over of block a.
Divided(h, a, n) ==
  LET rest == a + META + n
  IN  Block(Block(h, rest, Vacant(SizeOf(h, a) - n - META)), a, InUse(n))

\* The rest takes the place of the block in the list.
Split(h, a, n) == Relisted(Divided(h, a, n), ReplaceAll(h.list, a, a + META + n))

TakeWhole(h, a) ==
  [node |-> With(h.node, a, InUse(SizeOf(h, a))), mark |-> h.mark,
   list |-> RemoveFirst(h.list, a), brk |-> h.brk]

AfterMalloc(h, n) ==
  LET a == Place(h, n) IN
  IF Fits(h, n) = {} THEN Expand(h, n)
  ELSE IF SizeOf(h, a) - n > META THEN Split(h, a, n) ELSE TakeWhole(h, a)

-----------------------------------------------------------------------------
\* A free block from a to the end of the last block of gone, which are blocks
\* after it; the mark is written at that end.
Merged(h, a, gone, size, list) ==
  LET dropped == { MarkOf(h, b) : b \in gone \cup {a} }
  IN  [node |-> [b \in DOMAIN h.node \ gone |->
                   IF b = a THEN Vacant(size) ELSE h.node[b]],
       mark |-> With([m \in DOMAIN h.mark \ dropped |-> h.mark[m]],
                     MarkOf(h, Max(gone)), size),
       list |-> list, brk |-> h.brk]

\* Fault: the block after stays on the list.
MergeBothKeepsAfter(h, b, a, c) ==
  Merged(h, b, {a, c}, SizeOf(h, b) + SizeOf(h, a) + SizeOf(h, c) + 2 * META, h.list)

MergeBoth(h, b, a, c) ==
  Merged(h, b, {a, c}, SizeOf(h, b) + SizeOf(h, a) + SizeOf(h, c) + 2 * META,
         RemoveFirst(h.list, c))

MergeWithAfter(h, a, c) == Merged(h, a, {c}, SizeOf(h, a) + SizeOf(h, c) + META,
                                  ReplaceAll(h.list, c, a))

MergeWithBefore(h, b, a) == Merged(h, b, {a}, SizeOf(h, b) + SizeOf(h, a) + META, h.list)

\* after_end is STRUCT_SIZE headers further, not bytes: a free block that ends
\* less than that before the break is not merged with the one before it.
FreeAfter(h, a) == /\ After(h, a) + STRUCT_SIZE * STRUCT_SIZE <= h.brk
                   /\ h.node[After(h, a)].free

\* What is read in front of the first block is no mark; it is taken to lead to
\* an address before start, as zeros do.
FreeBefore(h, a) == a # Start /\ h.node[Before(h, a)].free

Insert(h, a) ==
  [node |-> With(h.node, a, Vacant(SizeOf(h, a))), mark |-> h.mark,
   list |-> <<a>> \o h.list, brk |-> h.brk]

\* free, and merge_get_addrs.
AfterFree(h, a) ==
  CASE FreeBefore(h, a) /\ FreeAfter(h, a) -> MergeBoth(h, Before(h, a), a, After(h, a))
    [] FreeAfter(h, a) /\ ~FreeBefore(h, a) -> MergeWithAfter(h, a, After(h, a))
    [] FreeBefore(h, a) /\ ~FreeAfter(h, a) -> MergeWithBefore(h, Before(h, a), a)
    [] OTHER -> Insert(h, a)

\* split_get_addr_for_reduction: the rest is a free block of its own.
Reduced(h, a, n) == IF SizeOf(h, a) > Large /\ SizeOf(h, a) - n > META
                    THEN Insert(Divided(h, a, n), a + META + n) ELSE h

-----------------------------------------------------------------------------
\* sbrk fails when no block fits and the break would pass Limit.  It returns
\* (void* ) -1, and expand_heap reads an int from that address.
Fails(n) == Fits(heap, n) = {} /\ heap.brk + META + n > Limit

ProgramCrashes == crashed' = TRUE /\ UNCHANGED <<heap, live>>

Survives(n) == ~Fails(n) /\ UNCHANGED crashed

Less(f, p)    == [q \in DOMAIN f \ {p} |-> f[q]]

Malloc(n) == \/ /\ Survives(n)
                /\ heap' = AfterMalloc(heap, n)
                /\ live' = With(live, Payload(Place(heap, n)), n)
             \/ Fails(n) /\ ProgramCrashes

\* The product is taken to be below 2^64.
Calloc(num, size) == Malloc(num * size)

Free(p) == /\ heap' = AfterFree(heap, p - STRUCT_SIZE)
           /\ live' = Less(live, p)
           /\ UNCHANGED crashed

\* To size 0, realloc is free; of NULL, it is malloc.
Reduce(p, n) == LET a == p - STRUCT_SIZE IN
                /\ SizeOf(heap, a) >= n
                /\ heap' = Reduced(heap, a, n)
                /\ live' = With(live, p, n)
                /\ UNCHANGED crashed

\* A new block, memcpy, and free of the old one.
Increase(p, n) == LET a == p - STRUCT_SIZE IN
                  /\ SizeOf(heap, a) < n
                  /\ \/ /\ Survives(n)
                        /\ heap' = AfterFree(AfterMalloc(heap, n), a)
                        /\ live' = With(Less(live, p), Payload(Place(heap, n)), n)
                     \/ Fails(n) /\ ProgramCrashes

Realloc(p, n) == Reduce(p, n) \/ Increase(p, n)

HeapNext == /\ ~crashed
            /\ \/ \E n \in Sizes : Malloc(n)
               \/ \E k \in Counts, n \in Sizes : Calloc(k, n)
               \/ \E p \in DOMAIN live : Free(p)
               \/ \E p \in DOMAIN live, n \in Sizes : Realloc(p, n)

HeapSpec == HeapInit /\ [][HeapNext]_heapVars

-----------------------------------------------------------------------------
\* Whatever was split and merged before: the blocks tile the heap; each mark
\* repeats its block's size, and there is no other; the list has exactly the
\* free blocks, once each; and all other blocks are live and large enough.
\* So free finds its neighbours, and malloc gives out memory that is free.
HeapExact ==
  LET blocks == DOMAIN heap.node
      free   == { a \in blocks : heap.node[a].free }
  IN  /\ { After(heap, a) : a \in blocks } \cup {Start} = blocks \cup {heap.brk}
      /\ DOMAIN heap.mark = { MarkOf(heap, a) : a \in blocks }
      /\ \A a \in blocks : heap.mark[MarkOf(heap, a)] = SizeOf(heap, a)
      /\ ToSet(heap.list) = free /\ IsInjective(heap.list)
      /\ { Payload(a) : a \in blocks \ free } = DOMAIN live
      /\ \A a \in blocks : SizeOf(heap, a) > 0
      /\ \A p \in DOMAIN live : SizeOf(heap, p - STRUCT_SIZE) >= live[p]

Promise == INSTANCE Allocator WITH Memory <- Start .. Limit - 1

\* The heap implements an allocator: no two blocks that are given out overlap,
\* after any sequence of calls.
AllocatorSpec == Promise!Spec
=============================================================================
