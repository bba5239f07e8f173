-------------------------------- MODULE Minixfs --------------------------------
(***************************************************************************)
(* finding_filesystems/minixfs.c: files in one directory of a disk.  What  *)
(* finds, initialises and extends inodes is a library.                     *)
(*                                                                         *)
(* Blocks hold units, of which a byte takes one, and a directory entry,    *)
(* too; both are pairs.  The direct and the indirect blocks of an inode    *)
(* are one sequence; the block that lists the indirect ones is used, and   *)
(* its content left out.  So are owners, permissions and times.            *)
(***************************************************************************)
EXTENDS Integers, Sequences, SequencesExt, FiniteSetsExt

CONSTANTS Name, Invalid,            \* of files; those that are not valid
          BlockSize, DATA_NUMBER,   \* units in a block, blocks on the disk
          NUM_DIRECT_BLOCKS, NUM_INDIRECT,
          inode_count,
          Lengths,                  \* of what is written
          MaxWrites                 \* bound: how often

ASSUME MinixfsAssumption ==
  /\ BlockSize \in Nat \ {0} /\ DATA_NUMBER \in Nat \ {0} /\ inode_count \in Nat \ {0}
  /\ NUM_DIRECT_BLOCKS \in Nat \ {0} /\ NUM_INDIRECT \in Nat
  /\ Invalid \subseteq Name /\ Lengths \subseteq Nat

VARIABLES fs,           \* inode: those in use; used: the data map; data: per block
          writes,
          files,        \* history: per name created, what was written to it
          misplaced     \* history: files that were not only written at their end

minixfsVars == <<fs, writes, files, misplaced>>

Root    == 0
DataBlock == 0 .. DATA_NUMBER - 1
Byte(v) == <<"", v>>
Dirent(n, i) == <<n, i>>

NewInode == [size |-> 0, blocks |-> <<>>, indirect |-> FALSE]

MinixfsInit ==
  /\ fs = [inode |-> [i \in {Root} |-> NewInode], used |-> {},
           data |-> [b \in DataBlock |-> [o \in 0 .. BlockSize - 1 |-> Byte(0)]]]
  /\ writes = 0 /\ files = <<>> /\ misplaced = {}

\* f, with a value for x, be it the first or another.
Assign(f, x, v) == [y \in DOMAIN f \cup {x} |-> IF y = x THEN v ELSE f[y]]

Unused(f)       == DataBlock \ f.used
UnusedInodes(f) == (0 .. inode_count - 1) \ DOMAIN f.inode

\* What an inode has at a place; in front of the disk when no block is there.
Unit(f, i, place) ==
  LET blocks == f.inode[i].blocks
      k      == place \div BlockSize + 1
  IN  IF k \in DOMAIN blocks THEN f.data[blocks[k]][place % BlockSize] ELSE Byte(-1)

\* get_inode, as a set of at most one.
GetInode(f, n) == { i \in DOMAIN f.inode : \E place \in 0 .. f.inode[Root].size - 1 :
                                              Unit(f, Root, place) = Dirent(n, i) }

-----------------------------------------------------------------------------
\* n more blocks for an inode, and the one that lists the indirect ones.
NeedsIndirect(nd, n) == Len(nd.blocks) + n > NUM_DIRECT_BLOCKS /\ ~nd.indirect

Taken(f, i, n) == n + IF NeedsIndirect(f.inode[i], n) THEN 1 ELSE 0

CanAdd(f, i, n) ==
  /\ Len(f.inode[i].blocks) + n <= NUM_DIRECT_BLOCKS + NUM_INDIRECT
  /\ Taken(f, i, n) <= Cardinality(Unused(f))

Lowest(S, n) == [k \in 1..n |-> CHOOSE b \in S : Cardinality({ c \in S : c < b }) = k - 1]

AddBlocks(f, i, n) ==
  LET new == Lowest(Unused(f), Taken(f, i, n))
  IN  [f EXCEPT !.used = @ \cup ToSet(new),
                !.inode[i].blocks = @ \o SubSeq(new, 1, n),
                !.inode[i].indirect = @ \/ NeedsIndirect(f.inode[i], n)]

AddSingleIndirect(f, i) == [f EXCEPT !.used = @ \cup {Min(Unused(f))},
                                     !.inode[i].indirect = TRUE]

-----------------------------------------------------------------------------
\* minixfs_create_inode_for_path.
LacksIndirect(f) == /\ f.inode[Root].size \div BlockSize >= NUM_DIRECT_BLOCKS
                    /\ ~f.inode[Root].indirect

Creatable(f, n) == /\ GetInode(f, n) = {} /\ UnusedInodes(f) # {}
                   /\ n \notin Invalid
                   /\ LacksIndirect(f) => Unused(f) # {}

\* The directory has its indirect block, and the inode is initialised.
Initialised(f) ==
  LET g == IF LacksIndirect(f) THEN AddSingleIndirect(f, Root) ELSE f
  IN  [g EXCEPT !.inode = Assign(@, Min(UnusedInodes(f)), NewInode)]

\* The entry lies in the block that holds the directory's end, or, when one has
\* been added, in block 0, whichever was added.
Enter(f, n, i) ==
  LET root == f.inode[Root]
      o    == root.size % BlockSize
      b    == IF o = 0 THEN 0 ELSE root.blocks[root.size \div BlockSize + 1]
      g    == IF o = 0 THEN AddBlocks(f, Root, 1) ELSE f
  IN  [g EXCEPT !.inode[Root].size = @ + 1, !.data[b][o] = Dirent(n, i)]

\* When the directory cannot have its next block, the inode stays in use.
Created(f, n) ==
  LET g == Initialised(f) IN
  IF ~Creatable(f, n) THEN f
  ELSE IF g.inode[Root].size % BlockSize = 0 /\ ~CanAdd(g, Root, 1) THEN g
  ELSE Enter(g, n, Min(UnusedInodes(f)))

\* A file that is now found, and was not, is new.
Note(n, f) == files' = IF GetInode(fs, n) = {} /\ GetInode(f, n) # {}
                       THEN Assign(files, n, <<>>) ELSE files

CreateInodeForPath(n) == /\ fs' = Created(fs, n)
                         /\ Note(n, fs')
                         /\ UNCHANGED <<writes, misplaced>>

-----------------------------------------------------------------------------
\* Fault: one block less.
BlocksNeededExactly(off, count) == (off + count) \div BlockSize

BlocksNeeded(off, count) == (off + count) \div BlockSize + 1

Missing(f, i, off, count) ==
  Max({0, BlocksNeeded(off, count) - Len(f.inode[i].blocks)})

\* The loop of minixfs_write; size grows by what was written, wherever it was.
Copy(f, i, off, count, v) ==
  LET here(b, o) == \E place \in off .. off + count - 1 :
                       /\ place % BlockSize = o
                       /\ place \div BlockSize + 1 \in DOMAIN f.inode[i].blocks
                       /\ f.inode[i].blocks[place \div BlockSize + 1] = b
  IN  [f EXCEPT !.inode[i].size = @ + count,
                !.data = [b \in DataBlock |-> [o \in 0 .. BlockSize - 1 |->
                            IF here(b, o) THEN Byte(v) ELSE @[b][o]]]]

\* ENOSPC: no inode, or not enough blocks, some of which may have been added.
WriteFails(n, off, count) ==
  LET f == Created(fs, n) IN
  /\ \/ GetInode(f, n) = {} /\ fs' = f
     \/ \E i \in GetInode(f, n) :
          LET missing == Missing(f, i, off, count) IN
          /\ ~CanAdd(f, i, missing)
          /\ \E k \in 0 .. missing - 1 : CanAdd(f, i, k) /\ fs' = AddBlocks(f, i, k)
  /\ Note(n, f)
  /\ UNCHANGED misplaced

WriteSucceeds(n, off, count) ==
  LET f == Created(fs, n) IN
  \E i \in GetInode(f, n) :
    /\ CanAdd(f, i, Missing(f, i, off, count))
    /\ fs' = Copy(AddBlocks(f, i, Missing(f, i, off, count)), i, off, count, writes + 1)
    /\ files' = LET old == IF GetInode(fs, n) = {} THEN <<>> ELSE files[n]
                IN  Assign(files, n, old \o [k \in 1..count |-> Byte(writes + 1)])
    /\ misplaced' = IF off = f.inode[i].size THEN misplaced ELSE misplaced \cup {n}

\* minixfs_write, at the end of the file or at its beginning.
WriteFile(n, count) ==
  /\ writes < MaxWrites /\ writes' = writes + 1
  /\ \E off \in {0} \cup { fs.inode[i].size : i \in GetInode(fs, n) } :
       WriteFails(n, off, count) \/ WriteSucceeds(n, off, count)

MinixfsNext == \E n \in Name : \/ CreateInodeForPath(n)
                               \/ \E count \in Lengths : WriteFile(n, count)

MinixfsSpec == MinixfsInit /\ [][MinixfsNext]_minixfsVars

-----------------------------------------------------------------------------
\* What minixfs_read returns of the whole file.
Content(f, i) == [k \in 1 .. f.inode[i].size |-> Unit(f, i, k - 1)]

\* As long as the directory lies in one block, a file that was created is found
\* under its name; and if it was only written at its end, it holds all that was
\* written to it and nothing else, also across its indirect blocks, after
\* writes that failed, and with the blocks of other files between its own.
FilesKept ==
  Len(fs.inode[Root].blocks) <= 1 =>
    \A n \in DOMAIN files : \E i \in GetInode(fs, n) :
      n \in misplaced \/ Content(fs, i) = files[n]
=============================================================================
