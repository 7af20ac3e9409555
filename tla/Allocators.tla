----------------------------- MODULE Allocators -----------------------------
(***************************************************************************)
(* The two allocators of system_programming: of blocks of one size, and of *)
(* blocks of any size.                                                     *)
(***************************************************************************)
EXTENDS Integers, FiniteSets, FiniteSetsExt, Functions

-----------------------------------------------------------------------------
(***************************************************************************)
(* The fixed-size allocator (system_programming/fsa/fsa.c): the free       *)
(* blocks are a list threaded through their own first words, as offsets    *)
(* from the allocator.                                                     *)
(***************************************************************************)

CONSTANTS FsaWord,        \* sizeof(size_t)
          FsaMemorySizes, \* memory_size, in bytes
          FsaBlockSizes   \* block_size, in bytes

ASSUME FsaAssumption == /\ FsaWord \in Nat \ {0}
                        /\ FsaMemorySizes \subseteq Nat /\ FsaBlockSizes \subseteq Nat \ {0}

END_OF_FREE_LIST == 0
sizeofFsa == 3 * FsaWord

VARIABLES fsa,      \* block_size, num_of_free_blocks, next_free
          fsaLink,  \* the first word of each block
          fsaLive   \* the blocks handed out

fsaVars == <<fsa, fsaLink, fsaLive>>

CALCULATE_BLOCK_SIZE(n) == IF n % FsaWord = 0 THEN n ELSE n + FsaWord - (n % FsaWord)
FSASuggestSize(block_size, blocks) == sizeofFsa + CALCULATE_BLOCK_SIZE(block_size) * blocks

Block(size, i) == sizeofFsa + size * (i - 1)

\* CreatFreeList: every block links to the next, the last one to the end.
CreatFreeList(size, blocks) ==
  [b \in {Block(size, i) : i \in 1 .. blocks} |->
     IF b = Block(size, blocks) THEN END_OF_FREE_LIST ELSE b + size]

FsaStart == /\ fsa = [block_size |-> 0, num_of_free_blocks |-> 0, next_free |-> END_OF_FREE_LIST]
            /\ fsaLink = <<>> /\ fsaLive = {}

\* FSAInit returns NULL, and no allocator, unless there is room for one block.
FSAInit(memory_size, n) ==
  LET size == CALCULATE_BLOCK_SIZE(n)
      blocks == (memory_size - sizeofFsa) \div size
  IN  /\ fsaLink = <<>>
      /\ memory_size >= FSASuggestSize(n, 1)
      /\ fsa' = [block_size |-> size, num_of_free_blocks |-> blocks, next_free |-> sizeofFsa]
      /\ fsaLink' = CreatFreeList(size, blocks)
      /\ UNCHANGED fsaLive

FSAAlloc ==
  /\ fsa.num_of_free_blocks > 0
  /\ fsa' = [fsa EXCEPT !.next_free = fsaLink[fsa.next_free], !.num_of_free_blocks = @ - 1]
  /\ fsaLive' = fsaLive \cup {fsa.next_free}
  /\ fsaLink' = [fsaLink EXCEPT ![fsa.next_free] = -1]  \* now the caller's data

\* Mutant of FSAFree: the block is put in front of the end of the list.
FSAFreeDropsList(b) ==
  /\ b \in fsaLive
  /\ fsaLink' = [fsaLink EXCEPT ![b] = END_OF_FREE_LIST]
  /\ fsa' = [fsa EXCEPT !.next_free = b, !.num_of_free_blocks = @ + 1]
  /\ fsaLive' = fsaLive \ {b}

FSAFree(b) ==
  /\ b \in fsaLive
  /\ fsaLink' = [fsaLink EXCEPT ![b] = fsa.next_free]
  /\ fsa' = [fsa EXCEPT !.next_free = b, !.num_of_free_blocks = @ + 1]
  /\ fsaLive' = fsaLive \ {b}

FSACountFree == fsa.num_of_free_blocks

FsaNext == \/ \E memory_size \in FsaMemorySizes, n \in FsaBlockSizes : FSAInit(memory_size, n)
           \/ FSAAlloc
           \/ \E b \in fsaLive : FSAFree(b)

-----------------------------------------------------------------------------

Blocks == DOMAIN fsaLink

\* The block after n others in the list that starts at next_free.
ListBlock[n \in Nat] ==
  IF n = 0 THEN fsa.next_free
  ELSE IF ListBlock[n - 1] \in Blocks THEN fsaLink[ListBlock[n - 1]] ELSE END_OF_FREE_LIST

(***************************************************************************)
(* The list from next_free holds exactly the blocks that are not handed    *)
(* out, as many as num_of_free_blocks says, in whatever order blocks were  *)
(* taken and given back: no block is lost and none is handed out twice.    *)
(***************************************************************************)
FreeListIsTheRest ==
  /\ {ListBlock[n] : n \in 0 .. FSACountFree - 1} = Blocks \ fsaLive
  /\ FSACountFree = Cardinality(Blocks \ fsaLive)
  /\ ListBlock[FSACountFree] = END_OF_FREE_LIST

-----------------------------------------------------------------------------
(***************************************************************************)
(* The variable-size allocator (system_programming/vsa/vsa.c): blocks laid *)
(* end to end, each behind a header whose block_size is positive for a     *)
(* free block, negative for a used one and 0 at the end of the memory.     *)
(***************************************************************************)

CONSTANTS VsaMemory,  \* memory_size, in units
          VsaHeader   \* SIZE_OF_VSA_STRUCT, in units

\* VSAInit refuses less than two headers; with room for nothing else the first
\* header reads as the end.
ASSUME VsaAssumption == /\ VsaHeader \in Nat \ {0} /\ VsaMemory \in Nat
                        /\ VsaMemory > 2 * VsaHeader

END_OF_VSA == 0

VARIABLES vsaSize,  \* block_size of the headers, by address
          vsaLive,  \* the blocks handed out: the size asked for, by address
          vsaLost   \* a size was written, or a block handed out, where there is no header

vsaVars == <<vsaSize, vsaLive, vsaLost>>

Abs(n) == IF n < 0 THEN -n ELSE n

GetNextBlock(size, b) == b + Abs(size[b]) + VsaHeader
MergeFreeBlocks(first, second) == first + second + VsaHeader

VSAInit == /\ LET largest == VsaMemory - 2 * VsaHeader
              IN  vsaSize = [b \in {0, largest + VsaHeader} |->
                               IF b = 0 THEN largest ELSE END_OF_VSA]
           /\ vsaLive = <<>> /\ vsaLost = FALSE

\* The free block b takes in the free block behind it.
Merge(size, b) ==
  LET next == GetNextBlock(size, b)
  IN  Restrict([size EXCEPT ![b] = MergeFreeBlocks(@, size[next])], DOMAIN size \ {next})

NextIsFree(size, b) == size[GetNextBlock(size, b)] > 0

(***************************************************************************)
(* One turn of the loop of FindEnoughBLockSize with its runner at b,       *)
(* merging on the way.  A free block that is too small and has no free     *)
(* block behind it is left by adding block_size alone: the address reached *)
(* is not a header's.                                                      *)
(***************************************************************************)
FindTurn(at, n) ==
  LET size == at[1]
      b == at[2]
  IN
  IF b \notin DOMAIN size \/ n <= size[b] \/ size[b] = END_OF_VSA THEN at
  ELSE IF size[b] < 0 THEN <<size, GetNextBlock(size, b)>>
  ELSE IF NextIsFree(size, b) THEN <<Merge(size, b), b>>
  ELSE <<size, b + size[b]>>

\* The headers, and the first block of n units or more from the header b on, the
\* end of the memory or an address without a header.  In each turn the runner's
\* block ends further on, so there are fewer than VsaMemory.
FindEnoughBlockSize(size, b, n) ==
  LET turn[k \in Nat] == IF k = 0 THEN <<size, b>> ELSE FindTurn(turn[k - 1], n)
  IN  turn[VsaMemory]

\* Mutant of AllocateBlock: the rest of a split block counts its header as data.
AllocateBlockNoHeader(size, b, n) ==
  IF n + VsaHeader >= size[b] THEN [size EXCEPT ![b] = -@]
  ELSE [x \in DOMAIN size \cup {b + n + VsaHeader} |->
          IF x = b THEN -n ELSE IF x = b + n + VsaHeader THEN size[b] - n ELSE size[x]]

AllocateBlock(size, b, n) ==
  IF n + VsaHeader >= size[b] THEN [size EXCEPT ![b] = -@]
  ELSE [x \in DOMAIN size \cup {b + n + VsaHeader} |->
          IF x = b THEN -n
          ELSE IF x = b + n + VsaHeader THEN size[b] - n - VsaHeader ELSE size[x]]

\* The search ends at a header: its block is handed out, or NULL at the end.
Takes(found, n) ==
  LET size == found[1]
      b == found[2]
  IN
  /\ b \in DOMAIN size
  /\ \/ size[b] = END_OF_VSA /\ vsaSize' = size /\ UNCHANGED vsaLive
     \/ /\ size[b] # END_OF_VSA
        /\ vsaSize' = AllocateBlock(size, b, n)
        /\ vsaLive' = [x \in DOMAIN vsaLive \cup {b} |-> IF x = b THEN n ELSE vsaLive[x]]
  /\ UNCHANGED vsaLost

(***************************************************************************)
(* The search comes to an address without a header, and what lies there    *)
(* decides: read as 0 it is the end and the call returns NULL; read as a   *)
(* size it leads on to any address, a header or not, and may be merged     *)
(* into; and read as large enough it is handed out or split, a block       *)
(* inside others.  What is written there destroys headers and the data of  *)
(* others: no further call is followed.                                    *)
(***************************************************************************)
Strays(size, n) ==
  \/ vsaSize' = size /\ UNCHANGED <<vsaLive, vsaLost>>
  \/ \E x \in DOMAIN size : Takes(FindEnoughBlockSize(size, x, n), n)
  \/ /\ vsaLost' = TRUE /\ vsaSize' = size
     /\ \/ UNCHANGED vsaLive
        \/ \E x \in 0 .. VsaMemory \ DOMAIN size :
             vsaLive' = [y \in DOMAIN vsaLive \cup {x} |-> IF y = x THEN n ELSE vsaLive[y]]

VSAAlloc(n) ==
  LET found == FindEnoughBlockSize(vsaSize, 0, n) IN
  /\ ~vsaLost
  /\ \/ Takes(found, n)
     \/ found[2] \notin DOMAIN found[1] /\ Strays(found[1], n)

VSAFree(b) == /\ ~vsaLost /\ b \in DOMAIN vsaLive
              /\ vsaSize' = [vsaSize EXCEPT ![b] = Abs(@)]
              /\ vsaLive' = Restrict(vsaLive, DOMAIN vsaLive \ {b})
              /\ UNCHANGED vsaLost

\* VSALargestChunkAvailable merges every run of free blocks on its way.
MergeTurn(at) ==
  LET size == at[1]
      b == at[2]
  IN
  IF size[b] = END_OF_VSA THEN at
  ELSE IF size[b] > 0 /\ NextIsFree(size, b) THEN <<Merge(size, b), b>>
  ELSE <<size, GetNextBlock(size, b)>>

MergeWalk(size) ==
  LET turn[k \in Nat] == IF k = 0 THEN <<size, 0>> ELSE MergeTurn(turn[k - 1])
  IN  turn[VsaMemory][1]

LargestChunk(size) == Max(Range(MergeWalk(size)))

VSALargestChunkAvailable == /\ ~vsaLost
                            /\ vsaSize' = MergeWalk(vsaSize)
                            /\ UNCHANGED <<vsaLive, vsaLost>>

VsaNext == \/ \E n \in 1 .. VsaMemory : VSAAlloc(n)
           \/ \E b \in DOMAIN vsaLive : VSAFree(b)
           \/ VSALargestChunkAvailable

-----------------------------------------------------------------------------

(***************************************************************************)
(* The headers tile the memory, however often blocks are split, freed and  *)
(* merged: each begins where the block before it ends, a block that was    *)
(* handed out is as large as asked for and is marked as used, every other  *)
(* one is free, and nothing is lost when all blocks have been freed.       *)
(***************************************************************************)
VsaTiles ==
  LET last == VsaMemory - VsaHeader IN
  /\ last \in DOMAIN vsaSize /\ vsaSize[last] = END_OF_VSA
  /\ \A b \in DOMAIN vsaSize \ {last} : GetNextBlock(vsaSize, b) \in DOMAIN vsaSize
  /\ Cardinality({GetNextBlock(vsaSize, b) : b \in DOMAIN vsaSize \ {last}})
       = Cardinality(DOMAIN vsaSize) - 1
  /\ \A b \in DOMAIN vsaSize \ {last} :
       IF b \in DOMAIN vsaLive THEN -vsaSize[b] >= vsaLive[b] ELSE vsaSize[b] > 0
  /\ DOMAIN vsaLive \subseteq DOMAIN vsaSize
  /\ vsaLive = <<>> => LargestChunk(vsaSize) = VsaMemory - 2 * VsaHeader

-----------------------------------------------------------------------------

AllocatorsSpec == /\ FsaStart /\ VSAInit
                  /\ [][\/ FsaNext /\ UNCHANGED vsaVars
                        \/ VsaNext /\ UNCHANGED fsaVars]_<<fsaVars, vsaVars>>

(***************************************************************************)
(* What is allocated and what is free divide the memory between them:      *)
(* blocks of the variable-size allocator tile its memory, and the free     *)
(* list of the fixed-size one holds every block nobody has.  The first is  *)
(* so until VSAAlloc writes where no header is (vsaLost), which vsa.h does *)
(* not foresee; up to there it holds also after searches that read such a  *)
(* place and went on or returned NULL.                                     *)
(***************************************************************************)
AllocatorsTile == (~vsaLost => VsaTiles) /\ FreeListIsTheRest
=============================================================================
