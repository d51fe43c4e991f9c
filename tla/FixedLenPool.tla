---------------------------- MODULE FixedLenPool ----------------------------
(***************************************************************************)
(* FixedLenPool (memory/fixed_len_pool): blocks of one size behind a       *)
(* header, taken from a free list or from the end of what is in use.       *)
(* Addresses are bytes from the header's first byte; next holds the field  *)
(* next of the blocks written so far.                                      *)
(***************************************************************************)
EXTENDS Naturals

CONSTANTS
  HeaderSize,   \* sizeof(Header): 56
  Offset,       \* NODE_OFFSET: 8
  NodeSize,     \* node_size
  MaxNode,      \* max_node
  INVALID_REF

VARIABLES
  alloc_size, alloc_node, free_list,  \* the fields of Header that change
  next,                               \* block -> its field next
  used                                \* history: blocks the caller holds

vars == <<alloc_size, alloc_node, free_list, next, used>>

GetBlockSize == ((NodeSize + Offset + 7) \div 8) * 8
GetAllocSize == HeaderSize + MaxNode * GetBlockSize

\* Byte address of a position: header_ + pos is arithmetic on a Header*.
Deref(pos) == pos * HeaderSize
Ref(p) == p

\* (data_ is the byte behind the header)
IsValidBlock(p) ==
  /\ p >= HeaderSize /\ p + GetBlockSize <= alloc_size
  /\ p % GetBlockSize = HeaderSize % GetBlockSize

\* Init with check_header = false, on memory.  (With check_header = true it
\* compares the header that is there with its arguments and changes nothing;
\* without memory there is no pool.)
Init ==
  /\ alloc_size = HeaderSize /\ alloc_node = 0 /\ free_list = INVALID_REF
  /\ next = << >> /\ used = {}

Written(p, v) == [b \in DOMAIN next \cup {p} |-> IF b = p THEN v ELSE next[b]]

Hand(p) == used' = used \cup {p} /\ next' = Written(p, 0)

\* Alloc with an empty free list: the next block of the pool.
AllocNew ==
  /\ free_list = INVALID_REF
  /\ alloc_size + GetBlockSize <= GetAllocSize
  /\ Hand(Deref(alloc_size))
  /\ alloc_size' = alloc_size + GetBlockSize /\ alloc_node' = alloc_node + 1
  /\ UNCHANGED free_list

\* Alloc from the free list; a block that was never written may hold anything,
\* here the end of the list.  A block that is not valid is lost.
AllocFree ==
  /\ free_list # INVALID_REF
  /\ LET p == Deref(free_list)
     IN  /\ free_list' = IF p \in DOMAIN next THEN next[p] ELSE INVALID_REF
         /\ IF IsValidBlock(p) THEN Hand(p) ELSE UNCHANGED <<used, next>>
  /\ UNCHANGED <<alloc_size, alloc_node>>

\* Free: LinkFreeBlock for a block in use, else an error.
Free(p) ==
  /\ IF IsValidBlock(p) /\ next[p] = 0
     THEN next' = Written(p, free_list) /\ free_list' = Ref(p) /\ used' = used \ {p}
     ELSE UNCHANGED <<next, free_list, used>>
  /\ UNCHANGED <<alloc_size, alloc_node>>

Next == AllocNew \/ AllocFree \/ \E p \in used : Free(p)

Spec == Init /\ [][Next]_vars

\* Every block the caller holds lies within the memory GetAllocSize asks for
\* ("the least memory that max_node nodes need"), behind the header, and no
\* two overlap.
BlocksInside ==
  \A p \in used :
    /\ p >= HeaderSize /\ p + GetBlockSize <= GetAllocSize
    /\ \A r \in used : r = p \/ r + GetBlockSize <= p \/ p + GetBlockSize <= r
=============================================================================
