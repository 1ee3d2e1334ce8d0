------------------------------ MODULE MemBlocks ------------------------------
(***************************************************************************)
(* The memory block of both heap managers of src/dynmem.c: struct memblk   *)
(* and its boundary tags, the pools that blocks tile, and what it means    *)
(* for a heap of such blocks to be sound.                                  *)
(*                                                                         *)
(* Sizes and addresses count units of UNITSIZE bytes.  A block's address   *)
(* is that of its size word, which also holds ALLOC_BIT and                *)
(* PREV_ALLOC_BIT; the pointer a caller holds is the next unit.  The list  *)
(* links of a free block follow its size word, and its size is repeated in *)
(* its last unit.                                                          *)
(***************************************************************************)
EXTENDS Integers

CONSTANTS
  MemLen,      \* bound: the memory there is to make pools of
  MinNU,       \* MINNU: size word, two list links and the trailing size
  PoolHdr,     \* sizeof(union dynmempool_u) = sizeof(union tlsfpool_u)
  MinShrink,   \* CAT_MIN_ALLOC_SHRINK
  MinMoreMem,  \* CAT_MIN_MOREMEM
  SzMod        \* sizes in bytes are size_t: they wrap at SzMod units

ASSUME BlockAssumption ==
  /\ MemLen \in Nat
  /\ MinNU \in Nat /\ MinNU >= 4
  /\ PoolHdr \in Nat \ {0}
  /\ MinShrink \in Nat /\ MinShrink >= MinNU
  /\ MinMoreMem \in Nat /\ MinMoreMem >= PoolHdr + MinNU + 2
  /\ SzMod \in Nat /\ SzMod > 2 * MemLen

Addr == 1 .. MemLen

-----------------------------------------------------------------------------
(* Tags.  A heap h has the words of its pools that hold tags: h.hdr[a] is  *)
(* the size word at a, h.foot[a] the trailing size at a.  A word that is   *)
(* neither, because it holds links, caller data or a tag left inside a     *)
(* larger block, is Garbage in hdr and 0 in foot: no step may depend on it. *)

Garbage == [sz |-> 0, alloc |-> FALSE, palloc |-> FALSE]
Tag(sz, alloc, palloc) == [sz |-> sz, alloc |-> alloc, palloc |-> palloc]

\* The size word at a and the size in the block's last unit; the words between
\* them belong to the block from now on.
set_free_mb(h, a, sz, tag) ==
  [h EXCEPT
    !.hdr  = [b \in Addr |-> IF b = a THEN tag
                             ELSE IF a < b /\ b < a + sz THEN Garbage ELSE @[b]],
    !.foot = [b \in Addr |-> IF b = a + sz - 1 THEN sz
                             ELSE IF a <= b /\ b < a + sz THEN 0 ELSE @[b]]]

\* The block at a becomes the caller's, contents and all, and the unit after it
\* is told so.
set_alloc_mb(h, a, sz) ==
  [h EXCEPT
    !.hdr  = [b \in Addr |-> IF b = a THEN Tag(sz, TRUE, @[a].palloc)
                             ELSE IF a < b /\ b < a + sz THEN Garbage
                             ELSE IF b = a + sz THEN [@[b] EXCEPT !.palloc = TRUE]
                             ELSE @[b]],
    !.foot = [b \in Addr |-> IF a <= b /\ b < a + sz THEN 0 ELSE @[b]]]

-----------------------------------------------------------------------------
(* Pools. *)

PoolAt(base, len) == [start |-> base + PoolHdr, ulen |-> len - PoolHdr - 1]
PoolUnits(p) == p.start .. (p.start + p.ulen - 1)

\* What is asked of add_mem_func for a block of amt units.
more_amt(amt) ==
  LET n == amt + 1 + PoolHdr IN IF n < MinMoreMem THEN MinMoreMem ELSE n

-----------------------------------------------------------------------------
(* Sound heaps. *)

Blocks(h) == { a \in Addr : h.hdr[a].sz > 0 }
FreeBlocks(h) == { a \in Blocks(h) : ~h.hdr[a].alloc }
Units(h, a) == a .. (a + h.hdr[a].sz - 1)

\* Walking a pool from its start by block sizes, as tlsf_each_block and
\* dynmem_each_block do, visits blocks that cover every unit once and ends at
\* the sentinel; no tag is left anywhere else.
HeapTiled(h, pools) ==
  /\ \A p \in pools : /\ h.hdr[p.start + p.ulen].sz = 0
                      /\ h.hdr[p.start + p.ulen].alloc
  /\ UNION { Units(h, a) : a \in Blocks(h) } = UNION { PoolUnits(p) : p \in pools }
  /\ \A a, b \in Blocks(h) : a < b => a + h.hdr[a].sz <= b

\* PREV_ALLOC_BIT of the unit after a block says whether the block is allocated,
\* and if it is not, its size can be read back just before that unit.
HeapTagged(h) ==
  \A a \in Blocks(h) :
    LET n == a + h.hdr[a].sz IN
    /\ h.hdr[n].palloc = h.hdr[a].alloc
    /\ ~h.hdr[a].alloc => h.foot[n - 1] = h.hdr[a].sz

\* No two free blocks touch.
HeapCoalesced(h) == \A a, b \in FreeBlocks(h) : a + h.hdr[a].sz # b
=============================================================================
