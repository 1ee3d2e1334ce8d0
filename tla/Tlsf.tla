-------------------------------- MODULE Tlsf --------------------------------
(***************************************************************************)
(* The two-level segregated fit manager of src/dynmem.c: pools of          *)
(* memory tiled by blocks with boundary tags, and the free blocks in bins  *)
(* found through a two-level bitmap.                                       *)
(*                                                                         *)
(* A bin is modelled as the set of the blocks on its list: which of them   *)
(* tlsf_extract takes is left open.  Blocks and tags are those of          *)
(* MemBlocks.                                                              *)
(***************************************************************************)
EXTENDS MemBlocks, FiniteSets, FiniteSetsExt

CONSTANTS
  L2Len,         \* TLSF_L2_LEN: log2 of the bins of a full second level
  NumL2,         \* TLSF_NUML2: first-level classes; 2^NumL2 is TLSF_ALIM
  PoolLens,      \* lengths a client passes to tlsf_add_pool
  MallocSizes,   \* sizes a client passes to tlsf_malloc
  ReallocSizes   \* sizes a client passes to tlsf_realloc

\* 1 << n
Pow2[n \in 0 .. NumL2] == IF n = 0 THEN 1 ELSE 2 * Pow2[n - 1]

ASSUME GeometryAssumption ==
  /\ L2Len \in Nat \ {0} /\ NumL2 \in Nat /\ L2Len < NumL2
  /\ MemLen < Pow2[NumL2] /\ MinNU < Pow2[NumL2] /\ SzMod = 2 * Pow2[NumL2]

ASSUME ClientAssumption ==
  /\ PoolLens \subseteq (PoolHdr + MinNU + 2) .. MemLen
  /\ MallocSizes \subseteq 1 .. SzMod
  /\ ReallocSizes \subseteq 1 .. SzMod

VARIABLES
  heap,     \* struct tlsf and the words of its pools that hold tags
  pools,    \* tlsf_pools: [start, ulen] of every pool
  top,      \* the memory below top is in use as a pool
  live,     \* blocks the caller holds -> the size last asked for
  call,     \* tlsf_malloc waiting for add_mem_func, or Idle
  refused   \* the block size the last call could not provide, 0 if none

vars == <<heap, pools, top, live, call, refused>>

-----------------------------------------------------------------------------
(* Size classes. *)

L1 == 0 .. (NumL2 - 1)
nblists(l1) == IF l1 < L2Len THEN Pow2[l1] ELSE Pow2[L2Len]
Bins == { b \in L1 \X (0 .. (Pow2[L2Len] - 1)) : b[2] < nblists(b[1]) }
None == << -1, -1 >>

Log2(n) == CHOOSE i \in L1 : Pow2[i] <= n /\ n < Pow2[i + 1]

calc_tlsf_indices(len) ==
  LET i == Log2(len)
      j == len - Pow2[i]
  IN  << i, IF len < Pow2[L2Len] THEN j ELSE j \div Pow2[i - L2Len] >>

\* The first bin all of whose blocks are at least amt long.
round_next_tlsf_size(amt) ==
  LET idx == calc_tlsf_indices(amt)
      i   == idx[1]
      bktlen == Pow2[i] + (Pow2[i] \div Pow2[L2Len]) * idx[2]
  IN  IF i <= L2Len \/ amt <= bktlen      THEN idx
      ELSE IF idx[2] + 1 < nblists(i)     THEN << i, idx[2] + 1 >>
      ELSE IF i + 1 < NumL2               THEN << i + 1, 0 >>
      ELSE None

-----------------------------------------------------------------------------
(* Lists. *)

\* tlsf_ins_blk_c.  A block shorter than MinNU has no room for its links: they
\* overwrite its trailing size or the next block's tag, and nothing is known of
\* the heap after that.
tlsf_ins_blk_c(h, a) ==
  LET idx == calc_tlsf_indices(h.hdr[a].sz)
  IN  [h EXCEPT !.l1bm = @ \cup {idx[1]},
                !.l2bm[idx[1]] = @ \cup {idx[2]},
                !.bins[idx] = @ \cup {a},
                !.wild = @ \/ h.hdr[a].sz < MinNU]

\* Fault: the first-level bit survives its last list.
RemKeepsL1Bit(h, a, idx) ==
  LET bin == h.bins[idx] \ {a}
  IN  [h EXCEPT !.bins[idx] = bin,
                !.l2bm[idx[1]] = IF bin = {} THEN @ \ {idx[2]} ELSE @]

tlsf_rem_blk(h, a, idx) ==
  LET bin == h.bins[idx] \ {a}
      bm2 == IF bin = {} THEN h.l2bm[idx[1]] \ {idx[2]} ELSE h.l2bm[idx[1]]
  IN  [h EXCEPT !.bins[idx] = bin,
                !.l2bm[idx[1]] = bm2,
                !.l1bm = IF bin = {} /\ bm2 = {} THEN @ \ {idx[1]} ELSE @]

tlsf_rem_blk_c(h, a) == tlsf_rem_blk(h, a, calc_tlsf_indices(h.hdr[a].sz))

tlsf_split_blk(h, a, amt) ==
  LET t  == h.hdr[a]
      h1 == tlsf_rem_blk_c(h, a)
      h2 == set_free_mb(h1, a + amt, t.sz - amt, [t EXCEPT !.sz = t.sz - amt])
      h3 == set_free_mb(h2, a, amt, [t EXCEPT !.sz = amt])
  IN  tlsf_ins_blk_c(h3, a + amt)

tlsf_coalesce_and_insert(h, mb) ==
  LET t  == h.hdr[mb]
      h0 == set_free_mb(h, mb, t.sz, [t EXCEPT !.alloc = FALSE])
      \* join with the previous block if it is free
      psz == IF t.palloc THEN 0 ELSE h0.foot[mb - 1]
      a   == mb - psz
      h1  == IF t.palloc THEN h0
             ELSE set_free_mb(tlsf_rem_blk_c(h0, a), a, psz + t.sz,
                              Tag(psz + t.sz, FALSE, TRUE))
      \* join with the next block if it is free, else clear its PREV_ALLOC_BIT
      n   == a + psz + t.sz
      nsz == h1.hdr[n].sz
      h2  == IF h1.hdr[n].alloc
             THEN [h1 EXCEPT !.hdr[n].palloc = FALSE]
             ELSE set_free_mb(tlsf_rem_blk_c(h1, n), a, psz + t.sz + nsz,
                              Tag(psz + t.sz + nsz, FALSE, TRUE))
  IN  tlsf_ins_blk_c(h2, a)

\* tlsf_init_pool is the list insert; the rest is the pool's first block.
add_pool_blocks(h, base, len) ==
  LET start == base + PoolHdr
      ulen  == len - PoolHdr - 1
      h1 == [h EXCEPT !.hdr[start + ulen] = Tag(0, TRUE, FALSE),
                      !.hdr[start] = Tag(ulen, TRUE, TRUE)]
  IN  tlsf_coalesce_and_insert(h1, start)

\* Fault: only the request's own first-level class is searched.
FindOneLevel(h, idx) ==
  LET n2 == { k \in h.l2bm[idx[1]] : k >= idx[2] }
  IN  IF n2 # {} THEN << idx[1], Min(n2) >> ELSE None

\* The bin tlsf_find_blk returns for a request of class idx, or None.
tlsf_find_blk(h, idx) ==
  LET n2 == { k \in h.l2bm[idx[1]] : k >= idx[2] }
      n1 == { k \in h.l1bm : k > idx[1] }
  IN  IF n2 # {} THEN << idx[1], Min(n2) >>
      ELSE IF n1 # {} THEN << Min(n1), Min(h.l2bm[Min(n1)]) >>
      ELSE None

tlsf_extract(h, idx, a, amt) ==
  LET split == h.hdr[a].sz - amt >= MinNU
      h1 == IF split THEN tlsf_split_blk(h, a, amt) ELSE tlsf_rem_blk(h, a, idx)
  IN  set_alloc_mb(h1, a, IF split THEN amt ELSE h.hdr[a].sz)

\* Fault: the block after the new free block still says its predecessor is
\* allocated.
ShrinkKeepsPrevBit(h, mb, sz) ==
  LET t     == h.hdr[mb]
      delta == t.sz - sz
      n     == mb + t.sz
      joins == ~h.hdr[n].alloc
      h1    == IF joins THEN tlsf_rem_blk_c(h, n) ELSE h
      nbsz  == IF joins THEN delta + h.hdr[n].sz ELSE delta
      h2    == set_free_mb(h1, mb + sz, nbsz, Tag(nbsz, FALSE, TRUE))
  IN  IF delta < MinNU \/ (~joins /\ delta < MinShrink) THEN h
      ELSE [tlsf_ins_blk_c(h2, mb + sz) EXCEPT !.hdr[mb].sz = sz]

\* tlsf_shrink_blk: the tail goes to the free block that follows, or becomes one
\* of its own if it is worth it.
tlsf_shrink_blk(h, mb, sz) ==
  LET t     == h.hdr[mb]
      delta == t.sz - sz
      n     == mb + t.sz
      joins == ~h.hdr[n].alloc
      h1    == IF joins THEN tlsf_rem_blk_c(h, n)
               ELSE [h EXCEPT !.hdr[n].palloc = FALSE]
      nbsz  == IF joins THEN delta + h.hdr[n].sz ELSE delta
      h2    == set_free_mb(h1, mb + sz, nbsz, Tag(nbsz, FALSE, TRUE))
  IN  IF delta < MinNU \/ (~joins /\ delta < MinShrink) THEN h
      ELSE [tlsf_ins_blk_c(h2, mb + sz) EXCEPT !.hdr[mb].sz = sz]

\* tlsf_realloc's use of the free block that follows, which is long enough.
grow_into_next(h, mb, newamt) ==
  LET t     == h.hdr[mb]
      n     == mb + t.sz
      delta == newamt - t.sz
      split == h.hdr[n].sz > delta + MinNU
      h1    == IF split THEN tlsf_split_blk(h, n, delta) ELSE tlsf_rem_blk_c(h, n)
  IN  set_alloc_mb(h1, mb, t.sz + h1.hdr[n].sz)

-----------------------------------------------------------------------------
(* The calls. *)

Idle == [amt |-> 0, idx |-> None, old |-> 0, want |-> 0, again |-> FALSE]

Init ==
  /\ heap = [hdr  |-> [a \in Addr |-> Garbage],
             foot |-> [a \in Addr |-> 0],
             bins |-> [b \in Bins |-> {}],
             l1bm |-> {},
             l2bm |-> [i \in L1 |-> {}],
             wild |-> FALSE]
  /\ pools = {}
  /\ top = 1
  /\ live = << >>
  /\ call = Idle
  /\ refused = 0

\* The process is between two calls and its heap has not been overwritten.
Ready == call = Idle /\ ~heap.wild

AddPool(len) ==
  /\ Ready
  /\ top + len - 1 <= MemLen
  /\ heap' = add_pool_blocks(heap, top, len)
  /\ pools' = pools \cup {PoolAt(top, len)}
  /\ top' = top + len
  /\ refused' = 0
  /\ UNCHANGED <<live, call>>

\* Fault: no unit is added for the header.
UnitsWithoutHeader(size) == IF size < MinNU THEN MinNU ELSE size

\* A block for size units: the header is added, the sum may wrap.
block_units(size) == IF size < MinNU - 1 THEN MinNU ELSE (size + 1) % SzMod
too_big(size) ==
  size >= MinNU - 1 /\ (block_units(size) >= Pow2[NumL2] \/ block_units(size) < size)

Refuse(amt) ==
  /\ refused' = amt
  /\ call' = Idle
  /\ UNCHANGED live

\* Block a of bin idx of h is given out; a realloc then moves to it and frees
\* its old block.
Grant(h, idx, amt, old, want) ==
  \E a \in h.bins[idx] :
    LET h1 == tlsf_extract(h, idx, a, amt) IN
    /\ heap' = IF old = 0 THEN h1 ELSE tlsf_coalesce_and_insert(h1, old)
    /\ live' = [b \in (DOMAIN live \ {old}) \cup {a} |->
                  IF b = a THEN want ELSE live[b]]
    /\ refused' = 0
    /\ call' = Idle

\* tlsf_malloc(size) up to its result or its call of add_mem_func.
Allocate(size, old, want) ==
  LET amt == block_units(size)
      idx == round_next_tlsf_size(amt)
      bin == tlsf_find_blk(heap, idx)
  IN  /\ UNCHANGED <<pools, top>>
      /\ \/ /\ too_big(size)
            /\ Refuse(size)
            /\ UNCHANGED heap
         \/ /\ ~too_big(size) /\ idx = None
            /\ Refuse(amt)
            /\ UNCHANGED heap
         \/ /\ ~too_big(size) /\ idx # None /\ bin # None
            /\ Grant(heap, bin, amt, old, want)
         \/ /\ ~too_big(size) /\ idx # None /\ bin = None
            /\ call' = [amt |-> amt, idx |-> idx, old |-> old, want |-> want,
                        again |-> FALSE]
            /\ refused' = 0
            /\ UNCHANGED <<heap, live>>

\* tlsf_malloc(size), and tlsf_realloc of a null pointer to size.
Malloc(size) == Ready /\ Allocate(size, 0, size)

\* add_mem_func returns memory: it becomes a pool and the search is repeated.
MoreMem ==
  LET len == more_amt(call.amt)
      h   == add_pool_blocks(heap, top, len)
      bin == tlsf_find_blk(h, call.idx)
  IN  /\ call # Idle
      /\ top + len - 1 <= MemLen
      /\ pools' = pools \cup {PoolAt(top, len)}
      /\ top' = top + len
      /\ \/ /\ bin # None
            /\ Grant(h, bin, call.amt, call.old, call.want)
         \/ /\ bin = None
            /\ heap' = h
            /\ call' = [call EXCEPT !.again = TRUE]
            /\ UNCHANGED <<live, refused>>

\* add_mem_func returns NULL, or none is set.
NoMoreMem ==
  /\ call # Idle
  /\ Refuse(call.amt)
  /\ UNCHANGED <<heap, pools, top>>

\* tlsf_free(b), and tlsf_realloc(b, 0).  Of a null pointer both do nothing.
Free(b) ==
  /\ Ready
  /\ heap' = tlsf_coalesce_and_insert(heap, b)
  /\ live' = [c \in DOMAIN live \ {b} |-> live[c]]
  /\ refused' = 0
  /\ UNCHANGED <<pools, top, call>>

\* tlsf_realloc of a block the caller holds to size > 0 units.
Realloc(b, size) ==
  LET newamt == size + 1
      sz     == heap.hdr[b].sz
      n      == b + sz
      fits   == ~heap.hdr[n].alloc /\ newamt - sz <= heap.hdr[n].sz
      Resized == /\ live' = [live EXCEPT ![b] = size]
                 /\ refused' = 0
                 /\ UNCHANGED <<pools, top, call>>
  IN  /\ Ready
      /\ \/ /\ size > SzMod - 2         \* round2u wraps, or MAX_ALLOC
            /\ Refuse(size)
            /\ UNCHANGED <<heap, pools, top>>
         \/ /\ sz >= newamt
            /\ heap' = tlsf_shrink_blk(heap, b, newamt)
            /\ Resized
         \/ /\ size <= SzMod - 2 /\ sz < newamt /\ fits
            /\ heap' = grow_into_next(heap, b, newamt)
            /\ Resized
         \/ /\ size <= SzMod - 2 /\ sz < newamt /\ ~fits
            /\ Allocate(newamt, b, size)

Next ==
  \/ \E len \in PoolLens : AddPool(len)
  \/ \E size \in MallocSizes : Malloc(size)
  \/ MoreMem
  \/ NoMoreMem
  \/ \E b \in DOMAIN live : Free(b)
  \/ \E b \in DOMAIN live : \E size \in ReallocSizes : Realloc(b, size)

Spec == Init /\ [][Next]_vars

-----------------------------------------------------------------------------
(* Properties. *)

\* The blocks of a pool cover it, and no two overlap; every allocated block is one
\* the caller holds and the caller holds no other; the tags by which tlsf_free finds
\* the neighbours of a block are true; "aggressive coalescing" (src/dynmem.c:538):
\* no two free blocks touch.
BlocksSound ==
  ~heap.wild => /\ HeapTiled(heap, pools)
                /\ DOMAIN live = Blocks(heap) \ FreeBlocks(heap)
                /\ HeapTagged(heap)
                /\ HeapCoalesced(heap)

\* A free block is on the list of its size class and on no other, and a bitmap
\* bit is set exactly when a list below it is not empty.
BinsExact ==
  ~heap.wild =>
    /\ \A idx \in Bins :
         heap.bins[idx] = { a \in FreeBlocks(heap) : calc_tlsf_indices(heap.hdr[a].sz) = idx }
    /\ \A i \in L1 : heap.l2bm[i] = { j \in 0 .. (Pow2[L2Len] - 1) :
                                        <<i, j>> \in Bins /\ heap.bins[<<i, j>>] # {} }
    /\ heap.l1bm = { i \in L1 : heap.l2bm[i] # {} }

\* The good-fit promise: a request is refused only when no free block is as long
\* as the request rounded up to a multiple of its class's width.
Max2(a, b) == IF a >= b THEN a ELSE b
RefusedOnlyWithoutFit ==
  refused \in 1 .. (Pow2[NumL2] - 1) =>
    LET width == Pow2[Max2(0, Log2(refused) - L2Len)]
        up    == ((refused + width - 1) \div width) * width
    IN  \A a \in FreeBlocks(heap) : heap.hdr[a].sz < up

\* "should not get here twice" (src/dynmem.c:675): the memory add_mem_func
\* returned satisfies the request it was asked for.
NotHereTwice == ~call.again

\* "we never use bins for allocations of less that TLSF_MINSZ blocks"
\* (src/dynmem.c:397).
NoSmallBins == \A a \in UNION { heap.bins[i] : i \in Bins } : heap.hdr[a].sz >= MinNU

\* The units of the pools, and what belongs to the pointer behind each size word.
Arena == UNION { PoolUnits(p) : p \in pools }
Owned == [b \in DOMAIN live |->
            [lo |-> b + 1, len |-> heap.hdr[b].sz - 1, want |-> live[b]]]

\* What the callers rely on.
Alloc == INSTANCE Allocator WITH arena <- Arena, held <- Owned

ImplementsAllocator == Alloc!Spec
=============================================================================
