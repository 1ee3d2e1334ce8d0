------------------------------- MODULE DynMem -------------------------------
(***************************************************************************)
(* The next-fit manager of src/dynmem.c (struct dynmem): one circular list *)
(* of free blocks, searched from where the last search stopped.            *)
(*                                                                         *)
(* The list is modelled link by link, because what the code does depends   *)
(* on it: nxt and prv give the links stored at a block, the head dm_blocks *)
(* is address 0, and a word that a caller may have written over is Junk.   *)
(* A step that follows Junk, or that writes links where they do not fit,   *)
(* makes the heap wild: what happens from then on is not the program's.    *)
(***************************************************************************)
EXTENDS MemBlocks, FiniteSets, FiniteSetsExt

CONSTANTS
  PoolLens,      \* lengths a client passes to dynmem_add_pool
  MallocSizes,   \* sizes a client passes to dynmem_malloc
  ReallocSizes   \* sizes a client passes to dynmem_realloc

\* A pool has room for a block behind its header.  dynmem_add_pool asserts only that
\* it has MINNU + 2 units, the header's included, which can be too few.
ASSUME ClientAssumption ==
  /\ PoolLens \subseteq (PoolHdr + MinNU + 1) .. MemLen
  /\ MallocSizes \subseteq 1 .. SzMod
  /\ ReallocSizes \subseteq 1 .. SzMod

VARIABLES
  heap,     \* struct dynmem and the words of its pools that hold tags or links
  pools,    \* dm_pools
  top,      \* the memory below top is in use as a pool
  live,     \* blocks the caller holds -> the size last asked for
  call,     \* dynmem_malloc waiting for add_mem_func, or Idle
  refused,  \* the block size the last call could not provide, 0 if none
  resized   \* history: a block was resized where it is

vars == <<heap, pools, top, live, call, refused, resized>>

-----------------------------------------------------------------------------
(* The list (include/cat/list.h). *)

Head == 0
Junk == -1
Node == 0 .. MemLen

\* l_ins(prev, e), with its assertion prev->next && prev->next->prev == prev.
\* A block of less than MinNU units has no room for the links.
l_ins(h, prev, e) ==
  IF prev = Junk \/ h.hdr[e].sz < MinNU THEN [h EXCEPT !.wild = TRUE]
  ELSE IF h.nxt[prev] = Junk THEN [h EXCEPT !.wild = TRUE]
  ELSE IF h.prv[h.nxt[prev]] # prev THEN [h EXCEPT !.wild = TRUE]
  ELSE LET n  == h.nxt[prev]
           h1 == [h EXCEPT !.nxt[e] = n, !.prv[e] = prev]
           h2 == [h1 EXCEPT !.nxt[prev] = e]
       IN  [h2 EXCEPT !.prv[n] = e]

\* l_rem(e), with its assertions; e is left linked to itself.
l_rem(h, e) ==
  LET n == h.nxt[e]
      p == h.prv[e]
  IN  IF n = Junk \/ p = Junk THEN [h EXCEPT !.wild = TRUE]
      ELSE IF h.prv[n] # e \/ h.nxt[p] # e THEN [h EXCEPT !.wild = TRUE]
      ELSE LET h1 == [h EXCEPT !.nxt[p] = n]
               h2 == [h1 EXCEPT !.prv[n] = p]
           IN  [h2 EXCEPT !.nxt[e] = e, !.prv[e] = e]

\* The caller owns the block at a: its links are gone.
give(h, a, sz) ==
  LET h1 == set_alloc_mb(h, a, sz)
  IN  [h1 EXCEPT !.nxt = [b \in Node |-> IF a <= b /\ b < a + sz THEN Junk ELSE @[b]],
                 !.prv = [b \in Node |-> IF a <= b /\ b < a + sz THEN Junk ELSE @[b]]]

\* split_block: the block's first amt units and, behind it on the list, the
\* rest.  Less than MinNU units do not hold the links and the trailing size.
split_block(h, a, amt) ==
  LET t  == h.hdr[a]
      h1 == set_free_mb(h, a + amt, t.sz - amt, [t EXCEPT !.sz = t.sz - amt])
      h2 == l_ins(h1, a, a + amt)
      h3 == set_free_mb(h2, a, amt, [t EXCEPT !.sz = amt])
  IN  IF amt < MinNU THEN [h EXCEPT !.wild = TRUE] ELSE h3

\* Where coalesce leaves the block that is freed at mb.
coalesced_at(h, mb) == IF h.hdr[mb].palloc THEN mb ELSE mb - h.foot[mb - 1]

\* Fault: the block after the freed one still says its predecessor is allocated.
CoalesceKeepsPrevBit(h, mb) ==
  LET t  == h.hdr[mb]
      a  == coalesced_at(h, mb)
      n  == mb + t.sz
      sz == t.sz + (mb - a) + IF h.hdr[n].alloc THEN 0 ELSE h.hdr[n].sz
      h1 == IF t.palloc THEN h ELSE l_rem(h, a)
      h2 == IF h.hdr[n].alloc THEN h1 ELSE l_rem(h1, n)
  IN  set_free_mb(h2, a, sz, Tag(sz, FALSE, h2.hdr[a].palloc))

\* mark_free and coalesce: neighbours that are free leave the list.
coalesce(h, mb) ==
  LET t   == h.hdr[mb]
      a   == coalesced_at(h, mb)
      h0  == set_free_mb(h, mb, t.sz, [t EXCEPT !.alloc = FALSE])
      sz1 == t.sz + (mb - a)
      h1  == IF t.palloc THEN h0
             ELSE LET r == l_rem(h0, a)
                  IN  set_free_mb(r, a, sz1, [r.hdr[a] EXCEPT !.sz = sz1])
      n   == a + sz1
      sz2 == sz1 + h1.hdr[n].sz
  IN  IF h1.hdr[n].alloc THEN [h1 EXCEPT !.hdr[n].palloc = FALSE]
      ELSE LET r == l_rem(h1, n)
           IN  set_free_mb(r, a, sz2, [r.hdr[a] EXCEPT !.sz = sz2])

\* Fault: dm_current stays on a block that was merged away.
FreeKeepsCurrent(h, mb) ==
  LET h1 == coalesce(h, mb) IN l_ins(h1, h1.prv[h1.cur], coalesced_at(h, mb))

\* dynmem_free: coalesce, move dm_current out of the merged block, insert the
\* block before dm_current.
free_block(h, mb) ==
  LET a  == coalesced_at(h, mb)
      h1 == coalesce(h, mb)
      within == a <= h1.cur /\ h1.cur < a + h1.hdr[a].sz
      h2 == IF within THEN [h1 EXCEPT !.cur = a] ELSE h1
  IN  l_ins(h2, h2.prv[h2.cur], a)

add_pool_blocks(h, base, len) ==
  LET p  == PoolAt(base, len)
      h1 == [h EXCEPT !.hdr[p.start + p.ulen] = Tag(0, TRUE, FALSE),
                      !.hdr[p.start] = Tag(p.ulen, FALSE, TRUE)]
  IN  free_block(h1, p.start)

\* The nodes the search of dynmem_malloc visits: from dm_current along the next
\* links until it is back at dm_current.
visited(h) ==
  LET most == Cardinality(FreeBlocks(h)) + 1
      follow(a) == IF a = Junk THEN Junk ELSE h.nxt[a]
      at[k \in 0 .. most] == IF k = 0 THEN h.cur ELSE follow(at[k - 1])
      steps == { k \in 0 .. most : \A j \in 1 .. k : at[j] # h.cur }
  IN  [k \in steps |-> at[k]]

\* Every node the search visits is the head or a free block.
searchable(h) ==
  LET v == visited(h)
  IN  \A k \in DOMAIN v : v[k] = Head \/ (v[k] # Junk /\ v[k] \in FreeBlocks(h))

\* The first of them that is long enough, or Head.
first_fit(h, amt) ==
  LET v    == visited(h)
      fits == { k \in DOMAIN v : v[k] # Head /\ h.hdr[v[k]].sz >= amt }
  IN  IF fits = {} THEN Head ELSE v[Min(fits)]

\* Block a is given out, whole or in part, and the search resumes behind it.
take(h, a, amt) ==
  LET split == h.hdr[a].sz > amt + MinNU
      h1 == IF split THEN split_block(h, a, amt) ELSE h
      h2 == [h1 EXCEPT !.cur = h1.nxt[a]]
  IN  give(l_rem(h2, a), a, h1.hdr[a].sz)

shrink_alloc_block(h, mb, sz) ==
  LET t     == h.hdr[mb]
      n     == mb + t.sz
      joins == ~h.hdr[n].alloc
      nbsz  == t.sz - sz + IF joins THEN h.hdr[n].sz ELSE 0
      h1    == IF joins THEN l_rem(h, n) ELSE h
      h2    == set_free_mb(h1, mb + sz, nbsz, Tag(nbsz, FALSE, TRUE))
      h3    == l_ins(h2, h2.cur, mb + sz)
  IN  IF t.sz - sz < MinNU \/ (~joins /\ nbsz < MinShrink) THEN h
      ELSE [h3 EXCEPT !.hdr[mb].sz = sz]

\* dynmem_realloc's use of the free block that follows, which is long enough.
\* The part kept for the caller is what is left over, not what is needed.
grow_into_next(h, mb, newamt) ==
  LET t     == h.hdr[mb]
      n     == mb + t.sz
      delta == t.sz + h.hdr[n].sz - newamt
      h1    == IF h.hdr[n].sz > delta + MinNU THEN split_block(h, n, delta) ELSE h
  IN  IF h1.wild THEN h1 ELSE give(l_rem(h1, n), mb, t.sz + h1.hdr[n].sz)

-----------------------------------------------------------------------------
(* The calls. *)

Idle == [amt |-> 0, old |-> 0, want |-> 0, again |-> FALSE]

Init ==
  /\ heap = [hdr  |-> [a \in Addr |-> Garbage],
             foot |-> [a \in Addr |-> 0],
             nxt  |-> [a \in Node |-> IF a = Head THEN Head ELSE Junk],
             prv  |-> [a \in Node |-> IF a = Head THEN Head ELSE Junk],
             cur  |-> Head,
             wild |-> FALSE]
  /\ pools = {}
  /\ top = 1
  /\ live = << >>
  /\ call = Idle
  /\ refused = 0
  /\ resized = FALSE

\* The process is between two calls and its heap has not been overwritten.
Ready == call = Idle /\ ~heap.wild

AddPool(len) ==
  /\ Ready
  /\ top + len - 1 <= MemLen
  /\ heap' = add_pool_blocks(heap, top, len)
  /\ pools' = pools \cup {PoolAt(top, len)}
  /\ top' = top + len
  /\ refused' = 0
  /\ UNCHANGED <<live, call, resized>>

\* A block for size units; the sum may wrap or exceed MAX_ALLOC.
block_units(size) == IF size + 1 < MinNU THEN MinNU ELSE size + 1
too_big(size) == size + 1 > SzMod - 1

Refuse(amt) ==
  /\ refused' = amt
  /\ call' = Idle
  /\ UNCHANGED live

\* The first fit of h is given out; a realloc then moves to it and frees its old
\* block.
Grant(h, amt, old, want) ==
  LET a  == first_fit(h, amt)
      h1 == take(h, a, amt)
  IN  /\ heap' = IF old = 0 \/ h1.wild THEN h1 ELSE free_block(h1, old)
      /\ live' = [b \in (DOMAIN live \ {old}) \cup {a} |->
                    IF b = a THEN want ELSE live[b]]
      /\ refused' = 0
      /\ call' = Idle

\* The search follows links a caller may have written over.
Stray(h) ==
  /\ heap' = [h EXCEPT !.wild = TRUE]
  /\ UNCHANGED <<live, call, refused>>

\* dynmem_malloc(size) up to its result or its call of add_mem_func.
Allocate(size, old, want) ==
  LET amt == block_units(size) IN
  /\ UNCHANGED <<pools, top, resized>>
  /\ \/ /\ too_big(size)
        /\ Refuse(size)
        /\ UNCHANGED heap
     \/ /\ ~too_big(size) /\ ~searchable(heap)
        /\ Stray(heap)
     \/ /\ ~too_big(size) /\ searchable(heap) /\ first_fit(heap, amt) # Head
        /\ Grant(heap, amt, old, want)
     \/ /\ ~too_big(size) /\ searchable(heap) /\ first_fit(heap, amt) = Head
        /\ call' = [amt |-> amt, old |-> old, want |-> want, again |-> FALSE]
        /\ refused' = 0
        /\ UNCHANGED <<heap, live>>

\* dynmem_malloc(size), and dynmem_realloc of a null pointer to size.
Malloc(size) == Ready /\ Allocate(size, 0, size)

\* add_mem_func returns memory: it becomes a pool and the search is repeated.
MoreMem ==
  LET len == more_amt(call.amt)
      h   == add_pool_blocks(heap, top, len)
  IN  /\ call # Idle /\ ~heap.wild
      /\ UNCHANGED resized
      /\ top + len - 1 <= MemLen
      /\ pools' = pools \cup {PoolAt(top, len)}
      /\ top' = top + len
      /\ \/ /\ h.wild \/ ~searchable(h)
            /\ Stray(h)
         \/ /\ ~h.wild /\ searchable(h) /\ first_fit(h, call.amt) # Head
            /\ Grant(h, call.amt, call.old, call.want)
         \/ /\ ~h.wild /\ searchable(h) /\ first_fit(h, call.amt) = Head
            /\ heap' = h
            /\ call' = [call EXCEPT !.again = TRUE]
            /\ UNCHANGED <<live, refused>>

\* add_mem_func returns NULL, or none is set.
NoMoreMem ==
  /\ call # Idle /\ ~heap.wild
  /\ Refuse(call.amt)
  /\ UNCHANGED <<heap, pools, top, resized>>

\* dynmem_free(b), and dynmem_realloc(b, 0).  Of a null pointer both do nothing.
Free(b) ==
  /\ Ready
  /\ heap' = free_block(heap, b)
  /\ live' = [c \in DOMAIN live \ {b} |-> live[c]]
  /\ refused' = 0
  /\ UNCHANGED <<pools, top, call, resized>>

\* dynmem_realloc of a block the caller holds to size > 0 units.
Realloc(b, size) ==
  LET newamt == size + 1
      sz     == heap.hdr[b].sz
      n      == b + sz
      fits   == ~heap.hdr[n].alloc /\ sz + heap.hdr[n].sz >= newamt
      Resized == /\ live' = [live EXCEPT ![b] = size]
                 /\ refused' = 0
                 /\ resized' = TRUE
                 /\ UNCHANGED <<pools, top, call>>
  IN  /\ Ready
      /\ \/ /\ size > SzMod - 2         \* round2u wraps, or MAX_ALLOC
            /\ Refuse(size)
            /\ UNCHANGED <<heap, pools, top, resized>>
         \/ /\ sz >= newamt
            /\ heap' = shrink_alloc_block(heap, b, newamt)
            /\ Resized
         \/ /\ size <= SzMod - 2 /\ sz < newamt /\ fits
            /\ heap' = grow_into_next(heap, b, newamt)
            /\ Resized
         \/ /\ size <= SzMod - 2 /\ sz < newamt /\ ~fits
            /\ Allocate(newamt, b, size)

Next ==
  \/ \E len \in PoolLens : AddPool(len)
  \/ \E size \in MallocSizes : Malloc(size)
  \/ MoreMem
  \/ NoMoreMem
  \/ \E b \in DOMAIN live : Free(b)
  \/ \E b \in DOMAIN live : \E size \in ReallocSizes : Realloc(b, size)

Spec == Init /\ [][Next]_vars

-----------------------------------------------------------------------------
(* Properties. *)

\* The blocks of a pool cover it, and no two overlap; every allocated block is one
\* the caller holds and the caller holds no other.  The tags by which dynmem_free
\* finds the neighbours of a block are true, until a block was shrunk:
\* shrink_alloc_block does not clear the PREV_ALLOC_BIT behind the block it makes.
BlocksSound ==
  ~heap.wild => /\ HeapTiled(heap, pools)
                /\ DOMAIN live = Blocks(heap) \ FreeBlocks(heap)
                /\ ~resized => HeapTagged(heap)

\* "we are using aggressive coalescing" (src/dynmem.c:94).
Coalesced == ~heap.wild => HeapCoalesced(heap)

\* The caller may use as many units as it asked for last.
LongEnough == ~heap.wild => \A b \in DOMAIN live : live[b] <= heap.hdr[b].sz - 1

\* The links of free blocks are those of circular lists: next and prev agree.  (A
\* resize may insert next to dm_current when that is the block just taken off.)
LinksAgree ==
  ~heap.wild /\ ~resized =>
    \A a \in FreeBlocks(heap) \cup {Head} :
      /\ heap.nxt[a] \in FreeBlocks(heap) \cup {Head}
      /\ heap.prv[heap.nxt[a]] = a

\* A request is refused only when no free block is long enough: the next-fit
\* search visits them all.
RefusedOnlyWithoutFit ==
  refused # 0 /\ ~heap.wild => \A a \in FreeBlocks(heap) : heap.hdr[a].sz < refused

\* list.h's assertion "prev->next && prev->next->prev == prev" holds wherever
\* the manager inserts a block, and no search leaves the free blocks.
NeverWild == ~heap.wild
=============================================================================
