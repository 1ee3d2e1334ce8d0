----------------------------- MODULE TlsfProofs -----------------------------
(***************************************************************************)
(* Proofs about Tlsf, for memories, pools, requests and size classes of    *)
(* any size: every operation recuts a region of whole blocks into one      *)
(* block, or one and a free one behind it, which keeps the layout and the  *)
(* bins; the classes cut the sizes into intervals, so that what is found   *)
(* is long enough and what is refused was not there; and each call is one  *)
(* step of Allocator.                                                      *)
(***************************************************************************)
EXTENDS Tlsf, WellFoundedInduction, TLAPS

-----------------------------------------------------------------------------
(* Heaps and their layout.                                                   *)

HdrT == [sz : Nat, alloc : BOOLEAN, palloc : BOOLEAN]
HeapT == [hdr  : [Addr -> HdrT], foot : [Addr -> Nat],
          bins : [Bins -> SUBSET Addr], l1bm : SUBSET L1, l2bm : [L1 -> SUBSET Nat],
          wild : BOOLEAN]

PoolEnd(p) == p.start + p.ulen

\* Pools with their headers and sentinels lie below e and apart from each other.
PoolsApart(P, e) ==
  /\ P \subseteq [start : Nat, ulen : Nat]
  /\ \A p \in P : p.ulen > 0 /\ PoolHdr < p.start /\ PoolEnd(p) < e
  /\ \A p, q \in P : p # q => PoolEnd(p) < q.start \/ PoolEnd(q) < p.start

\* Every block lies in a pool.
Placed(h, P) ==
  \A a \in Blocks(h) : \E p \in P : p.start <= a /\ a + h.hdr[a].sz <= PoolEnd(p)

\* Every unit of a pool lies in a block.
Covered(h, P) ==
  \A p \in P : \A u \in PoolUnits(p) :
    \E a \in Blocks(h) : a <= u /\ u < a + h.hdr[a].sz

\* No two blocks overlap.
Apart(h) == \A a, b \in Blocks(h) : a < b => a + h.hdr[a].sz <= b

\* The sentinel of a pool is an allocated block of no units, and nothing is free
\* in front of its first block.
Ended(h, P) ==
  \A p \in P : /\ h.hdr[PoolEnd(p)].sz = 0
               /\ h.hdr[PoolEnd(p)].alloc = TRUE
               /\ h.hdr[p.start].palloc = TRUE

Layout(h, P) ==
  /\ Placed(h, P) /\ Covered(h, P) /\ Apart(h) /\ Ended(h, P)
  /\ HeapTagged(h) /\ HeapCoalesced(h)

\* The units from lo up to hi are some of the blocks of a pool.
Region(h, P, lo, hi) ==
  /\ lo \in Blocks(h) /\ hi \in Addr /\ lo < hi
  /\ \E p \in P : p.start <= lo /\ hi <= PoolEnd(p)
  /\ \A b \in Blocks(h) : \/ b + h.hdr[b].sz <= lo
                          \/ hi <= b
                          \/ lo <= b /\ b + h.hdr[b].sz <= hi

\* In g the units from lo up to hi of h are one block up to m, allocated or not,
\* and a free one behind it.
Recut(h, g, lo, m, hi, al) ==
  /\ \A b \in Addr : b < lo \/ hi < b => g.hdr[b] = h.hdr[b]
  /\ \A b \in Addr : b < lo \/ hi <= b => g.foot[b] = h.foot[b]
  /\ g.hdr[lo].sz = m - lo /\ g.hdr[lo].alloc = al /\ g.hdr[lo].palloc = h.hdr[lo].palloc
  /\ m < hi => /\ g.hdr[m].sz = hi - m /\ g.hdr[m].alloc = FALSE /\ g.hdr[m].palloc = TRUE
               /\ al = TRUE
  /\ \A b \in Addr : lo < b /\ b < hi /\ b # m => g.hdr[b].sz = 0
  /\ g.hdr[hi].sz = h.hdr[hi].sz /\ g.hdr[hi].alloc = h.hdr[hi].alloc
  /\ g.hdr[hi].palloc = (m = hi /\ al = TRUE)
  /\ m < hi => g.foot[hi - 1] = hi - m
  /\ m = hi /\ al = FALSE => g.foot[hi - 1] = hi - lo

\* The blocks a recut leaves: those outside of the region, its first one, and the
\* free one behind it.
Leaves(h, g, lo, m, hi, al) ==
  /\ \A b \in Addr : b < lo \/ hi <= b => /\ g.hdr[b].sz = h.hdr[b].sz
                                          /\ g.hdr[b].alloc = h.hdr[b].alloc
  /\ \A b : b \in Blocks(g) <=> \/ b \in Blocks(h) /\ (b < lo \/ hi <= b)
                                \/ b = lo
                                \/ b = m /\ m < hi
  /\ \A b : b \in FreeBlocks(g) <=> \/ b \in FreeBlocks(h) /\ (b < lo \/ hi <= b)
                                    \/ b = lo /\ al = FALSE
                                    \/ b = m /\ m < hi
  /\ \A b \in Blocks(h) : b < lo => b + h.hdr[b].sz <= lo

-----------------------------------------------------------------------------
(* Neighbours.                                                               *)

\* The unit after a block is the next block or the sentinel.
LEMMA NextOf ==
  ASSUME NEW h \in HeapT, NEW P, NEW e \in 1 .. MemLen + 1, PoolsApart(P, e), Layout(h, P),
         NEW a \in Blocks(h)
  PROVE  /\ a + h.hdr[a].sz \in Addr /\ a < a + h.hdr[a].sz
         /\ \/ a + h.hdr[a].sz \in Blocks(h)
            \/ \E p \in P : a + h.hdr[a].sz = PoolEnd(p)
<1> DEFINE n == a + h.hdr[a].sz
<1>1. PICK p \in P : p.start <= a /\ n <= PoolEnd(p)
  BY DEF Layout, Placed
<1>2. p.start \in Nat /\ p.ulen \in Nat /\ PoolHdr < p.start /\ PoolEnd(p) < e
  BY DEF PoolsApart
<1>3. a \in Addr /\ h.hdr[a].sz \in Nat /\ h.hdr[a].sz > 0
  BY DEF Blocks, HeapT, HdrT
<1>4. n \in Addr /\ a < n
  BY <1>1, <1>2, <1>3, BlockAssumption DEF Addr, PoolEnd
<1>5. ASSUME n # PoolEnd(p) PROVE n \in Blocks(h)
  <2>1. n \in PoolUnits(p)
    BY <1>1, <1>2, <1>4, <1>3, <1>5 DEF PoolUnits, PoolEnd, Addr
  <2>2. PICK b \in Blocks(h) : b <= n /\ n < b + h.hdr[b].sz
    BY <2>1 DEF Layout, Covered
  <2>3. b \in Addr /\ h.hdr[b].sz \in Nat
    BY DEF Blocks, HeapT, HdrT
  <2>4. ~ (b < a) /\ ~ (a < b /\ b < n) /\ b # a
    <3>1. b < a => b + h.hdr[b].sz <= a
      BY DEF Layout, Apart
    <3>2. a < b => n <= b
      BY DEF Layout, Apart
    <3> QED
      BY <3>1, <3>2, <2>2, <2>3, <1>3, <1>4 DEF Addr
  <2> QED
    BY <2>2, <2>3, <2>4, <1>3, <1>4 DEF Addr
<1> QED
  BY <1>4, <1>5

\* A unit of a pool, not its first, is the end of a block if it is the start of
\* one or the sentinel.
LEMMA PrevOf ==
  ASSUME NEW h \in HeapT, NEW P, NEW e \in 1 .. MemLen + 1, PoolsApart(P, e), Layout(h, P),
         NEW p \in P, NEW n \in Addr, p.start < n, n <= PoolEnd(p),
         n \in Blocks(h) \/ n = PoolEnd(p)
  PROVE  \E a \in Blocks(h) : a + h.hdr[a].sz = n
<1>1. p.start \in Nat /\ p.ulen \in Nat /\ PoolHdr < p.start /\ PoolHdr \in Nat
  BY BlockAssumption DEF PoolsApart
<1>2. n - 1 \in PoolUnits(p)
  BY <1>1 DEF PoolUnits, PoolEnd, Addr
<1>3. PICK a \in Blocks(h) : a <= n - 1 /\ n - 1 < a + h.hdr[a].sz
  BY <1>2 DEF Layout, Covered
<1>4. a \in Addr /\ h.hdr[a].sz \in Nat /\ h.hdr[a].sz > 0
  BY DEF Blocks, HeapT, HdrT
<1>5. CASE n \in Blocks(h)
  <2>1. a < n => a + h.hdr[a].sz <= n
    BY <1>5 DEF Layout, Apart
  <2> QED
    BY <2>1, <1>3, <1>4 DEF Addr
<1>6. CASE n = PoolEnd(p)
  <2>1. PICK q \in P : q.start <= a /\ a + h.hdr[a].sz <= PoolEnd(q)
    BY DEF Layout, Placed
  <2>2. q.start \in Nat /\ q.ulen \in Nat
    BY DEF PoolsApart
  <2>3. a \in PoolUnits(p) \/ a < p.start
    BY <1>1, <1>3, <1>4, <1>6 DEF PoolUnits, PoolEnd, Addr
  <2>4. p = q
    <3> SUFFICES ASSUME p # q PROVE FALSE
      OBVIOUS
    <3>1. PoolEnd(p) < q.start \/ PoolEnd(q) < p.start
      BY DEF PoolsApart
    <3> QED
      BY <3>1, <2>1, <2>2, <1>1, <1>2, <1>3, <1>4, <1>6 DEF PoolEnd, Addr, PoolUnits
  <2> QED
    BY <2>1, <2>4, <1>3, <1>4, <1>6 DEF Addr
<1> QED
  BY <1>5, <1>6

-----------------------------------------------------------------------------
(* Regions.                                                                  *)

\* A block is a region.
LEMMA RegionOne ==
  ASSUME NEW h \in HeapT, NEW P, NEW e \in 1 .. MemLen + 1, PoolsApart(P, e), Layout(h, P),
         NEW a \in Blocks(h)
  PROVE  Region(h, P, a, a + h.hdr[a].sz)
<1>1. a + h.hdr[a].sz \in Addr /\ a < a + h.hdr[a].sz
  BY NextOf
<1>2. \E p \in P : p.start <= a /\ a + h.hdr[a].sz <= PoolEnd(p)
  BY DEF Layout, Placed
<1>3. ASSUME NEW b \in Blocks(h)
      PROVE  \/ b + h.hdr[b].sz <= a
             \/ a + h.hdr[a].sz <= b
             \/ a <= b /\ b + h.hdr[b].sz <= a + h.hdr[a].sz
  <2>1. a \in Addr /\ b \in Addr /\ h.hdr[a].sz \in Nat
    BY DEF Blocks, HeapT, HdrT
  <2>2. b < a => b + h.hdr[b].sz <= a
    BY DEF Layout, Apart
  <2>3. a < b => a + h.hdr[a].sz <= b
    BY DEF Layout, Apart
  <2> QED
    BY <2>1, <2>2, <2>3 DEF Addr
<1> QED
  BY <1>1, <1>2, <1>3 DEF Region

\* A region and the block that follows it are one.
LEMMA RegionJoin ==
  ASSUME NEW h \in HeapT, NEW P, NEW e \in 1 .. MemLen + 1, PoolsApart(P, e), Layout(h, P),
         NEW lo, NEW n \in Blocks(h), Region(h, P, lo, n)
  PROVE  Region(h, P, lo, n + h.hdr[n].sz)
<1> DEFINE hi == n + h.hdr[n].sz
<1>1. hi \in Addr /\ n < hi
  BY NextOf
<1>2. lo \in Blocks(h) /\ lo \in Addr /\ n \in Addr /\ lo < n /\ h.hdr[n].sz \in Nat /\ h.hdr[n].sz > 0
  BY DEF Region, Blocks, HeapT, HdrT
<1>3. PICK p \in P : p.start <= lo /\ n <= PoolEnd(p)
  BY DEF Region
<1>4. PICK q \in P : q.start <= n /\ hi <= PoolEnd(q)
  BY DEF Layout, Placed
<1>5. p.start \in Nat /\ p.ulen \in Nat /\ q.start \in Nat /\ q.ulen \in Nat
  BY DEF PoolsApart
<1>6. n # PoolEnd(p)
  BY <1>2 DEF Layout, Ended
<1>7. p = q
  <2> SUFFICES ASSUME p # q PROVE FALSE
    OBVIOUS
  <2>1. PoolEnd(p) < q.start \/ PoolEnd(q) < p.start
    BY DEF PoolsApart
  <2> QED
    BY <2>1, <1>1, <1>2, <1>3, <1>4, <1>5, <1>6 DEF PoolEnd, Addr
<1>8. ASSUME NEW b \in Blocks(h)
      PROVE  b + h.hdr[b].sz <= lo \/ hi <= b \/ (lo <= b /\ b + h.hdr[b].sz <= hi)
  <2>1. b \in Addr /\ h.hdr[b].sz \in Nat
    BY DEF Blocks, HeapT, HdrT
  <2>2. b + h.hdr[b].sz <= lo \/ n <= b \/ (lo <= b /\ b + h.hdr[b].sz <= n)
    BY DEF Region
  <2>3. n < b => hi <= b
    BY DEF Layout, Apart
  <2> QED
    BY <2>1, <2>2, <2>3, <1>1, <1>2 DEF Addr
<1> QED
  BY <1>1, <1>2, <1>3, <1>4, <1>7, <1>8 DEF Region, Addr

LEMMA RecutBlocks ==
  ASSUME NEW h \in HeapT, NEW g \in HeapT, NEW P, Layout(h, P),
         NEW lo, NEW m \in Int, NEW hi, NEW al \in BOOLEAN, Region(h, P, lo, hi),
         lo < m, m <= hi, Recut(h, g, lo, m, hi, al)
  PROVE  Leaves(h, g, lo, m, hi, al)
<1>1. lo \in Addr /\ hi \in Addr /\ m \in Addr /\ lo < hi /\ lo \in Blocks(h)
  <2>1. lo \in Addr /\ hi \in Addr /\ lo \in Blocks(h)
    BY DEF Region, Blocks
  <2> QED
    BY <2>1, BlockAssumption DEF Addr
<1>2. ASSUME NEW b \in Addr, b < lo \/ hi <= b
      PROVE  g.hdr[b].sz = h.hdr[b].sz /\ g.hdr[b].alloc = h.hdr[b].alloc
  <2>1. CASE b = hi
    BY <2>1 DEF Recut
  <2>2. CASE b # hi
    <3>1. b < lo \/ hi < b
      BY <1>1, <1>2, <2>2 DEF Addr
    <3>2. g.hdr[b] = h.hdr[b]
      BY <3>1 DEF Recut
    <3> QED
      BY <3>2
  <2> QED
    BY <2>1, <2>2
<1>3. g.hdr[lo].sz = m - lo /\ g.hdr[lo].alloc = al
  BY DEF Recut
<1>4. m < hi => g.hdr[m].sz = hi - m /\ g.hdr[m].alloc = FALSE /\ al = TRUE
  BY DEF Recut
<1>5. \A b \in Addr : lo < b /\ b < hi /\ b # m => g.hdr[b].sz = 0
  BY DEF Recut
<1>6. ASSUME NEW b \in Addr
      PROVE  b \in Blocks(g) <=> \/ b \in Blocks(h) /\ (b < lo \/ hi <= b)
                                 \/ b = lo
                                 \/ b = m /\ m < hi
  <2>1. CASE b < lo \/ hi <= b
    BY <1>1, <1>2, <2>1 DEF Blocks, Addr
  <2>2. CASE b = lo
    BY <1>1, <1>3, <2>2 DEF Blocks, Addr
  <2>3. CASE b = m /\ m < hi
    BY <1>1, <1>4, <2>3 DEF Blocks, Addr
  <2>4. CASE lo < b /\ b < hi /\ b # m
    BY <1>1, <1>5, <2>4 DEF Blocks, Addr
  <2> QED
    BY <1>1, <2>1, <2>2, <2>3, <2>4 DEF Addr
<1>7. ASSUME NEW b \in Addr
      PROVE  b \in FreeBlocks(g) <=> \/ b \in FreeBlocks(h) /\ (b < lo \/ hi <= b)
                                     \/ b = lo /\ al = FALSE
                                     \/ b = m /\ m < hi
  <2>1. CASE b < lo \/ hi <= b
    BY <1>1, <1>2, <1>6, <2>1 DEF FreeBlocks, Addr
  <2>2. CASE b = lo
    BY <1>1, <1>3, <1>6, <2>2 DEF FreeBlocks, Addr
  <2>3. CASE b = m /\ m < hi
    <3>1. b \in Blocks(g)
      BY <1>6, <2>3
    <3>2. g.hdr[b].alloc = FALSE
      BY <1>4, <2>3
    <3>3. b \in FreeBlocks(g)
      BY <3>1, <3>2 DEF FreeBlocks
    <3> QED
      BY <2>3, <3>3
  <2>4. CASE lo < b /\ b < hi /\ b # m
    BY <1>1, <1>6, <2>4 DEF FreeBlocks, Addr
  <2>5. b < lo \/ hi <= b \/ b = lo \/ (b = m /\ m < hi) \/ (lo < b /\ b < hi /\ b # m)
    BY <1>1 DEF Addr
  <2> QED
    BY <2>1, <2>2, <2>3, <2>4, <2>5, Zenon
<1>8. ASSUME NEW b \in Blocks(h), b < lo PROVE b + h.hdr[b].sz <= lo
  BY <1>1, <1>8 DEF Layout, Apart
<1>9. Blocks(g) \subseteq Addr /\ Blocks(h) \subseteq Addr
  BY DEF Blocks
<1>10. FreeBlocks(g) \subseteq Addr /\ FreeBlocks(h) \subseteq Addr
  BY <1>9 DEF FreeBlocks
<1>11. \A b : b \in Blocks(g) <=> \/ b \in Blocks(h) /\ (b < lo \/ hi <= b)
                                  \/ b = lo
                                  \/ b = m /\ m < hi
  BY <1>1, <1>6, <1>9
<1>12. \A b : b \in FreeBlocks(g) <=> \/ b \in FreeBlocks(h) /\ (b < lo \/ hi <= b)
                                      \/ b = lo /\ al = FALSE
                                      \/ b = m /\ m < hi
  BY <1>1, <1>7, <1>10
<1> QED
  BY <1>2, <1>8, <1>11, <1>12 DEF Leaves

\* A recut keeps the layout if nothing free comes before or behind what it frees.
LEMMA RecutKeeps ==
  ASSUME NEW h \in HeapT, NEW g \in HeapT, NEW P, NEW e \in 1 .. MemLen + 1,
         PoolsApart(P, e), Layout(h, P),
         NEW lo, NEW m \in Int, NEW hi, NEW al \in BOOLEAN, Region(h, P, lo, hi),
         lo < m, m <= hi, Recut(h, g, lo, m, hi, al),
         m < hi \/ al = FALSE => h.hdr[hi].alloc = TRUE,
         al = FALSE => h.hdr[lo].palloc = TRUE
  PROVE  Layout(g, P)
<1> DEFINE Out(b) == b \in Blocks(h) /\ (b < lo \/ hi <= b)
<1>1. /\ lo \in Addr /\ hi \in Addr /\ lo \in Blocks(h)
      /\ lo \in Int /\ hi \in Int /\ m \in Int /\ lo < hi
  <2>1. lo \in Addr /\ hi \in Addr /\ lo \in Blocks(h) /\ lo < hi
    BY DEF Region, Blocks
  <2> QED
    BY <2>1 DEF Addr
<1>0. Leaves(h, g, lo, m, hi, al)
  BY RecutBlocks
<1>2. \A b \in Addr : b < lo \/ hi <= b => /\ g.hdr[b].sz = h.hdr[b].sz
                                           /\ g.hdr[b].alloc = h.hdr[b].alloc
  BY <1>0 DEF Leaves
<1>3. \A b : b \in Blocks(g) <=> Out(b) \/ b = lo \/ (b = m /\ m < hi)
  BY <1>0 DEF Leaves
<1>4. \A b : b \in FreeBlocks(g) <=> \/ b \in FreeBlocks(h) /\ (b < lo \/ hi <= b)
                                     \/ b = lo /\ al = FALSE
                                     \/ b = m /\ m < hi
  BY <1>0 DEF Leaves
<1>5. \A b \in Blocks(h) : b < lo => b + h.hdr[b].sz <= lo
  BY <1>0 DEF Leaves
<1>6. g.hdr[lo].sz = m - lo /\ g.hdr[lo].alloc = al /\ g.hdr[lo].palloc = h.hdr[lo].palloc
  BY DEF Recut
<1>7. m < hi => /\ g.hdr[m].sz = hi - m /\ g.hdr[m].alloc = FALSE /\ g.hdr[m].palloc = TRUE
                /\ al = TRUE
  BY DEF Recut
<1>8. PICK r \in P : r.start <= lo /\ hi <= PoolEnd(r)
  BY DEF Region
<1>9. ASSUME NEW b \in Blocks(h) PROVE b \in Addr /\ b \in Int /\ h.hdr[b].sz \in Nat /\ h.hdr[b].sz > 0
  <2>1. b \in Addr /\ h.hdr[b].sz > 0
    BY DEF Blocks
  <2>2. h.hdr[b].sz \in Nat
    BY <2>1 DEF HeapT, HdrT
  <2> QED
    BY <2>1, <2>2 DEF Addr
<1>10. ASSUME NEW p \in P
       PROVE  /\ p.start \in Nat /\ p.ulen \in Nat /\ p.start \in Addr /\ PoolEnd(p) \in Addr
              /\ p.start < PoolEnd(p) /\ PoolEnd(p) \in Int
  <2>1. p.start \in Nat /\ p.ulen \in Nat /\ p.ulen > 0 /\ PoolHdr < p.start /\ PoolEnd(p) < e
    BY DEF PoolsApart
  <2> QED
    BY <2>1, BlockAssumption DEF PoolEnd, Addr
<1>11. Placed(g, P)
  <2> SUFFICES ASSUME NEW a \in Blocks(g)
               PROVE  \E p \in P : p.start <= a /\ a + g.hdr[a].sz <= PoolEnd(p)
    BY DEF Placed
  <2>1. CASE Out(a)
    <3>1. g.hdr[a].sz = h.hdr[a].sz
      BY <1>2, <1>9, <2>1
    <3> QED
      BY <3>1, <2>1 DEF Layout, Placed
  <2>2. CASE a = lo
    <3>1. r.start <= a /\ a + g.hdr[a].sz <= PoolEnd(r)
      BY <1>1, <1>6, <1>8, <1>10, <2>2
    <3> QED
      BY <3>1
  <2>3. CASE a = m /\ m < hi
    <3>1. r.start <= a /\ a + g.hdr[a].sz <= PoolEnd(r)
      BY <1>1, <1>7, <1>8, <1>10, <2>3
    <3> QED
      BY <3>1
  <2> QED
    BY <1>3, <2>1, <2>2, <2>3
<1>12. Covered(g, P)
  <2> SUFFICES ASSUME NEW p \in P, NEW u \in PoolUnits(p)
               PROVE  \E a \in Blocks(g) : a <= u /\ u < a + g.hdr[a].sz
    BY DEF Covered
  <2>1. u \in Int
    BY <1>10 DEF PoolUnits
  <2>2. CASE lo <= u /\ u < m
    BY <1>1, <1>3, <1>6, <2>1, <2>2
  <2>3. CASE m <= u /\ u < hi
    BY <1>1, <1>3, <1>7, <2>1, <2>3
  <2>4. CASE u < lo \/ hi <= u
    <3>1. PICK a \in Blocks(h) : a <= u /\ u < a + h.hdr[a].sz
      BY DEF Layout, Covered
    <3>2. a < lo \/ hi <= a
      <4>1. a + h.hdr[a].sz <= lo \/ hi <= a \/ (lo <= a /\ a + h.hdr[a].sz <= hi)
        BY DEF Region
      <4> QED
        BY <4>1, <3>1, <1>1, <1>9, <2>1, <2>4
    <3>3. g.hdr[a].sz = h.hdr[a].sz /\ a \in Blocks(g)
      BY <3>2, <1>2, <1>3, <1>9
    <3> QED
      BY <3>1, <3>3
  <2> QED
    BY <1>1, <2>1, <2>2, <2>3, <2>4
<1>13. Apart(g)
  <2> SUFFICES ASSUME NEW a \in Blocks(g), NEW b \in Blocks(g), a < b
               PROVE  a + g.hdr[a].sz <= b
    BY DEF Apart
  <2>1. CASE Out(a) /\ Out(b)
    <3>1. g.hdr[a].sz = h.hdr[a].sz /\ a + h.hdr[a].sz <= b
      BY <2>1, <1>2, <1>9 DEF Layout, Apart
    <3> QED
      BY <3>1
  <2>2. CASE Out(a) /\ ~ Out(b)
    <3>1. b = lo \/ (b = m /\ m < hi)
      BY <2>2, <1>3
    <3>2. a < lo
      <4>1. a \in Int /\ (a < lo \/ hi <= a) /\ b < hi
        BY <3>1, <2>2, <1>1, <1>9
      <4> QED
        BY <4>1, <3>1, <1>1
    <3>3. g.hdr[a].sz = h.hdr[a].sz /\ a + h.hdr[a].sz <= lo
      BY <2>2, <3>2, <1>2, <1>5, <1>9
    <3>4. lo <= b /\ b \in Int
      BY <3>1, <1>1
    <3> QED
      BY <3>3, <3>4, <2>2, <1>1, <1>9
  <2>3. CASE a = lo
    <3>1. b = m \/ hi <= b
      <4>1. b # lo /\ ~ (b < lo)
        <5>1. b \in Int
          BY <1>1, <1>3, <1>9
        <5> QED
          BY <5>1, <2>3, <1>1
      <4> QED
        BY <4>1, <1>3
    <3> QED
      BY <3>1, <2>3, <1>1, <1>3, <1>6, <1>9
  <2>4. CASE a = m /\ m < hi
    <3>1. hi <= b
      BY <2>4, <1>1, <1>3, <1>9
    <3> QED
      BY <3>1, <2>4, <1>1, <1>3, <1>7, <1>9
  <2> QED
    BY <1>3, <2>1, <2>2, <2>3, <2>4
<1>14. Ended(g, P)
  <2> SUFFICES ASSUME NEW p \in P
               PROVE  /\ g.hdr[PoolEnd(p)].sz = 0
                      /\ g.hdr[PoolEnd(p)].alloc = TRUE
                      /\ g.hdr[p.start].palloc = TRUE
    BY DEF Ended
  <2>1. h.hdr[PoolEnd(p)].sz = 0 /\ h.hdr[PoolEnd(p)].alloc = TRUE /\ h.hdr[p.start].palloc = TRUE
    BY DEF Layout, Ended
  <2>2. p = r \/ PoolEnd(p) < r.start \/ PoolEnd(r) < p.start
    BY DEF PoolsApart
  <2>3. PoolEnd(p) < lo \/ hi <= PoolEnd(p)
    BY <2>2, <1>1, <1>8, <1>10
  <2>4. g.hdr[PoolEnd(p)].sz = 0 /\ g.hdr[PoolEnd(p)].alloc = TRUE
    BY <2>1, <2>3, <1>2, <1>10
  <2>5. p.start < lo \/ hi < p.start \/ p.start = lo
    BY <2>2, <1>1, <1>8, <1>10
  <2>6. CASE p.start = lo
    BY <2>6, <2>1, <2>4, <1>6
  <2>7. CASE p.start < lo \/ hi < p.start
    <3>1. g.hdr[p.start] = h.hdr[p.start]
      BY <2>7, <1>10 DEF Recut
    <3> QED
      BY <3>1, <2>1, <2>4
  <2> QED
    BY <2>5, <2>6, <2>7
<1>15. HeapTagged(g)
  <2> SUFFICES ASSUME NEW a \in Blocks(g), NEW n, n = a + g.hdr[a].sz
               PROVE  /\ g.hdr[n].palloc = g.hdr[a].alloc
                      /\ ~ g.hdr[a].alloc => g.foot[n - 1] = g.hdr[a].sz
    BY DEF HeapTagged
  <2>1. CASE Out(a)
    <3>1. g.hdr[a].sz = h.hdr[a].sz /\ g.hdr[a].alloc = h.hdr[a].alloc
      BY <2>1, <1>2, <1>9
    <3>2. /\ h.hdr[n].palloc = h.hdr[a].alloc
          /\ ~ h.hdr[a].alloc => h.foot[n - 1] = h.hdr[a].sz
      BY <2>1, <3>1 DEF Layout, HeapTagged
    <3>3. n \in Addr /\ a < n
      BY <2>1, <3>1, NextOf
    <3>4. n <= lo \/ hi < n
      BY <2>1, <3>1, <3>3, <1>1, <1>5, <1>9 DEF Addr
    <3>5. n - 1 \in Addr /\ (n - 1 < lo \/ hi <= n - 1)
      <4>1. a \in Int /\ a \in Addr /\ n \in Int
        BY <3>3, <2>1, <1>9 DEF Addr
      <4> QED
        BY <4>1, <3>3, <3>4, <1>1, BlockAssumption DEF Addr
    <3>6. g.foot[n - 1] = h.foot[n - 1]
      BY <3>5 DEF Recut
    <3>7. g.hdr[n].palloc = h.hdr[n].palloc
      <4>1. CASE n = lo
        BY <4>1, <1>6
      <4>2. CASE n # lo
        <5>1. n < lo \/ hi < n
          BY <4>2, <3>3, <3>4, <1>1 DEF Addr
        <5>2. g.hdr[n] = h.hdr[n]
          BY <5>1, <3>3 DEF Recut
        <5> QED
          BY <5>2
      <4> QED
        BY <4>1, <4>2
    <3> QED
      BY <3>1, <3>2, <3>6, <3>7
  <2>2. CASE a = lo /\ m < hi
    <3>1. n = m
      BY <2>2, <1>1, <1>6
    <3>2. g.hdr[a].alloc = TRUE /\ g.hdr[m].palloc = TRUE
      BY <2>2, <1>6, <1>7
    <3> QED
      BY <3>1, <3>2
  <2>3. CASE a = lo /\ m = hi
    <3>1. n = hi /\ g.hdr[a].sz = hi - lo
      BY <2>3, <1>1, <1>6
    <3>2. g.hdr[hi].palloc = (m = hi /\ al = TRUE)
      BY DEF Recut
    <3>3. al = FALSE => g.foot[hi - 1] = hi - lo
      BY <2>3 DEF Recut
    <3>4. g.hdr[a].alloc = al
      BY <2>3, <1>6
    <3> QED
      BY <3>1, <3>2, <3>3, <3>4, <2>3
  <2>4. CASE a = m /\ m < hi
    <3>1. n = hi /\ g.hdr[a].sz = hi - m /\ g.hdr[a].alloc = FALSE
      BY <2>4, <1>1, <1>7
    <3>2. g.hdr[hi].palloc = (m = hi /\ al = TRUE)
      BY DEF Recut
    <3>3. g.foot[hi - 1] = hi - m
      BY <2>4 DEF Recut
    <3>4. m # hi
      BY <2>4, <1>1
    <3> QED
      BY <3>1, <3>2, <3>3, <3>4
  <2> QED
    BY <1>1, <1>3, <2>1, <2>2, <2>3, <2>4
<1>16. HeapCoalesced(g)
  <2> SUFFICES ASSUME NEW a \in FreeBlocks(g), NEW b \in FreeBlocks(g), a + g.hdr[a].sz = b
               PROVE  FALSE
    BY DEF HeapCoalesced
  <2>1. ASSUME NEW c \in FreeBlocks(h), c < lo \/ hi <= c
        PROVE  /\ Out(c) /\ g.hdr[c].sz = h.hdr[c].sz /\ c \in Int /\ h.hdr[c].sz \in Nat
               /\ h.hdr[c].sz > 0 /\ h.hdr[c].alloc = FALSE
    <3>1. c \in Blocks(h) /\ ~ h.hdr[c].alloc /\ h.hdr[c].alloc \in BOOLEAN
      BY DEF FreeBlocks, Blocks, HeapT, HdrT
    <3> QED
      BY <3>1, <2>1, <1>2, <1>9
  <2>2. ASSUME b \in FreeBlocks(h), b < lo \/ hi <= b, a \in FreeBlocks(h), a < lo \/ hi <= a
        PROVE  FALSE
    <3>1. a + h.hdr[a].sz = b
      BY <2>1, <2>2
    <3> QED
      BY <3>1, <2>2 DEF Layout, HeapCoalesced
  <2>3. ASSUME b = lo, al = FALSE, a \in FreeBlocks(h), a < lo \/ hi <= a
        PROVE  FALSE
    <3>1. a + h.hdr[a].sz = lo /\ a \in Blocks(h) /\ h.hdr[a].alloc = FALSE
      BY <2>1, <2>3
    <3>2. h.hdr[lo].palloc = h.hdr[a].alloc
      BY <3>1 DEF Layout, HeapTagged
    <3> QED
      BY <3>1, <3>2, <2>3
  <2>4. ASSUME b = m, m < hi, a \in FreeBlocks(h), a < lo \/ hi <= a
        PROVE  FALSE
    <3>1. a < lo
      <4>1. a \in Int /\ g.hdr[a].sz \in Nat /\ g.hdr[a].sz > 0 /\ a + g.hdr[a].sz = m
        BY <2>1, <2>4
      <4> QED
        BY <4>1, <2>4, <1>1
    <3>2. a + h.hdr[a].sz <= lo /\ g.hdr[a].sz = h.hdr[a].sz
      BY <3>1, <2>1, <2>4, <1>5
    <3> QED
      BY <3>2, <2>1, <2>4, <1>1
  <2>5. ASSUME a = lo, al = FALSE
        PROVE  FALSE
    <3>1. m = hi
      BY <1>1, <1>7, <2>5
    <3>2. b = hi
      BY <3>1, <2>5, <1>1, <1>6
    <3>3. b \in FreeBlocks(h)
      BY <3>1, <3>2, <1>1, <1>4
    <3>4. h.hdr[hi].alloc = TRUE
      BY <2>5
    <3> QED
      BY <3>2, <3>3, <3>4 DEF FreeBlocks
  <2>6. ASSUME a = m, m < hi
        PROVE  FALSE
    <3>2. b = hi
      BY <2>6, <1>1, <1>7
    <3>3. b \in FreeBlocks(h)
      BY <2>6, <3>2, <1>1, <1>4
    <3>4. h.hdr[hi].alloc = TRUE
      BY <2>6
    <3> QED
      BY <3>2, <3>3, <3>4 DEF FreeBlocks
  <2> QED
    BY <1>4, <2>2, <2>3, <2>4, <2>5, <2>6
<1> QED
  BY <1>11, <1>12, <1>13, <1>14, <1>15, <1>16 DEF Layout

-----------------------------------------------------------------------------
(* Induction and powers of two.                                              *)

\* A set of numbers has a least element.
LEMMA Least ==
  ASSUME NEW T \in SUBSET Nat, T # {}
  PROVE  \E n \in T : \A k \in T : n <= k
<1> DEFINE R == { p \in Nat \X Nat : p[1] < p[2] }
<1>1. IsWellFoundedOn(R, Nat)
  BY NatLessThanWellFounded DEF OpToRel
<1>2. PICK n \in T : \A k \in T : ~ (<< k, n >> \in R)
  BY <1>1, WFMin
<1>3. ASSUME NEW k \in T PROVE n <= k
  <2>1. k \in Nat /\ n \in Nat
    OBVIOUS
  <2>2. ~ (k < n)
    BY <1>2, <2>1
  <2> QED
    BY <2>1, <2>2
<1> QED
  BY <1>3

\* What holds of 0 and of n + 1 with n holds up to any number.
LEMMA UpTo ==
  ASSUME NEW L \in Nat, NEW T, 0 \in T, \A n \in 0 .. L : n \in T /\ n < L => n + 1 \in T
  PROVE  \A n \in 0 .. L : n \in T
<1> SUFFICES ASSUME (0 .. L) \ T # {} PROVE FALSE
  OBVIOUS
<1>1. PICK n \in (0 .. L) \ T : \A k \in (0 .. L) \ T : n <= k
  <2>1. (0 .. L) \ T \in SUBSET Nat
    OBVIOUS
  <2> QED
    BY <2>1, Least
<1>2. n \in 0 .. L /\ n # 0 /\ n - 1 \in 0 .. L /\ n - 1 < L /\ ~ (n <= n - 1)
  BY <1>1
<1>3. n - 1 \in T
  BY <1>1, <1>2
<1>4. n - 1 + 1 \in T /\ n - 1 + 1 = n
  BY <1>2, <1>3
<1> QED
  BY <1>1, <1>4

\* Pow2 is what its definition says.
LEMMA Pow2Unfolds ==
  Pow2 = [n \in 0 .. NumL2 |-> IF n = 0 THEN 1 ELSE 2 * Pow2[n - 1]]
<1> DEFINE F(n, f) == f = [i \in 0 .. n |-> IF i = 0 THEN 1 ELSE 2 * f[i - 1]]
           T == { n \in 0 .. NumL2 : \E f : F(n, f) }
<1>1. NumL2 \in Nat
  BY GeometryAssumption
<1>2. 0 \in T
  <2>1. F(0, [i \in 0 .. 0 |-> 1])
    OBVIOUS
  <2> HIDE DEF F
  <2>2. \E f : F(0, f)
    BY <2>1
  <2> QED
    BY <1>1, <2>2
<1>3. ASSUME NEW n \in 0 .. NumL2, n \in T, n < NumL2 PROVE n + 1 \in T
  <2>1. PICK f : F(n, f)
    BY <1>3
  <2> DEFINE g == [i \in 0 .. n + 1 |-> IF i = n + 1 THEN 2 * f[n] ELSE f[i]]
  <2>2. \A i \in 0 .. n : g[i] = f[i]
    BY <1>1
  <2>3. ASSUME NEW i \in 0 .. n + 1 PROVE g[i] = IF i = 0 THEN 1 ELSE 2 * g[i - 1]
    <3>1. CASE i = n + 1
      BY <1>1, <3>1, <2>2
    <3>2. CASE i = 0
      BY <1>1, <3>2, <2>1, <2>2
    <3>3. CASE i # 0 /\ i # n + 1
      <4>1. i \in 0 .. n /\ i - 1 \in 0 .. n
        BY <1>1, <3>3
      <4> QED
        BY <3>3, <4>1, <2>1, <2>2
    <3> QED
      BY <3>1, <3>2, <3>3
  <2>4. F(n + 1, g)
    BY <2>3
  <2>5. n + 1 \in 0 .. NumL2
    BY <1>1, <1>3
  <2> QED
    BY <2>4, <2>5
<1>4. NumL2 \in T
  <2> HIDE DEF T
  <2>1. \A n \in 0 .. NumL2 : n \in T
    BY <1>1, <1>2, <1>3, UpTo
  <2> QED
    BY <1>1, <2>1
<1>5. F(NumL2, CHOOSE f : F(NumL2, f))
  <2>1. \E f : F(NumL2, f)
    BY <1>4
  <2> HIDE DEF F
  <2> QED
    BY <2>1
<1>6. Pow2 = CHOOSE f : F(NumL2, f)
  BY DEF Pow2
<1>7. F(NumL2, Pow2)
  BY <1>5, <1>6
<1> QED
  BY <1>7

LEMMA Pow2Is ==
  /\ Pow2[0] = 1
  /\ \A n \in 0 .. NumL2 : Pow2[n] \in Nat /\ Pow2[n] > 0
  /\ \A n \in 0 .. NumL2 : n < NumL2 => Pow2[n + 1] = 2 * Pow2[n]
<1>1. NumL2 \in Nat
  BY GeometryAssumption
<1>2. Pow2[0] = 1
  BY <1>1, Pow2Unfolds
<1>3. ASSUME NEW n \in 0 .. NumL2, n < NumL2 PROVE Pow2[n + 1] = 2 * Pow2[n]
  <2>1. n + 1 \in 0 .. NumL2 /\ n + 1 # 0 /\ n + 1 - 1 = n
    BY <1>1, <1>3
  <2> QED
    BY <2>1, Pow2Unfolds
<1> DEFINE T == { n \in 0 .. NumL2 : Pow2[n] \in Nat /\ Pow2[n] > 0 }
<1>4. 0 \in T
  BY <1>1, <1>2
<1>5. ASSUME NEW n \in 0 .. NumL2, n \in T, n < NumL2 PROVE n + 1 \in T
  <2>1. n + 1 \in 0 .. NumL2 /\ Pow2[n + 1] = 2 * Pow2[n]
    BY <1>1, <1>3, <1>5
  <2> QED
    BY <2>1, <1>5
<1>6. \A n \in 0 .. NumL2 : n \in T
  <2> HIDE DEF T
  <2> QED
    BY <1>1, <1>4, <1>5, UpTo
<1> QED
  BY <1>2, <1>3, <1>6

\* Pow2 grows.
LEMMA Pow2Grows ==
  ASSUME NEW i \in 0 .. NumL2, NEW j \in 0 .. NumL2, i <= j
  PROVE  Pow2[i] <= Pow2[j]
<1> DEFINE T == { n \in 0 .. NumL2 : i <= n => Pow2[i] <= Pow2[n] }
<1>1. NumL2 \in Nat
  BY GeometryAssumption
<1>2. \A n \in 0 .. NumL2 : Pow2[n] \in Nat /\ Pow2[n] > 0
  BY Pow2Is
<1>3. 0 \in T
  BY <1>1, <1>2
<1>4. ASSUME NEW n \in 0 .. NumL2, n \in T, n < NumL2 PROVE n + 1 \in T
  <2>1. n + 1 \in 0 .. NumL2 /\ Pow2[n + 1] = 2 * Pow2[n]
    BY <1>1, <1>4, Pow2Is
  <2>2. CASE i <= n
    BY <2>1, <2>2, <1>2, <1>4
  <2>3. CASE i = n + 1
    BY <2>1, <2>3, <1>2
  <2>4. CASE i > n + 1
    BY <2>1, <2>4
  <2> QED
    BY <2>2, <2>3, <2>4
<1>5. \A n \in 0 .. NumL2 : n \in T
  <2> HIDE DEF T
  <2> QED
    BY <1>1, <1>3, <1>4, UpTo
<1> QED
  BY <1>5

\* Powers of two multiply by adding their exponents.
LEMMA Pow2Adds ==
  ASSUME NEW i \in 0 .. NumL2, NEW j \in 0 .. NumL2, i + j <= NumL2
  PROVE  Pow2[i + j] = Pow2[i] * Pow2[j]
<1> DEFINE T == { n \in 0 .. NumL2 : i + n <= NumL2 => Pow2[i + n] = Pow2[i] * Pow2[n] }
<1>1. NumL2 \in Nat
  BY GeometryAssumption
<1>2. \A n \in 0 .. NumL2 : Pow2[n] \in Nat /\ Pow2[n] > 0
  BY Pow2Is
<1>3. 0 \in T
  <2>1. Pow2[i] \in Nat /\ Pow2[0] = 1 /\ i + 0 = i
    BY <1>2, Pow2Is
  <2>2. Pow2[i] * 1 = Pow2[i]
    BY <2>1
  <2> QED
    BY <1>1, <2>1, <2>2
<1>4. ASSUME NEW n \in 0 .. NumL2, n \in T, n < NumL2 PROVE n + 1 \in T
  <2> SUFFICES ASSUME i + (n + 1) <= NumL2 PROVE Pow2[i + (n + 1)] = Pow2[i] * Pow2[n + 1]
    BY <1>1, <1>4
  <2>1. Pow2[n + 1] = 2 * Pow2[n]
    BY <1>4, Pow2Is
  <2>2. i + n \in 0 .. NumL2 /\ i + n < NumL2 /\ i + (n + 1) = i + n + 1
    BY <1>1
  <2>3. Pow2[i + n + 1] = 2 * Pow2[i + n]
    BY <2>2, Pow2Is
  <2>4. Pow2[i + n] = Pow2[i] * Pow2[n]
    BY <1>4, <2>2
  <2>5. Pow2[i] \in Nat /\ Pow2[n] \in Nat
    BY <1>2
  <2>6. ASSUME NEW x \in Nat, NEW y \in Nat PROVE 2 * (x * y) = x * (2 * y)
    OBVIOUS
  <2>7. 2 * (Pow2[i] * Pow2[n]) = Pow2[i] * (2 * Pow2[n])
    BY <2>5, <2>6
  <2> QED
    BY <2>1, <2>2, <2>3, <2>4, <2>7
<1>5. \A n \in 0 .. NumL2 : n \in T
  <2> HIDE DEF T
  <2> QED
    BY <1>1, <1>3, <1>4, UpTo
<1> QED
  BY <1>5

\* The quotient.
LEMMA DivIs ==
  ASSUME NEW x \in Nat, NEW d \in Nat, d > 0
  PROVE  x \div d \in Nat /\ (x \div d) * d <= x /\ x < (x \div d) * d + d
  OBVIOUS

-----------------------------------------------------------------------------
(* Size classes.                                                             *)

Sizes == 1 .. (Pow2[NumL2] - 1)

\* The sizes of a bin of first level i are this far apart, and this is its least.
Width(i) == Pow2[Max2(0, i - L2Len)]
LowOf(b) == Pow2[b[1]] + b[2] * Width(b[1])

\* The bins of a size and above.
AtLeast(b, c) == b[1] > c[1] \/ (b[1] = c[1] /\ b[2] >= c[2])

LEMMA Log2Is ==
  ASSUME NEW n \in Sizes
  PROVE  Log2(n) \in L1 /\ Pow2[Log2(n)] <= n /\ n < Pow2[Log2(n) + 1]
<1> DEFINE T == { k \in 0 .. NumL2 : n < Pow2[k] }
<1>1. NumL2 \in Nat /\ Pow2[0] = 1 /\ \A k \in 0 .. NumL2 : Pow2[k] \in Nat
  BY GeometryAssumption, Pow2Is
<1>2. n \in Nat /\ n >= 1 /\ n < Pow2[NumL2]
  BY <1>1 DEF Sizes
<1>3. NumL2 \in T /\ T \in SUBSET Nat
  BY <1>1, <1>2
<1>4. PICK k \in T : \A j \in T : k <= j
  BY <1>3, Least
<1>5. k \in 0 .. NumL2 /\ n < Pow2[k] /\ k # 0
  BY <1>1, <1>2, <1>4
<1>6. k - 1 \in L1 /\ k - 1 \in 0 .. NumL2 /\ k - 1 + 1 = k
  BY <1>1, <1>5 DEF L1
<1>7. ~ (n < Pow2[k - 1])
  BY <1>4, <1>5, <1>6
<1>8. Pow2[k - 1] <= n
  BY <1>1, <1>2, <1>6, <1>7
<1>9. \E i \in L1 : Pow2[i] <= n /\ n < Pow2[i + 1]
  BY <1>5, <1>6, <1>8
<1> QED
  BY <1>9 DEF Log2

\* The bins of a first level cover its sizes.
LEMMA LevelIs ==
  ASSUME NEW i \in L1
  PROVE  /\ nblists(i) \in Nat /\ Width(i) \in Nat /\ Width(i) > 0
         /\ nblists(i) <= Pow2[L2Len]
         /\ nblists(i) * Width(i) = Pow2[i]
         /\ Pow2[i] \in Nat /\ Pow2[i + 1] = Pow2[i] + Pow2[i] /\ Pow2[i + 1] \in Nat
         /\ i <= L2Len => Width(i) = 1
         /\ i >= L2Len => Width(i) = Pow2[i - L2Len] /\ nblists(i) = Pow2[L2Len]
<1>1. NumL2 \in Nat /\ L2Len \in Nat /\ L2Len < NumL2
  BY GeometryAssumption
<1>2. i \in 0 .. NumL2 /\ L2Len \in 0 .. NumL2 /\ i < NumL2 /\ i + 1 \in 0 .. NumL2
  BY <1>1 DEF L1
<1>3. Pow2[i] \in Nat /\ Pow2[L2Len] \in Nat /\ Pow2[0] = 1 /\ Pow2[i + 1] = 2 * Pow2[i]
  BY <1>2, Pow2Is
<1>4. CASE i < L2Len
  <2>1. nblists(i) = Pow2[i] /\ Width(i) = 1
    BY <1>1, <1>2, <1>3, <1>4 DEF nblists, Width, Max2
  <2>2. Pow2[i] <= Pow2[L2Len]
    BY <1>1, <1>2, <1>4, Pow2Grows
  <2> QED
    BY <1>1, <1>2, <1>3, <1>4, <2>1, <2>2
<1>5. CASE i >= L2Len
  <2>1. i - L2Len \in 0 .. NumL2 /\ L2Len + (i - L2Len) = i
    BY <1>1, <1>2, <1>5
  <2>2. Pow2[i - L2Len] \in Nat /\ Pow2[i - L2Len] > 0
    BY <2>1, Pow2Is
  <2>3. Max2(0, i - L2Len) = i - L2Len
    BY <1>1, <1>2, <1>5 DEF Max2
  <2>4. nblists(i) = Pow2[L2Len] /\ Width(i) = Pow2[i - L2Len]
    BY <2>3, <1>1, <1>2, <1>5 DEF nblists, Width
  <2>5. Pow2[L2Len] * Pow2[i - L2Len] = Pow2[i]
    BY <2>1, <1>2, Pow2Adds
  <2>6. i <= L2Len => i - L2Len = 0
    BY <1>1, <1>2, <1>5
  <2> QED
    BY <2>2, <2>4, <2>5, <2>6, <1>3, <1>5
<1> QED
  BY <1>1, <1>2, <1>4, <1>5

\* calc_tlsf_indices: the bin whose sizes hold the size.
LEMMA ClassOf ==
  ASSUME NEW n \in Sizes, NEW c, c = calc_tlsf_indices(n)
  PROVE  /\ c \in Bins /\ c[1] \in L1 /\ c[2] \in Nat
         /\ c = << c[1], c[2] >> /\ c[1] = Log2(n)
         /\ LowOf(c) <= n /\ n < LowOf(c) + Width(c[1])
         /\ Pow2[c[1]] <= n /\ n < Pow2[c[1] + 1]
<1> DEFINE i == Log2(n)
           w == Width(i)
           j == (n - Pow2[i]) \div w
<1>1. i \in L1 /\ Pow2[i] <= n /\ n < Pow2[i + 1] /\ n \in Nat
  <2>1. n \in Nat
    BY Pow2Is DEF Sizes
  <2> QED
    BY <2>1, Log2Is
<1>2. /\ nblists(i) \in Nat /\ w \in Nat /\ w > 0 /\ nblists(i) <= Pow2[L2Len]
      /\ nblists(i) * w = Pow2[i]
      /\ Pow2[i] \in Nat /\ Pow2[i + 1] = Pow2[i] + Pow2[i]
      /\ i <= L2Len => w = 1
      /\ i >= L2Len => w = Pow2[i - L2Len] /\ nblists(i) = Pow2[L2Len]
  BY <1>1, LevelIs
<1>3. NumL2 \in Nat /\ L2Len \in Nat /\ L2Len < NumL2 /\ i \in 0 .. NumL2 /\ L2Len \in 0 .. NumL2
      /\ i + 1 \in 0 .. NumL2
  BY <1>1, GeometryAssumption DEF L1
<1>4. Pow2[L2Len] \in Nat
  BY <1>3, Pow2Is
<1>5. n < Pow2[L2Len] <=> i < L2Len
  <2>1. CASE i < L2Len
    <3>1. Pow2[i + 1] <= Pow2[L2Len]
      BY <1>3, <2>1, Pow2Grows
    <3> QED
      BY <3>1, <2>1, <1>1, <1>2, <1>4
  <2>2. CASE ~ (i < L2Len)
    <3>1. Pow2[L2Len] <= Pow2[i]
      BY <1>3, <2>2, Pow2Grows
    <3> QED
      BY <3>1, <2>2, <1>1, <1>2, <1>4
  <2> QED
    BY <2>1, <2>2
<1>6. calc_tlsf_indices(n) = << i, j >>
  <2>1. CASE i < L2Len
    <3>1. w = 1
      BY <2>1, <1>2, <1>3
    <3>2. n - Pow2[i] \in Nat
      BY <1>1, <1>2
    <3>3. (n - Pow2[i]) \div 1 = n - Pow2[i]
      BY <3>2
    <3> QED
      BY <3>1, <3>3, <2>1, <1>5 DEF calc_tlsf_indices
  <2>2. CASE ~ (i < L2Len)
    <3>1. w = Pow2[i - L2Len]
      BY <2>2, <1>2, <1>3
    <3> QED
      BY <3>1, <2>2, <1>5 DEF calc_tlsf_indices
  <2> QED
    BY <2>1, <2>2
<1>7. j \in Nat /\ j * w <= n - Pow2[i] /\ n - Pow2[i] < j * w + w
  <2>1. n - Pow2[i] \in Nat
    BY <1>1, <1>2
  <2> QED
    BY <2>1, <1>2, DivIs
<1>8. j < nblists(i)
  <2>1. n - Pow2[i] < nblists(i) * w
    BY <1>1, <1>2
  <2>2. ASSUME NEW x \in Nat, NEW y \in Nat, NEW z \in Nat, x * z < y * z PROVE x < y
    BY <2>2
  <2>3. j * w < nblists(i) * w
    <3>1. j * w \in Nat /\ nblists(i) * w \in Nat
      BY <1>2, <1>7
    <3> QED
      BY <3>1, <2>1, <1>1, <1>2, <1>7
  <2> QED
    BY <2>2, <2>3, <1>2, <1>7
<1>9. c = << i, j >> /\ c[1] = i /\ c[2] = j
  BY <1>6
<1>10. c \in Bins
  <2>1. j \in 0 .. (Pow2[L2Len] - 1)
    BY <1>2, <1>4, <1>7, <1>8
  <2> QED
    BY <2>1, <1>1, <1>8, <1>9 DEF Bins
<1>11. LowOf(c) = Pow2[i] + j * w
  BY <1>9 DEF LowOf
<1>12. LowOf(c) <= n /\ n < LowOf(c) + w
  <2>1. j * w \in Nat
    BY <1>2, <1>7
  <2> QED
    BY <2>1, <1>1, <1>2, <1>7, <1>11
<1>13. i = Log2(n) /\ w = Width(i)
  OBVIOUS
<1> HIDE DEF i, j, w
<1> QED
  BY <1>1, <1>7, <1>9, <1>10, <1>12, <1>13

\* A bin's sizes end before its level does.
LEMMA LowIs ==
  ASSUME NEW b \in Bins
  PROVE  /\ b[1] \in L1 /\ b[2] \in Nat /\ b = << b[1], b[2] >>
         /\ b[2] \in 0 .. (Pow2[L2Len] - 1) /\ b[2] < nblists(b[1])
         /\ LowOf(b) \in Nat /\ Pow2[b[1]] <= LowOf(b)
         /\ LowOf(b) + Width(b[1]) <= Pow2[b[1] + 1]
         /\ LowOf(b) = (nblists(b[1]) + b[2]) * Width(b[1])
<1>1. /\ b[1] \in L1 /\ b = << b[1], b[2] >>
      /\ b[2] \in 0 .. (Pow2[L2Len] - 1) /\ b[2] < nblists(b[1])
  BY DEF Bins
<1>2. b[2] \in Nat
  <2>1. L2Len \in 0 .. NumL2
    BY GeometryAssumption
  <2>2. Pow2[L2Len] \in Nat
    BY <2>1, Pow2Is
  <2> QED
    BY <2>2, <1>1
<1>3. PICK i \in L1 : i = b[1]
  BY <1>1
<1>4. PICK j \in Nat : j = b[2]
  BY <1>2
<1>5. /\ nblists(i) \in Nat /\ Width(i) \in Nat /\ Width(i) > 0
      /\ nblists(i) * Width(i) = Pow2[i]
      /\ Pow2[i] \in Nat /\ Pow2[i + 1] = Pow2[i] + Pow2[i]
  BY LevelIs
<1>6. LowOf(b) = Pow2[i] + j * Width(i)
  BY <1>3, <1>4 DEF LowOf
<1>7. ASSUME NEW x \in Nat, NEW y \in Nat, NEW z \in Nat, x < y
      PROVE  x * z \in Nat /\ x * z + z <= y * z /\ y * z + x * z = (y + x) * z
  <2>1. x * z \in Nat /\ y * z \in Nat
    OBVIOUS
  <2>2. PICK k \in Nat : y = x + 1 + k
    <3>1. y - x - 1 \in Nat /\ y = x + 1 + (y - x - 1)
      BY <1>7
    <3> QED
      BY <3>1
  <2>3. y * z = x * z + z + k * z /\ k * z \in Nat
    BY <2>2
  <2>4. (y + x) * z = y * z + x * z
    OBVIOUS
  <2> QED
    BY <2>1, <2>3, <2>4
<1>8. j * Width(i) \in Nat /\ j * Width(i) + Width(i) <= nblists(i) * Width(i)
      /\ nblists(i) * Width(i) + j * Width(i) = (nblists(i) + j) * Width(i)
  BY <1>1, <1>3, <1>4, <1>5, <1>7
<1>9. LowOf(b) \in Nat /\ Pow2[i] <= LowOf(b) /\ LowOf(b) + Width(i) <= Pow2[i + 1]
      /\ LowOf(b) = (nblists(i) + j) * Width(i)
  BY <1>5, <1>6, <1>8
<1> QED
  BY <1>1, <1>2, <1>3, <1>4, <1>9

\* The bins from a bin on are those of the sizes from its least on.
LEMMA ClassOrder ==
  ASSUME NEW n \in Sizes, NEW b \in Bins
  PROVE  AtLeast(calc_tlsf_indices(n), b) <=> LowOf(b) <= n
<1> DEFINE c == calc_tlsf_indices(n)
<1>1. /\ c \in Bins /\ c[1] \in L1 /\ c[2] \in Nat
      /\ LowOf(c) <= n /\ n < LowOf(c) + Width(c[1])
      /\ Pow2[c[1]] <= n /\ n < Pow2[c[1] + 1]
  BY ClassOf
<1>2. /\ b[1] \in L1 /\ b[2] \in Nat /\ LowOf(b) \in Nat /\ Pow2[b[1]] <= LowOf(b)
      /\ LowOf(b) + Width(b[1]) <= Pow2[b[1] + 1]
  BY LowIs
<1>3. n \in Nat
  BY Pow2Is DEF Sizes
<1> HIDE DEF c
<1>4. PICK i \in L1 : i = c[1]
  BY <1>1
<1>5. PICK j \in Nat : j = c[2]
  BY <1>1
<1>6. PICK i2 \in L1 : i2 = b[1]
  BY <1>2
<1>7. PICK j2 \in Nat : j2 = b[2]
  BY <1>2
<1>8. NumL2 \in Nat /\ i \in 0 .. NumL2 /\ i + 1 \in 0 .. NumL2
      /\ i2 \in 0 .. NumL2 /\ i2 + 1 \in 0 .. NumL2
  BY GeometryAssumption DEF L1
<1>9. /\ Width(i) \in Nat /\ Width(i) > 0 /\ Width(i2) \in Nat /\ Width(i2) > 0
      /\ Pow2[i] \in Nat /\ Pow2[i + 1] \in Nat /\ Pow2[i2] \in Nat /\ Pow2[i2 + 1] \in Nat
  BY LevelIs
<1>10. CASE i > i2
  <2>1. Pow2[i2 + 1] <= Pow2[i]
    BY <1>8, <1>10, Pow2Grows
  <2>2. LowOf(b) <= n
    BY <2>1, <1>1, <1>2, <1>3, <1>4, <1>6, <1>9
  <2> QED
    BY <2>2, <1>4, <1>6, <1>10 DEF AtLeast, c
<1>11. CASE i < i2
  <2>1. Pow2[i + 1] <= Pow2[i2]
    BY <1>8, <1>11, Pow2Grows
  <2>2. ~ (LowOf(b) <= n)
    BY <2>1, <1>1, <1>2, <1>3, <1>4, <1>6, <1>9
  <2>3. ~ (i > i2) /\ i # i2
    BY <1>8, <1>11
  <2> QED
    BY <2>2, <2>3, <1>4, <1>6 DEF AtLeast, c
<1>12. CASE i = i2
  <2>1. LowOf(c) = Pow2[i] + j * Width(i) /\ LowOf(b) = Pow2[i] + j2 * Width(i)
    BY <1>4, <1>5, <1>6, <1>7, <1>12 DEF LowOf
  <2>2. n < Pow2[i] + j * Width(i) + Width(i) /\ Pow2[i] + j * Width(i) <= n
    BY <2>1, <1>1, <1>4
  <2>3. ASSUME NEW x \in Nat, NEW y \in Nat, NEW z \in Nat
        PROVE  /\ x * z \in Nat /\ y * z \in Nat
               /\ x < y => x * z + z <= y * z
               /\ x <= y => x * z <= y * z
    <3>1. x * z \in Nat /\ y * z \in Nat
      OBVIOUS
    <3>2. ASSUME x < y PROVE x * z + z <= y * z
      <4>1. PICK k \in Nat : y = x + 1 + k
        <5>1. y - x - 1 \in Nat /\ y = x + 1 + (y - x - 1)
          BY <3>2
        <5> QED
          BY <5>1
      <4>2. y * z = x * z + z + k * z /\ k * z \in Nat
        BY <4>1
      <4> QED
        BY <3>1, <4>2
    <3> QED
      BY <3>1, <3>2
  <2>4. /\ j * Width(i) \in Nat /\ j2 * Width(i) \in Nat
        /\ j < j2 => j * Width(i) + Width(i) <= j2 * Width(i)
        /\ j2 <= j => j2 * Width(i) <= j * Width(i)
    BY <2>3, <1>9
  <2>5. j >= j2 <=> LowOf(b) <= n
    BY <2>1, <2>2, <2>4, <1>3, <1>9
  <2>6. AtLeast(c, b) <=> j >= j2
    BY <1>4, <1>5, <1>6, <1>7, <1>8, <1>12 DEF AtLeast
  <2> QED
    BY <2>5, <2>6 DEF c
<1> QED
  BY <1>8, <1>10, <1>11, <1>12

\* The request rounded up to a multiple of its class's width.
RoundedUp(amt) == ((amt + Width(Log2(amt)) - 1) \div Width(Log2(amt))) * Width(Log2(amt))

\* round_next_tlsf_size: the bin whose least size is the rounded request, or none
\* if no size is as long.
LEMMA RoundIs ==
  ASSUME NEW amt \in Sizes, NEW idx, idx = round_next_tlsf_size(amt)
  PROVE  /\ amt <= RoundedUp(amt)
         /\ \/ idx \in Bins /\ LowOf(idx) = RoundedUp(amt)
            \/ idx = None /\ RoundedUp(amt) = Pow2[NumL2]
<1> DEFINE c == calc_tlsf_indices(amt)
<1>1. /\ c \in Bins /\ c[1] \in L1 /\ c[2] \in Nat /\ c[1] = Log2(amt)
      /\ c = << c[1], c[2] >>
      /\ LowOf(c) <= amt /\ amt < LowOf(c) + Width(c[1])
  BY ClassOf
<1>2. LowOf(c) = (nblists(c[1]) + c[2]) * Width(c[1]) /\ LowOf(c) \in Nat
      /\ LowOf(c) + Width(c[1]) <= Pow2[c[1] + 1] /\ c[2] < nblists(c[1])
  BY <1>1, LowIs
<1>3. amt \in Nat
  BY Pow2Is DEF Sizes
<1> HIDE DEF c
<1>4. PICK i \in L1 : i = c[1]
  BY <1>1
<1>5. PICK j \in Nat : j = c[2]
  BY <1>1
<1>6. /\ nblists(i) \in Nat /\ Width(i) \in Nat /\ Width(i) > 0
      /\ nblists(i) * Width(i) = Pow2[i]
      /\ Pow2[i] \in Nat /\ Pow2[i + 1] = Pow2[i] + Pow2[i]
      /\ i <= L2Len => Width(i) = 1
      /\ i >= L2Len => Width(i) = Pow2[i - L2Len] /\ nblists(i) = Pow2[L2Len]
  BY LevelIs
<1>7. PICK w \in Nat : w = Width(i)
  BY <1>6
<1>8. PICK k \in Nat : k = nblists(i) + j
  BY <1>6
<1>9. LowOf(c) = k * w /\ w > 0 /\ k * w <= amt /\ amt < k * w + w
  BY <1>1, <1>2, <1>4, <1>5, <1>6, <1>7, <1>8
<1>10. LowOf(c) = Pow2[i] + j * w
  BY <1>4, <1>5, <1>7 DEF LowOf
<1>11. RoundedUp(amt) = ((amt + w - 1) \div w) * w
  BY <1>1, <1>4, <1>7 DEF RoundedUp
<1>12. NumL2 \in Nat /\ L2Len \in Nat /\ L2Len \in 0 .. NumL2 /\ i + 1 \in 0 .. NumL2 /\ i \in 0 .. NumL2
  BY GeometryAssumption DEF L1
<1>13. RoundedUp(amt) = IF amt <= k * w THEN k * w ELSE k * w + w
  <2>1. PICK q \in Nat : q = (amt + w - 1) \div w /\ q * w <= amt + w - 1 /\ amt + w - 1 < q * w + w
    <3>1. amt + w - 1 \in Nat
      BY <1>3, <1>9
    <3> QED
      BY <3>1, <1>9, DivIs
  <2>2. ASSUME NEW x \in Nat, NEW y \in Nat, x * w < y * w + w PROVE x <= y
    <3>1. ASSUME y < x PROVE FALSE
      <4>1. PICK z \in Nat : x = y + 1 + z
        <5>1. x - y - 1 \in Nat /\ x = y + 1 + (x - y - 1)
          BY <3>1
        <5> QED
          BY <5>1
      <4>2. x * w = y * w + w + z * w /\ z * w \in Nat /\ y * w \in Nat
        BY <4>1
      <4> QED
        BY <4>2, <2>2
    <3> QED
      BY <3>1
  <2>3. k * w \in Nat /\ q * w \in Nat /\ (k + 1) * w = k * w + w
    OBVIOUS
  <2>4. CASE amt <= k * w
    <3>1. amt = k * w
      BY <2>3, <2>4, <1>3, <1>9
    <3>2. q * w < k * w + w /\ k * w < q * w + w
      BY <3>1, <2>1, <2>3, <1>9
    <3>3. q = k
      BY <3>2, <2>2
    <3> QED
      BY <3>3, <2>1, <2>4, <1>11
  <2>5. CASE ~ (amt <= k * w)
    <3>1. q * w < (k + 1) * w + w /\ (k + 1) * w < q * w + w
      BY <2>1, <2>3, <2>5, <1>3, <1>9
    <3>2. q = k + 1
      BY <3>1, <2>2
    <3> QED
      BY <3>2, <2>1, <2>3, <2>5, <1>11
  <2> QED
    BY <2>4, <2>5
<1>14. amt <= RoundedUp(amt)
  <2>1. k * w \in Nat
    OBVIOUS
  <2> QED
    BY <2>1, <1>3, <1>9, <1>13
<1> DEFINE bktlen == Pow2[i] + (Pow2[i] \div Pow2[L2Len]) * j
<1>15. ~ (i <= L2Len) => bktlen = k * w
  <2> SUFFICES ASSUME i > L2Len PROVE (Pow2[i] \div Pow2[L2Len]) * j = j * w
    BY <1>9, <1>10, <1>12
  <2>1. nblists(i) = Pow2[L2Len] /\ Pow2[L2Len] \in Nat /\ Pow2[L2Len] > 0
    BY <1>6, <1>12, Pow2Is
  <2>2. PICK d \in Nat : d = Pow2[L2Len] /\ d > 0 /\ d * w = Pow2[i]
    BY <2>1, <1>6, <1>7
  <2>3. d * w \in Nat /\ (d * w) \div d = w
    BY <2>2
  <2>4. Pow2[i] \div Pow2[L2Len] = w
    BY <2>2, <2>3
  <2> QED
    BY <2>4
<1>16. idx = IF i <= L2Len \/ amt <= bktlen      THEN c
             ELSE IF j + 1 < nblists(i)          THEN << i, j + 1 >>
             ELSE IF i + 1 < NumL2               THEN << i + 1, 0 >>
             ELSE None
  BY <1>4, <1>5 DEF round_next_tlsf_size, c
<1> HIDE DEF bktlen
<1>17. CASE i <= L2Len \/ amt <= bktlen
  <2>1. idx = c
    BY <1>16, <1>17
  <2>2. amt <= k * w
    <3>1. CASE i <= L2Len
      <4>1. w = 1 /\ k * w \in Nat
        BY <3>1, <1>6, <1>7
      <4> QED
        BY <4>1, <1>3, <1>9
    <3>2. CASE ~ (i <= L2Len)
      BY <3>2, <1>15, <1>17
    <3> QED
      BY <3>1, <3>2
  <2> QED
    BY <2>1, <2>2, <1>1, <1>9, <1>13, <1>14
<1>18. CASE ~ (i <= L2Len \/ amt <= bktlen)
  <2>1. ~ (amt <= k * w) /\ i > L2Len
    BY <1>12, <1>15, <1>18
  <2>2. RoundedUp(amt) = k * w + w /\ (k + 1) * w = k * w + w /\ k * w \in Nat
    BY <2>1, <1>13
  <2>3. nblists(i) = Pow2[L2Len] /\ Pow2[L2Len] \in Nat /\ Pow2[L2Len] > 0
    BY <2>1, <1>6, <1>12, Pow2Is
  <2>4. CASE j + 1 < nblists(i)
    <3>1. idx = << i, j + 1 >>
      BY <2>4, <1>16, <1>18
    <3>2. j + 1 \in 0 .. (Pow2[L2Len] - 1)
      BY <2>3, <2>4
    <3>3. idx \in Bins
      BY <3>1, <3>2, <2>4 DEF Bins
    <3>4. LowOf(idx) = Pow2[i] + (j + 1) * w
      BY <3>1, <1>7 DEF LowOf
    <3>5. (j + 1) * w = j * w + w /\ j * w \in Nat
      OBVIOUS
    <3>6. LowOf(idx) = k * w + w
      BY <3>4, <3>5, <1>6, <1>9, <1>10
    <3> QED
      BY <3>3, <3>6, <2>2, <1>14
  <2>5. CASE ~ (j + 1 < nblists(i))
    <3>1. j + 1 = nblists(i)
      BY <2>5, <1>2, <1>4, <1>5, <1>6
    <3>2. (j + 1) * w = j * w + w /\ j * w \in Nat
      OBVIOUS
    <3>3. k * w + w = Pow2[i + 1]
      BY <3>1, <3>2, <1>6, <1>7, <1>9, <1>10
    <3>4. CASE i + 1 < NumL2
      <4>1. idx = << i + 1, 0 >>
        BY <2>5, <3>4, <1>16, <1>18
      <4>2. i + 1 \in L1
        BY <3>4, <1>12 DEF L1
      <4>3. nblists(i + 1) = Pow2[L2Len] /\ Width(i + 1) \in Nat /\ Pow2[i + 1] \in Nat
        BY <4>2, <2>1, <1>12, LevelIs
      <4>4. idx \in Bins
        BY <4>1, <4>2, <4>3, <2>3 DEF Bins
      <4>5. LowOf(idx) = Pow2[i + 1] + 0 * Width(i + 1)
        BY <4>1 DEF LowOf
      <4>6. LowOf(idx) = Pow2[i + 1]
        BY <4>3, <4>5
      <4> QED
        BY <4>4, <4>6, <3>3, <2>2, <1>14
    <3>5. CASE ~ (i + 1 < NumL2)
      <4>1. i + 1 = NumL2
        BY <3>5, <1>12
      <4>2. idx = None
        BY <2>5, <3>5, <1>16, <1>18
      <4> QED
        BY <4>1, <4>2, <3>3, <2>2, <1>14
    <3> QED
      BY <3>4, <3>5
  <2> QED
    BY <2>4, <2>5
<1> QED
  BY <1>17, <1>18

-----------------------------------------------------------------------------
(* Bins.                                                                     *)

\* The bins and bitmaps of h hold exactly the blocks of F.
Binned(h, F) ==
  /\ \A b \in Bins : h.bins[b] = { a \in F : calc_tlsf_indices(h.hdr[a].sz) = b }
  /\ \A i \in L1 : h.l2bm[i] = { j \in 0 .. (Pow2[L2Len] - 1) :
                                   << i, j >> \in Bins /\ h.bins[<< i, j >>] # {} }
  /\ h.l1bm = { i \in L1 : h.l2bm[i] # {} }

\* Only the words of the pools differ between h and g, or only the bins.
SameBins(h, g) == g.bins = h.bins /\ g.l1bm = h.l1bm /\ g.l2bm = h.l2bm /\ g.wild = h.wild
SameWords(h, g) == g.hdr = h.hdr /\ g.foot = h.foot

LEMMA RemBins ==
  ASSUME NEW h \in HeapT, NEW F \in SUBSET Addr, NEW a \in F, NEW b \in Bins,
         b = calc_tlsf_indices(h.hdr[a].sz), Binned(h, F),
         NEW g, g = tlsf_rem_blk(h, a, b)
  PROVE  g \in HeapT /\ SameWords(h, g) /\ Binned(g, F \ {a})
<1>a. PICK bin : bin = h.bins[b] \ {a}
  OBVIOUS
<1>b. PICK bm2 : bm2 = IF bin = {} THEN h.l2bm[b[1]] \ {b[2]} ELSE h.l2bm[b[1]]
  OBVIOUS
<1>1. b[1] \in L1 /\ b[2] \in Nat /\ b = << b[1], b[2] >> /\ b[2] \in 0 .. (Pow2[L2Len] - 1)
  BY LowIs
<1>2. /\ g.hdr = h.hdr /\ g.foot = h.foot
      /\ g.bins = [h.bins EXCEPT ![b] = bin]
      /\ g.l2bm = [h.l2bm EXCEPT ![b[1]] = bm2]
      /\ g.l1bm = IF bin = {} /\ bm2 = {} THEN h.l1bm \ {b[1]} ELSE h.l1bm
      /\ g.wild = h.wild
  BY <1>a, <1>b DEF tlsf_rem_blk, HeapT
<1>3. /\ h.bins \in [Bins -> SUBSET Addr] /\ h.l2bm \in [L1 -> SUBSET Nat] /\ h.l1bm \in SUBSET L1
      /\ h.hdr \in [Addr -> HdrT] /\ h.foot \in [Addr -> Nat] /\ h.wild \in BOOLEAN
  BY DEF HeapT
<1>4. bin \in SUBSET Addr /\ bm2 \in SUBSET Nat
  BY <1>1, <1>3, <1>a, <1>b
<1>5. g \in HeapT
  <2>1. g = [hdr |-> g.hdr, foot |-> g.foot, bins |-> g.bins, l1bm |-> g.l1bm, l2bm |-> g.l2bm,
             wild |-> g.wild]
    BY DEF tlsf_rem_blk, HeapT
  <2>2. g.bins \in [Bins -> SUBSET Addr] /\ g.l2bm \in [L1 -> SUBSET Nat] /\ g.l1bm \in SUBSET L1
    BY <1>1, <1>2, <1>3, <1>4
  <2> QED
    BY <2>1, <2>2, <1>2, <1>3 DEF HeapT
<1>6. \A c \in Bins : h.bins[c] = { x \in F : calc_tlsf_indices(h.hdr[x].sz) = c }
  BY DEF Binned
<1>7. \A i \in L1 : h.l2bm[i] = { j \in 0 .. (Pow2[L2Len] - 1) :
                                   << i, j >> \in Bins /\ h.bins[<< i, j >>] # {} }
  BY DEF Binned
<1>8. h.l1bm = { i \in L1 : h.l2bm[i] # {} }
  BY DEF Binned
<1>9. ASSUME NEW c \in Bins
      PROVE  g.bins[c] = { x \in F \ {a} : calc_tlsf_indices(g.hdr[x].sz) = c }
  <2>1. CASE c = b
    BY <2>1, <1>2, <1>3, <1>6, <1>a
  <2>2. CASE c # b
    BY <2>2, <1>2, <1>3, <1>6
  <2> QED
    BY <2>1, <2>2
<1>10. ASSUME NEW i \in L1
       PROVE  g.l2bm[i] = { j \in 0 .. (Pow2[L2Len] - 1) :
                              << i, j >> \in Bins /\ g.bins[<< i, j >>] # {} }
  <2>1. CASE i # b[1]
    <3>1. g.l2bm[i] = h.l2bm[i]
      BY <2>1, <1>2, <1>3
    <3>2. \A j : << i, j >> \in Bins => g.bins[<< i, j >>] = h.bins[<< i, j >>]
      BY <2>1, <1>1, <1>2, <1>3
    <3> QED
      BY <3>1, <3>2, <1>7
  <2>2. CASE i = b[1]
    <3>1. g.l2bm[i] = bm2
      BY <2>2, <1>1, <1>2, <1>3
    <3>2. \A j : << i, j >> \in Bins /\ j # b[2] => g.bins[<< i, j >>] = h.bins[<< i, j >>]
      BY <2>2, <1>1, <1>2, <1>3
    <3>3. << i, b[2] >> = b /\ g.bins[b] = bin
      BY <2>2, <1>1, <1>2, <1>3
    <3>4. h.l2bm[i] = { j \in 0 .. (Pow2[L2Len] - 1) :
                          << i, j >> \in Bins /\ h.bins[<< i, j >>] # {} }
      BY <1>7
    <3>5. CASE bin = {}
      <4>1. g.l2bm[i] = h.l2bm[i] \ {b[2]}
        BY <3>1, <3>5, <2>2, <1>b
      <4>2. g.bins[<< i, b[2] >>] = {}
        BY <3>3, <3>5
      <4> QED
        BY <4>1, <4>2, <3>2, <3>4
    <3>6. CASE bin # {}
      <4>1. g.l2bm[i] = h.l2bm[i]
        BY <3>1, <3>6, <2>2, <1>b
      <4>2. g.bins[<< i, b[2] >>] # {} /\ h.bins[<< i, b[2] >>] # {}
        BY <3>3, <3>6, <1>a
      <4> QED
        BY <4>1, <4>2, <3>2, <3>4
    <3> QED
      BY <3>5, <3>6
  <2> QED
    BY <2>1, <2>2
<1>11. g.l1bm = { i \in L1 : g.l2bm[i] # {} }
  <2>1. \A i \in L1 : i # b[1] => g.l2bm[i] = h.l2bm[i]
    BY <1>2, <1>3
  <2>2. g.l2bm[b[1]] = bm2
    BY <1>1, <1>2, <1>3
  <2>3. CASE bin = {} /\ bm2 = {}
    <3>1. g.l1bm = h.l1bm \ {b[1]}
      BY <2>3, <1>2
    <3>2. g.l2bm[b[1]] = {}
      BY <2>2, <2>3
    <3> QED
      BY <3>1, <3>2, <2>1, <1>8
  <2>4. CASE ~ (bin = {} /\ bm2 = {})
    <3>1. g.l1bm = h.l1bm
      BY <2>4, <1>2
    <3>2. h.l2bm[b[1]] # {}
      <4>1. a \in h.bins[b]
        BY <1>6
      <4>2. b[2] \in h.l2bm[b[1]]
        BY <4>1, <1>1, <1>7
      <4> QED
        BY <4>2
    <3>3. g.l2bm[b[1]] # {}
      <4>1. CASE bin = {}
        BY <4>1, <2>2, <2>4, <1>b
      <4>2. CASE bin # {}
        BY <4>2, <2>2, <3>2, <1>b
      <4> QED
        BY <4>1, <4>2
    <3> QED
      BY <3>1, <3>2, <3>3, <2>1, <1>8
  <2> QED
    BY <2>3, <2>4
<1> QED
  BY <1>2, <1>5, <1>9, <1>10, <1>11 DEF Binned, SameWords

LEMMA InsBins ==
  ASSUME NEW h \in HeapT, NEW F \in SUBSET Addr, NEW a \in Addr, a \notin F,
         calc_tlsf_indices(h.hdr[a].sz) \in Bins, Binned(h, F),
         NEW g, g = tlsf_ins_blk_c(h, a)
  PROVE  g \in HeapT /\ SameWords(h, g) /\ Binned(g, F \cup {a})
<1> DEFINE cc == calc_tlsf_indices(h.hdr[a].sz)
<1>1. PICK b \in Bins : b = cc
  OBVIOUS
<1>2. b[1] \in L1 /\ b[2] \in Nat /\ b = << b[1], b[2] >> /\ b[2] \in 0 .. (Pow2[L2Len] - 1)
  BY LowIs
<1>3. /\ h.bins \in [Bins -> SUBSET Addr] /\ h.l2bm \in [L1 -> SUBSET Nat] /\ h.l1bm \in SUBSET L1
      /\ h.hdr \in [Addr -> HdrT] /\ h.foot \in [Addr -> Nat] /\ h.wild \in BOOLEAN
  BY DEF HeapT
<1>4. g = [h EXCEPT !.l1bm = @ \cup {b[1]},
                    !.l2bm[b[1]] = @ \cup {b[2]},
                    !.bins[b] = @ \cup {a},
                    !.wild = @ \/ h.hdr[a].sz < MinNU]
  BY <1>1 DEF tlsf_ins_blk_c
<1>5. /\ g.hdr = h.hdr /\ g.foot = h.foot
      /\ g.bins = [h.bins EXCEPT ![b] = @ \cup {a}]
      /\ g.l2bm = [h.l2bm EXCEPT ![b[1]] = @ \cup {b[2]}]
      /\ g.l1bm = h.l1bm \cup {b[1]}
      /\ g.wild = (h.wild \/ h.hdr[a].sz < MinNU)
  BY <1>4 DEF HeapT
<1>6. g \in HeapT
  <2>1. g = [hdr |-> g.hdr, foot |-> g.foot, bins |-> g.bins, l1bm |-> g.l1bm, l2bm |-> g.l2bm,
             wild |-> g.wild]
    BY <1>4 DEF HeapT
  <2>2. g.bins \in [Bins -> SUBSET Addr] /\ g.l2bm \in [L1 -> SUBSET Nat] /\ g.l1bm \in SUBSET L1
    BY <1>2, <1>3, <1>5
  <2>3. g.wild \in BOOLEAN
    BY <1>5
  <2> QED
    BY <2>1, <2>2, <2>3, <1>3, <1>5 DEF HeapT
<1>7. \A c \in Bins : h.bins[c] = { x \in F : calc_tlsf_indices(h.hdr[x].sz) = c }
  BY DEF Binned
<1>8. \A i \in L1 : h.l2bm[i] = { j \in 0 .. (Pow2[L2Len] - 1) :
                                   << i, j >> \in Bins /\ h.bins[<< i, j >>] # {} }
  BY DEF Binned
<1>9. h.l1bm = { i \in L1 : h.l2bm[i] # {} }
  BY DEF Binned
<1>10. ASSUME NEW c \in Bins
       PROVE  g.bins[c] = { x \in F \cup {a} : calc_tlsf_indices(g.hdr[x].sz) = c }
  <2>1. CASE c = b
    BY <2>1, <1>1, <1>3, <1>5, <1>7
  <2>2. CASE c # b
    BY <2>2, <1>1, <1>3, <1>5, <1>7
  <2> QED
    BY <2>1, <2>2
<1>11. ASSUME NEW i \in L1
       PROVE  g.l2bm[i] = { j \in 0 .. (Pow2[L2Len] - 1) :
                              << i, j >> \in Bins /\ g.bins[<< i, j >>] # {} }
  <2>1. CASE i # b[1]
    <3>1. g.l2bm[i] = h.l2bm[i]
      BY <2>1, <1>3, <1>5
    <3>2. \A j : << i, j >> \in Bins => g.bins[<< i, j >>] = h.bins[<< i, j >>]
      BY <2>1, <1>2, <1>3, <1>5
    <3> QED
      BY <3>1, <3>2, <1>8
  <2>2. CASE i = b[1]
    <3>1. g.l2bm[i] = h.l2bm[i] \cup {b[2]}
      BY <2>2, <1>2, <1>3, <1>5
    <3>2. \A j : << i, j >> \in Bins /\ j # b[2] => g.bins[<< i, j >>] = h.bins[<< i, j >>]
      BY <2>2, <1>2, <1>3, <1>5
    <3>3. << i, b[2] >> = b /\ a \in g.bins[b]
      BY <2>2, <1>2, <1>3, <1>5
    <3>4. << i, b[2] >> \in Bins /\ g.bins[<< i, b[2] >>] # {}
      BY <3>3
    <3>5. h.l2bm[i] = { j \in 0 .. (Pow2[L2Len] - 1) :
                          << i, j >> \in Bins /\ h.bins[<< i, j >>] # {} }
      BY <1>8
    <3> QED
      BY <3>1, <3>2, <3>4, <3>5, <1>2
  <2> QED
    BY <2>1, <2>2
<1>12. g.l1bm = { i \in L1 : g.l2bm[i] # {} }
  <2>1. \A i \in L1 : i # b[1] => g.l2bm[i] = h.l2bm[i]
    BY <1>3, <1>5
  <2>2. b[2] \in g.l2bm[b[1]]
    BY <1>2, <1>3, <1>5
  <2> QED
    BY <2>1, <2>2, <1>2, <1>5, <1>9
<1> QED
  BY <1>1, <1>5, <1>6, <1>10, <1>11, <1>12 DEF Binned, SameWords

\* Writing words keeps the bins if it keeps the sizes of the blocks they hold.
LEMMA WordsKeepBins ==
  ASSUME NEW h, NEW g, NEW F, Binned(h, F), SameBins(h, g), \A a \in F : g.hdr[a].sz = h.hdr[a].sz
  PROVE  Binned(g, F)
  BY DEF Binned, SameBins

-----------------------------------------------------------------------------
(* Words.                                                                    *)

\* A size word with another PREV_ALLOC_BIT.
LEMMA WithPrev ==
  ASSUME NEW r \in HdrT, NEW x \in BOOLEAN
  PROVE  [r EXCEPT !.palloc = x] = Tag(r.sz, r.alloc, x)
  BY DEF HdrT, Tag

LEMMA TagTyped ==
  ASSUME NEW len \in Nat, NEW x \in BOOLEAN, NEW y \in BOOLEAN
  PROVE  /\ Tag(len, x, y) \in HdrT
         /\ Tag(len, x, y).sz = len /\ Tag(len, x, y).alloc = x /\ Tag(len, x, y).palloc = y
  BY DEF HdrT, Tag

\* A size word with another ALLOC_BIT, or another size.
LEMMA WithAlloc ==
  ASSUME NEW r \in HdrT, NEW x \in BOOLEAN
  PROVE  [r EXCEPT !.alloc = x] = Tag(r.sz, x, r.palloc) /\ Tag(r.sz, x, r.palloc) \in HdrT
  BY DEF HdrT, Tag

LEMMA WithLen ==
  ASSUME NEW r \in HdrT, NEW len \in Nat
  PROVE  /\ [r EXCEPT !.sz = len] = Tag(len, r.alloc, r.palloc)
         /\ Tag(len, r.alloc, r.palloc) \in HdrT
  BY DEF HdrT, Tag

\* g is h with a block and its tags from a up to n.
Wrote(h, g, a, n, tag) ==
  /\ \A b \in Addr : g.hdr[b] = IF b = a THEN tag
                                ELSE IF a < b /\ b < n THEN Garbage ELSE h.hdr[b]
  /\ \A b \in Addr : g.foot[b] = IF b = n - 1 THEN n - a
                                 ELSE IF a <= b /\ b < n THEN 0 ELSE h.foot[b]

LEMMA SetFree ==
  ASSUME NEW h \in HeapT, NEW a \in Addr, NEW len \in Nat, NEW tag \in HdrT,
         NEW g, g = set_free_mb(h, a, len, tag), NEW n \in Int, n = a + len
  PROVE  g \in HeapT /\ SameBins(h, g) /\ Wrote(h, g, a, n, tag)
<1>1. /\ h.bins \in [Bins -> SUBSET Addr] /\ h.l2bm \in [L1 -> SUBSET Nat] /\ h.l1bm \in SUBSET L1
      /\ h.hdr \in [Addr -> HdrT] /\ h.foot \in [Addr -> Nat] /\ h.wild \in BOOLEAN
  BY DEF HeapT
<1>2. /\ g.hdr = [b \in Addr |-> IF b = a THEN tag
                                 ELSE IF a < b /\ b < a + len THEN Garbage ELSE h.hdr[b]]
      /\ g.foot = [b \in Addr |-> IF b = a + len - 1 THEN len
                                  ELSE IF a <= b /\ b < a + len THEN 0 ELSE h.foot[b]]
      /\ g.bins = h.bins /\ g.l1bm = h.l1bm /\ g.l2bm = h.l2bm /\ g.wild = h.wild
  BY DEF set_free_mb, HeapT
<1>3. g = [hdr |-> g.hdr, foot |-> g.foot, bins |-> g.bins, l1bm |-> g.l1bm, l2bm |-> g.l2bm,
           wild |-> g.wild]
  BY DEF set_free_mb, HeapT
<1>4. Garbage \in HdrT
  BY DEF Garbage, HdrT
<1>5. g.hdr \in [Addr -> HdrT] /\ g.foot \in [Addr -> Nat]
  BY <1>1, <1>2, <1>4
<1>6. g \in HeapT
  BY <1>1, <1>2, <1>3, <1>5 DEF HeapT
<1>7. a \in Int /\ len = n - a /\ a + len - 1 = n - 1
  BY DEF Addr
<1>8. ASSUME NEW b \in Addr
      PROVE  /\ g.hdr[b] = IF b = a THEN tag
                           ELSE IF a < b /\ b < n THEN Garbage ELSE h.hdr[b]
             /\ g.foot[b] = IF b = n - 1 THEN n - a
                            ELSE IF a <= b /\ b < n THEN 0 ELSE h.foot[b]
  <2>1. /\ g.hdr[b] = IF b = a THEN tag
                      ELSE IF a < b /\ b < a + len THEN Garbage ELSE h.hdr[b]
        /\ g.foot[b] = IF b = a + len - 1 THEN len
                       ELSE IF a <= b /\ b < a + len THEN 0 ELSE h.foot[b]
    BY <1>2
  <2> QED
    BY <2>1, <1>7
<1>9. Wrote(h, g, a, n, tag)
  BY <1>8 DEF Wrote
<1> QED
  BY <1>2, <1>6, <1>9 DEF SameBins

\* g is h with a block the caller holds from a up to n.
Allotted(h, g, a, n) ==
  /\ \A b \in Addr : g.hdr[b] = IF b = a THEN Tag(n - a, TRUE, h.hdr[a].palloc)
                                ELSE IF a < b /\ b < n THEN Garbage
                                ELSE IF b = n THEN Tag(h.hdr[b].sz, h.hdr[b].alloc, TRUE)
                                ELSE h.hdr[b]
  /\ \A b \in Addr : b < a \/ n <= b => g.foot[b] = h.foot[b]

LEMMA SetAlloc ==
  ASSUME NEW h \in HeapT, NEW a \in Addr, NEW len \in Nat,
         NEW g, g = set_alloc_mb(h, a, len), NEW n \in Int, n = a + len
  PROVE  g \in HeapT /\ SameBins(h, g) /\ Allotted(h, g, a, n)
<1>1. /\ h.bins \in [Bins -> SUBSET Addr] /\ h.l2bm \in [L1 -> SUBSET Nat] /\ h.l1bm \in SUBSET L1
      /\ h.hdr \in [Addr -> HdrT] /\ h.foot \in [Addr -> Nat] /\ h.wild \in BOOLEAN
  BY DEF HeapT
<1>2. /\ g.hdr = [b \in Addr |-> IF b = a THEN Tag(len, TRUE, h.hdr[b].palloc)
                                 ELSE IF a < b /\ b < a + len THEN Garbage
                                 ELSE IF b = a + len THEN [h.hdr[b] EXCEPT !.palloc = TRUE]
                                 ELSE h.hdr[b]]
      /\ g.foot = [b \in Addr |-> IF a <= b /\ b < a + len THEN 0 ELSE h.foot[b]]
      /\ g.bins = h.bins /\ g.l1bm = h.l1bm /\ g.l2bm = h.l2bm /\ g.wild = h.wild
  BY DEF set_alloc_mb, HeapT
<1>3. g = [hdr |-> g.hdr, foot |-> g.foot, bins |-> g.bins, l1bm |-> g.l1bm, l2bm |-> g.l2bm,
           wild |-> g.wild]
  BY DEF set_alloc_mb, HeapT
<1>4. Garbage \in HdrT
  BY DEF Garbage, HdrT
<1>5. \A b \in Addr : [h.hdr[b] EXCEPT !.palloc = TRUE] = Tag(h.hdr[b].sz, h.hdr[b].alloc, TRUE)
  <2>1. \A b \in Addr : h.hdr[b] \in HdrT
    BY <1>1
  <2> QED
    BY <2>1, WithPrev
<1>6. \A b \in Addr : /\ Tag(h.hdr[b].sz, h.hdr[b].alloc, TRUE) \in HdrT
                      /\ Tag(len, TRUE, h.hdr[b].palloc) \in HdrT
  BY <1>1 DEF HdrT, Tag
<1>7. g.hdr \in [Addr -> HdrT] /\ g.foot \in [Addr -> Nat]
  <2>1. ASSUME NEW b \in Addr PROVE g.hdr[b] \in HdrT
    <3>1. g.hdr[b] = IF b = a THEN Tag(len, TRUE, h.hdr[b].palloc)
                     ELSE IF a < b /\ b < a + len THEN Garbage
                     ELSE IF b = a + len THEN Tag(h.hdr[b].sz, h.hdr[b].alloc, TRUE)
                     ELSE h.hdr[b]
      BY <1>2, <1>5
    <3>2. h.hdr[b] \in HdrT
      BY <1>1
    <3> QED
      BY <3>1, <3>2, <1>4, <1>6
  <2>2. g.hdr = [b \in Addr |-> g.hdr[b]]
    BY <1>2
  <2>3. g.hdr \in [Addr -> HdrT]
    BY <2>1, <2>2
  <2>4. g.foot \in [Addr -> Nat]
    BY <1>1, <1>2
  <2> QED
    BY <2>3, <2>4
<1>8. g \in HeapT
  BY <1>1, <1>2, <1>3, <1>7 DEF HeapT
<1>9. \A b \in Addr : g.hdr[b] = IF b = a THEN Tag(len, TRUE, h.hdr[a].palloc)
                                 ELSE IF a < b /\ b < a + len THEN Garbage
                                 ELSE IF b = a + len
                                 THEN Tag(h.hdr[b].sz, h.hdr[b].alloc, TRUE)
                                 ELSE h.hdr[b]
  BY <1>2, <1>5
<1>10. \A b \in Addr : b < a \/ a + len <= b => g.foot[b] = h.foot[b]
  BY <1>1, <1>2 DEF Addr
<1>11. len = n - a
  BY DEF Addr
<1>12. \A b \in Addr : g.hdr[b] = IF b = a THEN Tag(n - a, TRUE, h.hdr[a].palloc)
                                  ELSE IF a < b /\ b < n THEN Garbage
                                  ELSE IF b = n THEN Tag(h.hdr[b].sz, h.hdr[b].alloc, TRUE)
                                  ELSE h.hdr[b]
  BY <1>9, <1>11
<1> QED
  BY <1>2, <1>8, <1>10, <1>12 DEF SameBins, Allotted

WithTag(h, n, tag) == [h EXCEPT !.hdr[n] = tag]
PrevCleared(h, n) == [h EXCEPT !.hdr[n].palloc = FALSE]
WithSize(h, n, len) == [h EXCEPT !.hdr[n].sz = len]

\* g is h with another size word at n.
WroteTag(h, g, n, tag) == \A b \in Addr : g.hdr[b] = IF b = n THEN tag ELSE h.hdr[b]

\* Writing one size word.
LEMMA SetTag ==
  ASSUME NEW h \in HeapT, NEW n \in Addr, NEW tag \in HdrT,
         NEW g, g = WithTag(h, n, tag)
  PROVE  g \in HeapT /\ SameBins(h, g) /\ g.foot = h.foot /\ WroteTag(h, g, n, tag)
<1>1. /\ h.bins \in [Bins -> SUBSET Addr] /\ h.l2bm \in [L1 -> SUBSET Nat] /\ h.l1bm \in SUBSET L1
      /\ h.hdr \in [Addr -> HdrT] /\ h.foot \in [Addr -> Nat] /\ h.wild \in BOOLEAN
  BY DEF HeapT
<1>2. /\ g.hdr = [h.hdr EXCEPT ![n] = tag] /\ g.foot = h.foot
      /\ g.bins = h.bins /\ g.l1bm = h.l1bm /\ g.l2bm = h.l2bm /\ g.wild = h.wild
  BY DEF HeapT, WithTag
<1>3. g = [hdr |-> g.hdr, foot |-> g.foot, bins |-> g.bins, l1bm |-> g.l1bm, l2bm |-> g.l2bm,
           wild |-> g.wild]
  BY DEF HeapT, WithTag
<1>4. g.hdr \in [Addr -> HdrT]
  BY <1>1, <1>2
<1>5. g \in HeapT
  BY <1>1, <1>2, <1>3, <1>4 DEF HeapT
<1>6. \A b \in Addr : g.hdr[b] = IF b = n THEN tag ELSE h.hdr[b]
  BY <1>1, <1>2
<1> QED
  BY <1>2, <1>5, <1>6 DEF SameBins, WroteTag

\* PREV_ALLOC_BIT of the word at n is cleared.
LEMMA ClearPrev ==
  ASSUME NEW h \in HeapT, NEW n \in Addr,
         NEW g, g = PrevCleared(h, n)
  PROVE  /\ g \in HeapT /\ SameBins(h, g) /\ g.foot = h.foot
         /\ WroteTag(h, g, n, Tag(h.hdr[n].sz, h.hdr[n].alloc, FALSE))
<1>1. h.hdr[n] \in HdrT
  BY DEF HeapT
<1>2. [h.hdr[n] EXCEPT !.palloc = FALSE] = Tag(h.hdr[n].sz, h.hdr[n].alloc, FALSE)
  BY <1>1, WithPrev
<1>3. Tag(h.hdr[n].sz, h.hdr[n].alloc, FALSE) \in HdrT
  BY <1>1 DEF HdrT, Tag
<1>4. PICK tag \in HdrT : tag = Tag(h.hdr[n].sz, h.hdr[n].alloc, FALSE)
  BY <1>3
<1>5. g = WithTag(h, n, tag)
  BY <1>2, <1>4 DEF WithTag, PrevCleared
<1>6. g \in HeapT /\ SameBins(h, g) /\ g.foot = h.foot /\ WroteTag(h, g, n, tag)
  BY <1>5, SetTag
<1> QED
  BY <1>4, <1>6

\* What clearing the flag leaves, as one fact.
Cleared(h, n, g) ==
  /\ g \in HeapT /\ SameBins(h, g) /\ g.foot = h.foot
  /\ WroteTag(h, g, n, Tag(h.hdr[n].sz, h.hdr[n].alloc, FALSE))

LEMMA ClearPrevIs ==
  ASSUME NEW h \in HeapT, NEW n \in Addr,
         NEW g, g = PrevCleared(h, n)
  PROVE  Cleared(h, n, g)
BY ClearPrev DEF Cleared

\* The block at n gets another size.
LEMMA SetSize ==
  ASSUME NEW h \in HeapT, NEW n \in Addr, NEW len \in Nat,
         NEW g, g = WithSize(h, n, len)
  PROVE  /\ g \in HeapT /\ SameBins(h, g) /\ g.foot = h.foot
         /\ WroteTag(h, g, n, Tag(len, h.hdr[n].alloc, h.hdr[n].palloc))
<1>1. h.hdr[n] \in HdrT
  BY DEF HeapT
<1>2. [h.hdr[n] EXCEPT !.sz = len] = Tag(len, h.hdr[n].alloc, h.hdr[n].palloc)
  BY <1>1 DEF HdrT, Tag
<1>3. Tag(len, h.hdr[n].alloc, h.hdr[n].palloc) \in HdrT
  BY <1>1 DEF HdrT, Tag
<1>4. PICK tag \in HdrT : tag = Tag(len, h.hdr[n].alloc, h.hdr[n].palloc)
  BY <1>3
<1>5. g = WithTag(h, n, tag)
  BY <1>2, <1>4 DEF WithTag, WithSize
<1>6. g \in HeapT /\ SameBins(h, g) /\ g.foot = h.foot /\ WroteTag(h, g, n, tag)
  BY <1>5, SetTag
<1> QED
  BY <1>4, <1>6

-----------------------------------------------------------------------------
(* Sound heaps.                                                              *)

Held(h) == Blocks(h) \ FreeBlocks(h)

Sound(h, P) == h \in HeapT /\ Layout(h, P) /\ Binned(h, FreeBlocks(h))

\* What a recut leaves free and what it leaves held.
FreeAfter(h, lo, m, hi, al) ==
  (FreeBlocks(h) \ (lo .. hi - 1)) \cup (IF m < hi THEN {m} ELSE IF al = TRUE THEN {} ELSE {lo})
HeldAfter(h, lo, hi, al) ==
  (Held(h) \ (lo .. hi - 1)) \cup (IF al = TRUE THEN {lo} ELSE {})

Accounts(h, g, lo, m, hi, al) ==
  /\ FreeBlocks(g) = FreeAfter(h, lo, m, hi, al)
  /\ Held(g) = HeldAfter(h, lo, hi, al)
  /\ \A b \in Held(g) : b # lo => g.hdr[b].sz = h.hdr[b].sz

LEMMA RecutFree ==
  ASSUME NEW h \in HeapT, NEW g \in HeapT, NEW P, Layout(h, P),
         NEW lo, NEW m \in Int, NEW hi, NEW al \in BOOLEAN, Region(h, P, lo, hi),
         lo < m, m <= hi, Recut(h, g, lo, m, hi, al)
  PROVE  Accounts(h, g, lo, m, hi, al)
<1>1. Leaves(h, g, lo, m, hi, al)
  BY RecutBlocks
<1>2. /\ lo \in Int /\ hi \in Int /\ lo < hi /\ lo \in Blocks(h)
      /\ Blocks(h) \subseteq Addr /\ Blocks(g) \subseteq Addr
      /\ FreeBlocks(h) \subseteq Blocks(h) /\ FreeBlocks(g) \subseteq Blocks(g)
      /\ Addr \subseteq Int
  <2>1. lo \in Blocks(h) /\ hi \in Addr /\ lo < hi
    BY DEF Region
  <2> QED
    BY <2>1 DEF Addr, Blocks, FreeBlocks
<1>3. \A b \in Addr : b \in lo .. hi - 1 <=> ~ (b < lo \/ hi <= b)
  BY <1>2
<1>4. \A b : b \in Blocks(g) <=> \/ b \in Blocks(h) /\ (b < lo \/ hi <= b)
                                 \/ b = lo
                                 \/ b = m /\ m < hi
  BY <1>1 DEF Leaves
<1>5. \A b : b \in FreeBlocks(g) <=> \/ b \in FreeBlocks(h) /\ (b < lo \/ hi <= b)
                                     \/ b = lo /\ al = FALSE
                                     \/ b = m /\ m < hi
  BY <1>1 DEF Leaves
<1>6. m < hi => al = TRUE
  BY DEF Recut
<1>7. FreeBlocks(g) = (FreeBlocks(h) \ (lo .. hi - 1))
                      \cup (IF m < hi THEN {m} ELSE IF al = TRUE THEN {} ELSE {lo})
  <2>1. ASSUME NEW b
        PROVE  b \in FreeBlocks(g) <=>
                 \/ b \in FreeBlocks(h) \ (lo .. hi - 1)
                 \/ b \in IF m < hi THEN {m} ELSE IF al = TRUE THEN {} ELSE {lo}
    <3>1. b \in FreeBlocks(h) => (b \in lo .. hi - 1 <=> ~ (b < lo \/ hi <= b))
      BY <1>2, <1>3
    <3>2. b \in FreeBlocks(g) <=> \/ b \in FreeBlocks(h) \ (lo .. hi - 1)
                                  \/ b = lo /\ al = FALSE
                                  \/ b = m /\ m < hi
      BY <3>1, <1>5
    <3>3. ((b = lo /\ al = FALSE) \/ (b = m /\ m < hi)) <=>
            b \in IF m < hi THEN {m} ELSE IF al = TRUE THEN {} ELSE {lo}
      BY <1>6
    <3> QED
      BY <3>2, <3>3
  <2> QED
    BY <2>1
<1>8. Held(g) = (Held(h) \ (lo .. hi - 1)) \cup (IF al = TRUE THEN {lo} ELSE {})
  <2>1. ASSUME NEW b
        PROVE  b \in Held(g) <=>
                 \/ b \in Held(h) \ (lo .. hi - 1)
                 \/ b \in IF al = TRUE THEN {lo} ELSE {}
    <3>1. CASE b = lo
      <4>1. b \in Blocks(g) /\ (b \in FreeBlocks(g) <=> al = FALSE) /\ b \in lo .. hi - 1
        BY <3>1, <1>2, <1>4, <1>5
      <4> QED
        BY <3>1, <4>1 DEF Held
    <3>2. CASE b = m /\ m < hi
      <4>1. b \in FreeBlocks(g) /\ b \in lo .. hi - 1 /\ b # lo
        BY <3>2, <1>2, <1>5
      <4> QED
        BY <4>1 DEF Held
    <3>3. CASE b # lo /\ ~ (b = m /\ m < hi)
      <4>1. b \in Blocks(h) => (b \in lo .. hi - 1 <=> ~ (b < lo \/ hi <= b))
        BY <1>2, <1>3
      <4>2. b \in Blocks(g) <=> b \in Blocks(h) /\ (b < lo \/ hi <= b)
        BY <3>3, <1>4
      <4>3. b \in FreeBlocks(g) <=> b \in FreeBlocks(h) /\ (b < lo \/ hi <= b)
        BY <3>3, <1>5
      <4> QED
        BY <3>3, <4>1, <4>2, <4>3, <1>2 DEF Held
    <3> QED
      BY <3>1, <3>2, <3>3
  <2> QED
    BY <2>1
<1>9. ASSUME NEW b \in Held(g), b # lo PROVE g.hdr[b].sz = h.hdr[b].sz
  <2>1. b \in Blocks(g) /\ b \notin FreeBlocks(g) /\ b \in Addr
    BY <1>2 DEF Held
  <2>2. b < lo \/ hi <= b
    BY <2>1, <1>4, <1>5, <1>9
  <2> QED
    BY <2>1, <2>2, <1>1 DEF Leaves
<1> QED
  BY <1>7, <1>8, <1>9 DEF Accounts, FreeAfter, HeldAfter

\* A recut with the right bins leaves a sound heap.
LEMMA RecutSound ==
  ASSUME NEW h, NEW g \in HeapT, NEW P, NEW e \in 1 .. MemLen + 1,
         PoolsApart(P, e), Sound(h, P),
         NEW lo, NEW m \in Int, NEW hi, NEW al \in BOOLEAN, Region(h, P, lo, hi),
         lo < m, m <= hi, Recut(h, g, lo, m, hi, al),
         m < hi \/ al = FALSE => h.hdr[hi].alloc = TRUE,
         al = FALSE => h.hdr[lo].palloc = TRUE,
         Binned(g, FreeAfter(h, lo, m, hi, al))
  PROVE  Sound(g, P) /\ Accounts(h, g, lo, m, hi, al)
<1>1. h \in HeapT /\ Layout(h, P)
  BY DEF Sound
<1>2. Layout(g, P)
  BY <1>1, RecutKeeps
<1>3. Accounts(h, g, lo, m, hi, al)
  BY <1>1, RecutFree
<1>4. Binned(g, FreeBlocks(g))
  BY <1>3 DEF Accounts
<1> QED
  BY <1>2, <1>3, <1>4 DEF Sound

\* The free block at a, with the word at n behind it.
Edges(h, a, n) ==
  /\ a \in Blocks(h) /\ a \in Addr /\ h.hdr[a].sz \in Nat /\ h.hdr[a].sz > 0
  /\ h.hdr[a].alloc = FALSE /\ h.hdr[a].palloc = TRUE
  /\ n \in Addr /\ h.hdr[n].alloc = TRUE /\ h.hdr[n].palloc = FALSE

\* A free block has allocated neighbours.
LEMMA FreeEdges ==
  ASSUME NEW h, NEW P, NEW e \in 1 .. MemLen + 1, PoolsApart(P, e), Sound(h, P),
         NEW a \in FreeBlocks(h)
  PROVE  Edges(h, a, a + h.hdr[a].sz)
<1>1. h \in HeapT /\ Layout(h, P)
  BY DEF Sound
<1>2. ASSUME NEW b \in Addr PROVE h.hdr[b].alloc \in BOOLEAN /\ h.hdr[b].palloc \in BOOLEAN /\ h.hdr[b].sz \in Nat
  BY <1>1 DEF HeapT, HdrT
<1>3. a \in Blocks(h) /\ a \in Addr /\ h.hdr[a].sz > 0 /\ ~ h.hdr[a].alloc
  BY DEF FreeBlocks, Blocks
<1>4. h.hdr[a].alloc = FALSE /\ h.hdr[a].sz \in Nat
  BY <1>2, <1>3
<1>5. PICK n \in Addr : n = a + h.hdr[a].sz /\ (n \in Blocks(h) \/ \E p \in P : n = PoolEnd(p))
  BY <1>1, <1>3, NextOf
<1>6. h.hdr[n].alloc = TRUE
  <2>1. CASE n \in Blocks(h)
    <3>1. n \notin FreeBlocks(h)
      BY <1>1, <1>5 DEF Layout, HeapCoalesced
    <3> QED
      BY <3>1, <2>1, <1>2 DEF FreeBlocks
  <2>2. CASE \E p \in P : n = PoolEnd(p)
    BY <2>2, <1>1 DEF Layout, Ended
  <2> QED
    BY <2>1, <2>2, <1>5
<1>7. h.hdr[n].palloc = FALSE
  BY <1>1, <1>3, <1>4, <1>5 DEF Layout, HeapTagged
<1>8. h.hdr[a].palloc = TRUE
  <2>1. PICK p \in P : p.start <= a /\ a + h.hdr[a].sz <= PoolEnd(p)
    BY <1>1, <1>3 DEF Layout, Placed
  <2>2. CASE a = p.start
    BY <2>2, <1>1 DEF Layout, Ended
  <2>3. CASE a # p.start
    <3>1. p.start < a /\ a <= PoolEnd(p)
      <4>1. p.start \in Nat /\ p.ulen \in Nat
        BY DEF PoolsApart
      <4> QED
        BY <4>1, <2>1, <2>3, <1>3, <1>4 DEF Addr, PoolEnd
    <3>2. PICK c \in Blocks(h) : c + h.hdr[c].sz = a
      BY <3>1, <1>1, <1>3, PrevOf
    <3>3. h.hdr[a].palloc = h.hdr[c].alloc /\ c \in Addr
      BY <3>2, <1>1 DEF Layout, HeapTagged, Blocks
    <3>4. c \notin FreeBlocks(h)
      BY <3>2, <1>1 DEF Layout, HeapCoalesced
    <3>5. h.hdr[c].alloc = TRUE
      BY <3>3, <3>4, <1>2 DEF FreeBlocks
    <3> QED
      BY <3>3, <3>5
  <2> QED
    BY <2>2, <2>3
<1>9. Edges(h, a, n)
  BY <1>3, <1>4, <1>5, <1>6, <1>7, <1>8 DEF Edges
<1> QED
  BY <1>5, <1>9

\* The free block before a block, read from its tags.
LEMMA PrevFree ==
  ASSUME NEW h, NEW P, NEW e \in 1 .. MemLen + 1, PoolsApart(P, e), Sound(h, P),
         NEW n \in Blocks(h), h.hdr[n].palloc = FALSE
  PROVE  /\ n - 1 \in Addr /\ n - h.foot[n - 1] \in FreeBlocks(h)
         /\ h.hdr[n - h.foot[n - 1]].sz = h.foot[n - 1]
<1>1. h \in HeapT /\ Layout(h, P)
  BY DEF Sound
<1>2. n \in Addr /\ h.hdr[n].sz \in Nat /\ h.hdr[n].sz > 0
  BY <1>1 DEF Blocks, HeapT, HdrT
<1>3. PICK p \in P : p.start <= n /\ n + h.hdr[n].sz <= PoolEnd(p)
  BY <1>1 DEF Layout, Placed
<1>4. n # p.start
  BY <1>1 DEF Layout, Ended
<1>5. p.start \in Nat /\ p.ulen \in Nat /\ PoolHdr < p.start /\ PoolHdr \in Nat
  BY BlockAssumption DEF PoolsApart
<1>6. p.start < n /\ n <= PoolEnd(p)
  BY <1>2, <1>3, <1>4, <1>5 DEF Addr, PoolEnd
<1>7. PICK c \in Blocks(h) : c + h.hdr[c].sz = n
  BY <1>1, <1>2, <1>6, PrevOf
<1>8. c \in Addr /\ h.hdr[c].sz \in Nat /\ h.hdr[c].alloc \in BOOLEAN
  BY <1>1 DEF Blocks, HeapT, HdrT
<1>9. h.hdr[n].palloc = h.hdr[c].alloc /\ (~ h.hdr[c].alloc => h.foot[n - 1] = h.hdr[c].sz)
  BY <1>1, <1>7 DEF Layout, HeapTagged
<1>10. ~ h.hdr[c].alloc /\ h.foot[n - 1] = h.hdr[c].sz
  BY <1>8, <1>9
<1>11. c = n - h.foot[n - 1] /\ c \in FreeBlocks(h)
  BY <1>2, <1>7, <1>8, <1>10 DEF FreeBlocks, Addr
<1>12. n - 1 \in Addr
  BY <1>2, <1>5, <1>6, BlockAssumption DEF Addr
<1> QED
  BY <1>10, <1>11, <1>12

\* Every size of a block has a bin.
LEMMA SizeIn ==
  ASSUME NEW n \in Int, 0 < n, n <= MemLen
  PROVE  n \in Sizes /\ calc_tlsf_indices(n) \in Bins
<1>1. NumL2 \in 0 .. NumL2 /\ MemLen \in Nat /\ MemLen < Pow2[NumL2]
  BY GeometryAssumption, BlockAssumption
<1>2. Pow2[NumL2] \in Nat
  BY <1>1, Pow2Is
<1>3. n \in Sizes
  BY <1>1, <1>2 DEF Sizes
<1> QED
  BY <1>3, ClassOf

LEMMA RemBlk ==
  ASSUME NEW h \in HeapT, NEW F \in SUBSET Addr, NEW a \in F, Binned(h, F),
         0 < h.hdr[a].sz, h.hdr[a].sz <= MemLen,
         NEW g, g = tlsf_rem_blk_c(h, a)
  PROVE  g \in HeapT /\ SameWords(h, g) /\ Binned(g, F \ {a})
<1>1. h.hdr[a].sz \in Int
  BY DEF HeapT, HdrT
<1>2. PICK b \in Bins : b = calc_tlsf_indices(h.hdr[a].sz)
  BY <1>1, SizeIn
<1>3. g = tlsf_rem_blk(h, a, b)
  BY <1>2 DEF tlsf_rem_blk_c
<1> QED
  BY <1>2, <1>3, RemBins

\* g is h with the units from lo up to n as one free block.
Merged(h, g, lo, n) ==
  /\ g.hdr[lo] = Tag(n - lo, FALSE, TRUE)
  /\ \A b \in Addr : lo < b /\ b < n => g.hdr[b].sz = 0
  /\ \A b \in Addr : b < lo \/ n <= b => g.hdr[b] = h.hdr[b]
  /\ \A b \in Addr : b < lo \/ n <= b => g.foot[b] = h.foot[b]
  /\ g.foot[n - 1] = n - lo

\* tlsf_coalesce_and_insert, as far as the block in front.
JoinPrev(h, mb) ==
  LET t  == h.hdr[mb]
      h0 == set_free_mb(h, mb, t.sz, [t EXCEPT !.alloc = FALSE])
      psz == IF t.palloc THEN 0 ELSE h0.foot[mb - 1]
      a   == mb - psz
  IN  IF t.palloc THEN h0
      ELSE set_free_mb(tlsf_rem_blk_c(h0, a), a, psz + t.sz, Tag(psz + t.sz, FALSE, TRUE))

\* The same, as far as the block behind.
JoinNext(h1, a, n) ==
  IF h1.hdr[n].alloc
  THEN PrevCleared(h1, n)
  ELSE set_free_mb(tlsf_rem_blk_c(h1, n), a, n - a + h1.hdr[n].sz,
                   Tag(n - a + h1.hdr[n].sz, FALSE, TRUE))

JoinedAt(h, mb) == IF h.hdr[mb].palloc THEN mb ELSE mb - h.foot[mb - 1]

LEMMA PrevJoined ==
  ASSUME NEW h, NEW P, NEW e \in 1 .. MemLen + 1, PoolsApart(P, e), Sound(h, P),
         NEW mb \in Held(h), NEW g, g = JoinPrev(h, mb),
         NEW lo, lo = JoinedAt(h, mb), NEW n, n = mb + h.hdr[mb].sz
  PROVE  /\ g \in HeapT /\ Region(h, P, lo, n) /\ h.hdr[lo].palloc = TRUE
         /\ Merged(h, g, lo, n) /\ Binned(g, FreeBlocks(h) \ (lo .. n - 1))
         /\ Held(h) \cap (lo .. n - 1) = {mb}
<1>1. h \in HeapT /\ Layout(h, P) /\ Binned(h, FreeBlocks(h))
  BY DEF Sound
<1>2. mb \in Blocks(h) /\ mb \notin FreeBlocks(h) /\ mb \in Addr /\ FreeBlocks(h) \subseteq Addr
  BY DEF Held, FreeBlocks, Blocks
<1>3. PICK t \in HdrT : t = h.hdr[mb]
  BY <1>1, <1>2 DEF HeapT
<1>4. t.sz \in Nat /\ t.sz > 0 /\ t.palloc \in BOOLEAN
  BY <1>2, <1>3 DEF Blocks, HdrT
<1>5. n \in Addr /\ mb < n /\ n = mb + t.sz
  BY <1>1, <1>2, <1>3, NextOf
<1>6. Region(h, P, mb, n)
  BY <1>1, <1>2, RegionOne
<1>7. PICK tag \in HdrT : tag = Tag(t.sz, FALSE, t.palloc) /\ tag = [t EXCEPT !.alloc = FALSE]
  BY WithAlloc
<1>8. PICK h0 : h0 = set_free_mb(h, mb, t.sz, tag)
  OBVIOUS
<1>9. /\ h0 \in HeapT /\ SameBins(h, h0)
      /\ \A b \in Addr : h0.hdr[b] = IF b = mb THEN tag
                                     ELSE IF mb < b /\ b < n THEN Garbage ELSE h.hdr[b]
      /\ \A b \in Addr : h0.foot[b] = IF b = n - 1 THEN n - mb
                                      ELSE IF mb <= b /\ b < n THEN 0 ELSE h.foot[b]
  <2>1. n \in Int
    BY <1>5 DEF Addr
  <2>2. h0 \in HeapT /\ SameBins(h, h0) /\ Wrote(h, h0, mb, n, tag)
    BY <2>1, <1>1, <1>2, <1>4, <1>5, <1>8, SetFree
  <2> QED
    BY <2>2 DEF Wrote
<1>10. ASSUME NEW b \in Blocks(h), b # mb
       PROVE  (b < mb \/ n <= b) /\ b \in Addr /\ b \in Int /\ h.hdr[b].sz \in Nat /\ h.hdr[b].sz > 0
              /\ (b < mb => b + h.hdr[b].sz <= mb)
  <2>1. b \in Addr /\ h.hdr[b].sz > 0
    BY DEF Blocks
  <2>2. h.hdr[b].sz \in Nat
    BY <2>1, <1>1 DEF HeapT, HdrT
  <2>3. b < mb => b + h.hdr[b].sz <= mb
    BY <1>1, <1>2 DEF Layout, Apart
  <2>4. mb < b => n <= b
    BY <1>1, <1>2, <1>3, <1>5 DEF Layout, Apart
  <2> QED
    BY <2>1, <2>2, <2>3, <2>4, <1>2, <1>10 DEF Addr
<1>11. Binned(h0, FreeBlocks(h))
  <2>1. ASSUME NEW b \in FreeBlocks(h) PROVE h0.hdr[b].sz = h.hdr[b].sz
    <3>1. b \in Blocks(h) /\ b # mb
      BY <1>2 DEF FreeBlocks
    <3>2. b \in Addr /\ ~ (mb < b /\ b < n)
      BY <3>1, <1>2, <1>5, <1>10 DEF Addr
    <3> QED
      BY <3>1, <3>2, <1>9
  <2> QED
    BY <2>1, <1>1, <1>9, WordsKeepBins
<1>12. CASE t.palloc = TRUE
  <2>1. g = h0 /\ lo = mb
    BY <1>3, <1>7, <1>8, <1>12 DEF JoinPrev, JoinedAt
  <2>2. Merged(h, g, lo, n)
    <3>1. g.hdr[lo] = Tag(n - lo, FALSE, TRUE)
      <4>1. n - lo = t.sz
        BY <2>1, <1>2, <1>4, <1>5 DEF Addr
      <4> QED
        BY <4>1, <2>1, <1>2, <1>7, <1>9, <1>12
    <3>2. \A b \in Addr : lo < b /\ b < n => g.hdr[b].sz = 0
      BY <2>1, <1>2, <1>9 DEF Garbage, Addr
    <3>3. \A b \in Addr : b < lo \/ n <= b => g.hdr[b] = h.hdr[b]
      BY <2>1, <1>2, <1>5, <1>9 DEF Addr
    <3>4. \A b \in Addr : b < lo \/ n <= b => g.foot[b] = h.foot[b]
      BY <2>1, <1>2, <1>5, <1>9 DEF Addr
    <3>5. g.foot[n - 1] = n - lo
      <4>1. n - 1 \in Addr /\ n - lo = t.sz
        BY <2>1, <1>2, <1>4, <1>5, BlockAssumption DEF Addr
      <4> QED
        BY <4>1, <2>1, <1>9
    <3> QED
      BY <3>1, <3>2, <3>3, <3>4, <3>5 DEF Merged
  <2>3. FreeBlocks(h) \ (lo .. n - 1) = FreeBlocks(h)
    <3>1. ASSUME NEW b \in FreeBlocks(h) PROVE b \notin lo .. n - 1
      <4>1. b \in Blocks(h) /\ b # mb
        BY <1>2 DEF FreeBlocks
      <4> QED
        BY <4>1, <2>1, <1>2, <1>5, <1>10 DEF Addr
    <3> QED
      BY <3>1
  <2>4. Held(h) \cap (lo .. n - 1) = {mb}
    <3>1. ASSUME NEW b \in Held(h), b \in lo .. n - 1 PROVE b = mb
      <4>1. b \in Blocks(h)
        BY DEF Held
      <4> QED
        BY <4>1, <3>1, <2>1, <1>2, <1>5, <1>10 DEF Addr
    <3>2. mb \in lo .. n - 1
      BY <2>1, <1>2, <1>5 DEF Addr
    <3> QED
      BY <3>1, <3>2
  <2> QED
    BY <2>1, <2>2, <2>3, <2>4, <1>3, <1>6, <1>9, <1>11, <1>12
<1>13. CASE t.palloc = FALSE
  <2>1. PICK psz : psz = h.foot[mb - 1]
    OBVIOUS
  <2>2. mb - 1 \in Addr /\ mb - psz \in FreeBlocks(h) /\ h.hdr[mb - psz].sz = psz
    BY <2>1, <1>2, <1>3, <1>13, PrevFree
  <2>3. PICK a \in FreeBlocks(h) : a = mb - psz
    BY <2>2
  <2>4. /\ a \in Blocks(h) /\ a \in Addr /\ h.hdr[a].sz \in Nat /\ h.hdr[a].sz > 0
        /\ h.hdr[a].palloc = TRUE
    BY FreeEdges DEF Edges
  <2>5. psz \in Nat /\ psz > 0 /\ h.hdr[a].sz = psz /\ a + psz = mb /\ a < mb
    BY <2>2, <2>3, <2>4, <1>2 DEF Addr
  <2>6. h0.foot[mb - 1] = psz
    BY <2>1, <2>2, <1>2, <1>5, <1>9 DEF Addr
  <2>7. lo = a
    BY <2>1, <2>3, <1>3, <1>13 DEF JoinedAt
  <2>8. h0.hdr[a].sz = psz
    <3>1. a # mb /\ ~ (mb < a /\ a < n)
      BY <2>5, <1>2, <2>4, <1>5 DEF Addr
    <3> QED
      BY <3>1, <2>4, <2>5, <1>9
  <2>9. PICK r : r = tlsf_rem_blk_c(h0, a)
    OBVIOUS
  <2>10. psz <= MemLen
    BY <2>4, <2>5, <1>2, BlockAssumption DEF Addr
  <2>11. r \in HeapT /\ SameWords(h0, r) /\ Binned(r, FreeBlocks(h) \ {a})
    BY <2>3, <2>5, <2>8, <2>9, <2>10, <1>2, <1>9, <1>11, RemBlk
  <2>12. PICK tg \in HdrT : tg = Tag(psz + t.sz, FALSE, TRUE)
    <3>1. psz + t.sz \in Nat
      BY <2>5, <1>4
    <3>2. Tag(psz + t.sz, FALSE, TRUE) \in HdrT
      BY <3>1, TagTyped
    <3> QED
      BY <3>2
  <2>13. g = set_free_mb(r, a, psz + t.sz, tg)
    BY <2>3, <2>6, <2>9, <2>12, <1>3, <1>7, <1>8, <1>13 DEF JoinPrev
  <2>14. PICK len \in Nat : len = psz + t.sz /\ a + len = n
    BY <2>5, <1>4, <1>5, <2>4, <1>2 DEF Addr
  <2>15. /\ g \in HeapT /\ SameBins(r, g)
         /\ \A b \in Addr : g.hdr[b] = IF b = a THEN tg
                                       ELSE IF a < b /\ b < n THEN Garbage ELSE r.hdr[b]
         /\ \A b \in Addr : g.foot[b] = IF b = n - 1 THEN n - a
                                        ELSE IF a <= b /\ b < n THEN 0 ELSE r.foot[b]
    <3>1. n \in Int
      BY <1>5 DEF Addr
    <3>2. g \in HeapT /\ SameBins(r, g) /\ Wrote(r, g, a, n, tg)
      BY <3>1, <2>4, <2>11, <2>13, <2>14, SetFree
    <3> QED
      BY <3>2 DEF Wrote
  <2>16. r.hdr = h0.hdr /\ r.foot = h0.foot
    BY <2>11 DEF SameWords
  <2>17. a \in Int /\ mb \in Int /\ n \in Int /\ Addr \subseteq Int /\ a < mb /\ mb < n
    BY <2>4, <2>5, <1>2, <1>5 DEF Addr
  <2>18. Merged(h, g, lo, n)
    <3>1. g.hdr[lo] = Tag(n - lo, FALSE, TRUE)
      <4>1. n - lo = psz + t.sz
        BY <2>7, <2>14, <2>17
      <4> QED
        BY <4>1, <2>4, <2>7, <2>12, <2>15
    <3>2. \A b \in Addr : lo < b /\ b < n => g.hdr[b].sz = 0
      BY <2>7, <2>14, <2>15, <2>17 DEF Garbage
    <3>3. ASSUME NEW b \in Addr, b < lo \/ n <= b
          PROVE  g.hdr[b] = h.hdr[b] /\ g.foot[b] = h.foot[b]
      <4>1. g.hdr[b] = h0.hdr[b] /\ g.foot[b] = h0.foot[b]
        BY <3>3, <2>7, <2>14, <2>15, <2>16, <2>17
      <4>2. b # mb /\ ~ (mb < b /\ b < n) /\ b # n - 1 /\ ~ (mb <= b /\ b < n)
        BY <3>3, <2>7, <2>17
      <4> QED
        BY <4>1, <4>2, <1>9
    <3>4. g.foot[n - 1] = n - lo
      <4>1. n - 1 \in Addr
        BY <2>7, <2>14, <2>17, <1>2, <1>5, BlockAssumption DEF Addr
      <4> QED
        BY <4>1, <2>7, <2>15, <2>17
    <3> QED
      BY <3>1, <3>2, <3>3, <3>4 DEF Merged
  <2>19. Region(h, P, lo, n)
    <3>1. Region(h, P, a, mb)
      BY <1>1, <2>4, <2>5, RegionOne
    <3> QED
      BY <3>1, <2>7, <1>1, <1>2, RegionJoin
  <2>20. ASSUME NEW b \in Blocks(h), b \in lo .. n - 1 PROVE b = a \/ b = mb
    <3>1. b = mb \/ b < mb
      BY <2>7, <2>17, <2>20, <1>10
    <3>2. a < b => a + psz <= b
      BY <1>1, <2>4, <2>5 DEF Layout, Apart
    <3>3. b \in Int
      BY <2>17 DEF Blocks
    <3> QED
      BY <3>1, <3>2, <3>3, <2>5, <2>7, <2>17, <2>20
  <2>21. FreeBlocks(h) \ (lo .. n - 1) = FreeBlocks(h) \ {a}
    <3>1. ASSUME NEW b \in FreeBlocks(h), b \in lo .. n - 1 PROVE b = a
      BY <3>1, <2>20, <1>2 DEF FreeBlocks
    <3>2. a \in lo .. n - 1
      BY <2>7, <2>17
    <3> QED
      BY <3>1, <3>2
  <2>22. Held(h) \cap (lo .. n - 1) = {mb}
    <3>1. ASSUME NEW b \in Held(h), b \in lo .. n - 1 PROVE b = mb
      BY <3>1, <2>3, <2>20 DEF Held
    <3>2. mb \in lo .. n - 1
      BY <2>7, <2>17
    <3> QED
      BY <3>1, <3>2
  <2>23. Binned(g, FreeBlocks(h) \ {a})
    <3>1. ASSUME NEW b \in FreeBlocks(h) \ {a} PROVE g.hdr[b].sz = r.hdr[b].sz
      <4>1. b \in Addr /\ b \notin lo .. n - 1
        BY <2>21, <1>2
      <4>2. b # a /\ ~ (a < b /\ b < n)
        BY <4>1, <2>7, <2>14, <2>17
      <4> QED
        BY <4>1, <4>2, <2>15
    <3> QED
      BY <3>1, <2>11, <2>15, WordsKeepBins
  <2> QED
    BY <2>4, <2>7, <2>15, <2>18, <2>19, <2>21, <2>22, <2>23
<1> QED
  BY <1>4, <1>12, <1>13

\* The end of what a block is joined to behind.
JoinedTo(h, n) == IF h.hdr[n].alloc THEN n ELSE n + h.hdr[n].sz

\* What joining the block behind has done.
NextDone(h, g, P, lo, n, hi) ==
  /\ g \in HeapT /\ Region(h, P, lo, hi) /\ h.hdr[hi].alloc = TRUE
  /\ Recut(h, g, lo, hi, hi, FALSE) /\ Binned(g, FreeBlocks(h) \ (lo .. hi - 1))
  /\ Held(h) \cap (lo .. hi - 1) = Held(h) \cap (lo .. n - 1)

EndsBlock(h, n) == \E a \in Blocks(h) : n = a + h.hdr[a].sz

LEMMA NextJoined ==
  ASSUME NEW h, NEW P, NEW e \in 1 .. MemLen + 1, PoolsApart(P, e), Sound(h, P),
         NEW h1 \in HeapT, NEW lo, NEW n, Region(h, P, lo, n), Merged(h, h1, lo, n),
         Binned(h1, FreeBlocks(h) \ (lo .. n - 1)),
         EndsBlock(h, n), h.hdr[lo].palloc = TRUE,
         NEW g, g = JoinNext(h1, lo, n), NEW hi, hi = JoinedTo(h, n)
  PROVE  NextDone(h, g, P, lo, n, hi)
<1>1. h \in HeapT /\ Layout(h, P)
  BY DEF Sound
<1>2. lo \in Blocks(h) /\ n \in Addr /\ lo < n /\ lo \in Addr
  BY DEF Region, Blocks
<1>3. lo \in Int /\ n \in Int /\ Addr \subseteq Int /\ MemLen \in Nat
  BY <1>2, BlockAssumption DEF Addr
<1>4. /\ h1.hdr[lo] = Tag(n - lo, FALSE, TRUE)
      /\ \A b \in Addr : lo < b /\ b < n => h1.hdr[b].sz = 0
      /\ \A b \in Addr : b < lo \/ n <= b => h1.hdr[b] = h.hdr[b]
      /\ \A b \in Addr : b < lo \/ n <= b => h1.foot[b] = h.foot[b]
      /\ h1.foot[n - 1] = n - lo
  BY DEF Merged
<1>5. h1.hdr[n] = h.hdr[n] /\ h.hdr[n].alloc \in BOOLEAN /\ h.hdr[n].sz \in Nat
  BY <1>1, <1>2, <1>3, <1>4 DEF HeapT, HdrT
<1>6. /\ h1.hdr[lo].sz = n - lo /\ h1.hdr[lo].alloc = FALSE /\ h1.hdr[lo].palloc = TRUE
      /\ n - lo \in Nat
  <2>1. n - lo \in Nat
    BY <1>2, <1>3
  <2> QED
    BY <2>1, <1>4 DEF Tag
<1>7. CASE h.hdr[n].alloc = TRUE
  <2>1. g = PrevCleared(h1, n) /\ hi = n
    BY <1>5, <1>7 DEF JoinNext, JoinedTo
  <2>2. /\ g \in HeapT /\ SameBins(h1, g) /\ g.foot = h1.foot
        /\ WroteTag(h1, g, n, Tag(h1.hdr[n].sz, h1.hdr[n].alloc, FALSE))
    BY <2>1, <1>2, ClearPrev
  <2>3. g.hdr[n] = Tag(h.hdr[n].sz, TRUE, FALSE)
    BY <2>2, <1>2, <1>5, <1>7 DEF WroteTag
  <2>4. g.hdr[n].sz = h.hdr[n].sz /\ g.hdr[n].alloc = TRUE /\ g.hdr[n].palloc = FALSE
    BY <2>3 DEF Tag
  <2>5. \A b \in Addr : b # n => g.hdr[b] = h1.hdr[b]
    BY <2>2 DEF WroteTag
  <2>6. Recut(h, g, lo, hi, hi, FALSE)
    <3>1. \A b \in Addr : b < lo \/ hi < b => g.hdr[b] = h.hdr[b]
      BY <2>1, <2>5, <1>2, <1>3, <1>4
    <3>2. \A b \in Addr : b < lo \/ hi <= b => g.foot[b] = h.foot[b]
      BY <2>1, <2>2, <1>4
    <3>3. g.hdr[lo].sz = hi - lo /\ g.hdr[lo].alloc = FALSE /\ g.hdr[lo].palloc = h.hdr[lo].palloc
      <4>1. g.hdr[lo] = h1.hdr[lo] /\ hi = n
        BY <2>1, <2>5, <1>2, <1>3
      <4>2. h1.hdr[lo].palloc = h.hdr[lo].palloc
        BY <1>6
      <4> QED
        BY <4>1, <4>2, <1>6
    <3>4. \A b \in Addr : lo < b /\ b < hi /\ b # hi => g.hdr[b].sz = 0
      BY <2>1, <2>5, <1>4
    <3>5. g.foot[hi - 1] = hi - lo
      BY <2>1, <2>2, <1>4
    <3>6. ~ (hi < hi)
      BY <2>1, <1>3
    <3>7. g.hdr[hi].sz = h.hdr[hi].sz /\ g.hdr[hi].alloc = h.hdr[hi].alloc /\ g.hdr[hi].palloc = FALSE
      BY <2>1, <2>4, <1>7
    <3> QED
      BY <3>1, <3>2, <3>3, <3>4, <3>5, <3>6, <3>7 DEF Recut
  <2>7. Binned(g, FreeBlocks(h) \ (lo .. hi - 1))
    <3>1. PICK F : F = FreeBlocks(h) \ (lo .. n - 1)
      OBVIOUS
    <3>2. \A b \in F : g.hdr[b].sz = h1.hdr[b].sz
      BY <3>1, <2>4, <2>5, <1>5 DEF FreeBlocks, Blocks
    <3>3. Binned(h1, F)
      BY <3>1
    <3>4. Binned(g, F)
      BY <3>2, <3>3, <2>2, WordsKeepBins
    <3> QED
      BY <3>1, <3>4, <2>1
  <2> QED
    BY <2>1, <2>2, <2>6, <2>7, <1>7 DEF NextDone
<1>8. CASE h.hdr[n].alloc = FALSE
  <2>1. n \in Blocks(h) /\ n \in FreeBlocks(h)
    <3>1. n \in Blocks(h) \/ \E p \in P : n = PoolEnd(p)
      BY <1>1, NextOf DEF EndsBlock
    <3>2. \A p \in P : n # PoolEnd(p)
      BY <1>1, <1>8 DEF Layout, Ended
    <3> QED
      BY <3>1, <3>2, <1>8 DEF FreeBlocks
  <2>2. PICK nsz \in Nat : nsz = h.hdr[n].sz /\ nsz > 0
    BY <2>1, <1>5 DEF Blocks
  <2>3. hi = n + nsz
    BY <2>2, <1>8 DEF JoinedTo
  <2>4. hi \in Addr /\ h.hdr[hi].alloc = TRUE /\ h.hdr[hi].palloc = FALSE
    <3>1. Edges(h, n, n + h.hdr[n].sz)
      BY <2>1, FreeEdges
    <3> QED
      BY <3>1, <2>2, <2>3 DEF Edges
  <2>5. Region(h, P, lo, hi)
    BY <2>1, <2>2, <2>3, <1>1, RegionJoin
  <2>6. hi \in Int /\ n < hi /\ lo < hi /\ nsz <= MemLen
    BY <2>2, <2>3, <2>4, <1>2, <1>3 DEF Addr
  <2>7. PICK r : r = tlsf_rem_blk_c(h1, n)
    OBVIOUS
  <2>8. r \in HeapT /\ SameWords(h1, r) /\ Binned(r, (FreeBlocks(h) \ (lo .. n - 1)) \ {n})
    <3>1. n \in FreeBlocks(h) \ (lo .. n - 1)
      BY <2>1, <1>3
    <3>2. FreeBlocks(h) \ (lo .. n - 1) \in SUBSET Addr
      BY DEF FreeBlocks, Blocks
    <3>3. h1.hdr[n].sz = nsz
      BY <2>2, <1>5
    <3> QED
      BY <3>1, <3>2, <3>3, <2>2, <2>6, <2>7, RemBlk
  <2>9. PICK tg \in HdrT : tg = Tag(hi - lo, FALSE, TRUE) /\ tg.sz = hi - lo /\ tg.alloc = FALSE
                           /\ tg.palloc = TRUE
    <3>1. hi - lo \in Nat
      BY <2>6, <1>3
    <3>2. Tag(hi - lo, FALSE, TRUE) \in HdrT
      BY <3>1, TagTyped
    <3>3. PICK tg \in HdrT : tg = Tag(hi - lo, FALSE, TRUE)
      BY <3>2
    <3>4. tg.sz = hi - lo /\ tg.alloc = FALSE /\ tg.palloc = TRUE
      BY <3>3 DEF Tag
    <3> QED
      BY <3>3, <3>4
  <2>10. PICK len \in Nat : len = hi - lo /\ len = n - lo + nsz
    BY <2>3, <2>6, <1>3
  <2>11. g = set_free_mb(r, lo, len, tg)
    <3>1. g = set_free_mb(r, lo, n - lo + nsz, Tag(n - lo + nsz, FALSE, TRUE))
      BY <2>2, <2>7, <1>5, <1>8 DEF JoinNext
    <3> QED
      BY <3>1, <2>9, <2>10
  <2>12. g \in HeapT /\ SameBins(r, g) /\ Wrote(r, g, lo, hi, tg)
    BY <2>6, <2>8, <2>10, <2>11, <1>2, <1>3, SetFree
  <2>13. /\ \A b \in Addr : g.hdr[b] = IF b = lo THEN tg
                                       ELSE IF lo < b /\ b < hi THEN Garbage ELSE r.hdr[b]
         /\ \A b \in Addr : g.foot[b] = IF b = hi - 1 THEN hi - lo
                                        ELSE IF lo <= b /\ b < hi THEN 0 ELSE r.foot[b]
    BY <2>12 DEF Wrote
  <2>14. r.hdr = h1.hdr /\ r.foot = h1.foot
    BY <2>8 DEF SameWords
  <2>15. Recut(h, g, lo, hi, hi, FALSE)
    <3>1. ASSUME NEW b \in Addr, b < lo \/ hi <= b
          PROVE  g.hdr[b] = h.hdr[b] /\ g.foot[b] = h.foot[b]
      <4>1. g.hdr[b] = h1.hdr[b] /\ g.foot[b] = h1.foot[b]
        BY <3>1, <2>6, <2>13, <2>14, <1>2, <1>3
      <4>2. b < lo \/ n <= b
        BY <3>1, <2>6, <1>3
      <4> QED
        BY <4>1, <4>2, <1>4
    <3>2. g.hdr[lo].sz = hi - lo /\ g.hdr[lo].alloc = FALSE /\ g.hdr[lo].palloc = h.hdr[lo].palloc
      BY <2>9, <2>13, <1>2
    <3>3. \A b \in Addr : lo < b /\ b < hi /\ b # hi => g.hdr[b].sz = 0
      BY <2>13, <1>3 DEF Garbage
    <3>4. g.foot[hi - 1] = hi - lo
      <4>1. hi - 1 \in Addr
        BY <2>4, <2>6, <1>2, <1>3 DEF Addr
      <4> QED
        BY <4>1, <2>13
    <3>5. ~ (hi < hi)
      BY <2>6
    <3>6. g.hdr[hi] = h.hdr[hi]
      BY <3>1, <2>4, <2>6
    <3>7. \A b \in Addr : b < lo \/ hi < b => g.hdr[b] = h.hdr[b]
      BY <3>1, <2>6, <1>3
    <3>8. \A b \in Addr : b < lo \/ hi <= b => g.foot[b] = h.foot[b]
      BY <3>1
    <3> QED
      BY <3>2, <3>3, <3>4, <3>5, <3>6, <3>7, <3>8, <2>4 DEF Recut
  <2>16. ASSUME NEW b \in Blocks(h), b \in lo .. hi - 1 PROVE b \in lo .. n - 1 \/ b = n
    <3>1. n < b => hi <= b
      BY <2>1, <2>2, <2>3, <1>1 DEF Layout, Apart
    <3>2. b \in Int
      BY <1>3 DEF Blocks
    <3> QED
      BY <3>1, <3>2, <2>6, <2>16, <1>3
  <2>17. FreeBlocks(h) \ (lo .. hi - 1) = (FreeBlocks(h) \ (lo .. n - 1)) \ {n}
    <3>1. n \in lo .. hi - 1 /\ \A b : b \in lo .. n - 1 => b \in lo .. hi - 1
      BY <2>6, <1>2, <1>3
    <3>2. FreeBlocks(h) \subseteq Blocks(h)
      BY DEF FreeBlocks
    <3> QED
      BY <3>1, <3>2, <2>16
  <2>18. Binned(g, FreeBlocks(h) \ (lo .. hi - 1))
    <3>1. PICK F : F = FreeBlocks(h) \ (lo .. hi - 1)
      OBVIOUS
    <3>2. ASSUME NEW b \in F PROVE g.hdr[b].sz = r.hdr[b].sz
      <4>1. b \in Addr /\ b \notin lo .. hi - 1
        BY <3>1 DEF FreeBlocks, Blocks
      <4>2. b # lo /\ ~ (lo < b /\ b < hi)
        BY <4>1, <2>6, <1>3
      <4> QED
        BY <4>1, <4>2, <2>13
    <3>3. Binned(r, F)
      BY <3>1, <2>8, <2>17
    <3>4. Binned(g, F)
      BY <3>2, <3>3, <2>12, WordsKeepBins
    <3> QED
      BY <3>1, <3>4
  <2>19. Held(h) \cap (lo .. hi - 1) = Held(h) \cap (lo .. n - 1)
    <3>1. \A b : b \in lo .. n - 1 => b \in lo .. hi - 1
      BY <2>6, <1>3
    <3>2. Held(h) \subseteq Blocks(h) /\ n \notin Held(h)
      BY <2>1 DEF Held
    <3> QED
      BY <3>1, <3>2, <2>16
  <2> QED
    BY <2>4, <2>5, <2>12, <2>15, <2>18, <2>19 DEF NextDone
<1> QED
  BY <1>5, <1>7, <1>8

LEMMA InsBlk ==
  ASSUME NEW h \in HeapT, NEW F \in SUBSET Addr, NEW a \in Addr, a \notin F, Binned(h, F),
         0 < h.hdr[a].sz, h.hdr[a].sz <= MemLen,
         NEW g, g = tlsf_ins_blk_c(h, a)
  PROVE  g \in HeapT /\ SameWords(h, g) /\ Binned(g, F \cup {a})
<1>1. h.hdr[a].sz \in Int
  BY DEF HeapT, HdrT
<1>2. calc_tlsf_indices(h.hdr[a].sz) \in Bins
  BY <1>1, SizeIn
<1> QED
  BY <1>2, InsBins

LEMMA RecutWords ==
  ASSUME NEW h, NEW g1, NEW g, NEW lo, NEW m, NEW hi, NEW al,
         Recut(h, g1, lo, m, hi, al), SameWords(g1, g)
  PROVE  Recut(h, g, lo, m, hi, al)
BY DEF Recut, SameWords

\* The steps of tlsf_coalesce_and_insert by name.
CoH0(h, mb) == set_free_mb(h, mb, h.hdr[mb].sz, [h.hdr[mb] EXCEPT !.alloc = FALSE])
CoPsz(h, mb) == IF h.hdr[mb].palloc THEN 0 ELSE CoH0(h, mb).foot[mb - 1]
CoA(h, mb) == mb - CoPsz(h, mb)
CoH1(h, mb) ==
  IF h.hdr[mb].palloc THEN CoH0(h, mb)
  ELSE set_free_mb(tlsf_rem_blk_c(CoH0(h, mb), CoA(h, mb)), CoA(h, mb),
                   CoPsz(h, mb) + h.hdr[mb].sz, Tag(CoPsz(h, mb) + h.hdr[mb].sz, FALSE, TRUE))
CoN(h, mb) == CoA(h, mb) + CoPsz(h, mb) + h.hdr[mb].sz
CoH2(h, mb) ==
  LET h1 == CoH1(h, mb)
      n  == CoN(h, mb)
      sz == CoPsz(h, mb) + h.hdr[mb].sz + h1.hdr[n].sz
  IN  IF h1.hdr[n].alloc THEN [h1 EXCEPT !.hdr[n].palloc = FALSE]
      ELSE set_free_mb(tlsf_rem_blk_c(h1, n), CoA(h, mb), sz, Tag(sz, FALSE, TRUE))

\* g is h with the blocks of H, their sizes as they were.
Holds(h, g, H) == Held(g) = H /\ \A b \in H : g.hdr[b].sz = h.hdr[b].sz

\* tlsf_coalesce_and_insert frees one block of a sound heap.
LEMMA CoalesceIs ==
  ASSUME NEW h, NEW P, NEW e \in 1 .. MemLen + 1, PoolsApart(P, e), Sound(h, P),
         NEW mb \in Held(h), NEW g, g = tlsf_coalesce_and_insert(h, mb)
  PROVE  Sound(g, P) /\ Holds(h, g, Held(h) \ {mb})
<1>1. PICK lo : lo = JoinedAt(h, mb)
  OBVIOUS
<1>2. PICK n : n = mb + h.hdr[mb].sz
  OBVIOUS
<1>3. PICK h1 : h1 = JoinPrev(h, mb)
  OBVIOUS
<1>4. PICK hi : hi = JoinedTo(h, n)
  OBVIOUS
<1>5. PICK h2 : h2 = JoinNext(h1, lo, n)
  OBVIOUS
<1>6. /\ h1 \in HeapT /\ Region(h, P, lo, n) /\ h.hdr[lo].palloc = TRUE
      /\ Merged(h, h1, lo, n) /\ Binned(h1, FreeBlocks(h) \ (lo .. n - 1))
      /\ Held(h) \cap (lo .. n - 1) = {mb}
  BY <1>1, <1>2, <1>3, PrevJoined
<1>7. EndsBlock(h, n)
  BY <1>2 DEF Held, EndsBlock
<1>a. NextDone(h, h2, P, lo, n, hi)
  BY <1>4, <1>5, <1>6, <1>7, NextJoined
<1>8. /\ h2 \in HeapT /\ Region(h, P, lo, hi) /\ h.hdr[hi].alloc = TRUE
      /\ Recut(h, h2, lo, hi, hi, FALSE) /\ Binned(h2, FreeBlocks(h) \ (lo .. hi - 1))
      /\ Held(h) \cap (lo .. hi - 1) = Held(h) \cap (lo .. n - 1)
  BY <1>a DEF NextDone
<1>9. lo \in Addr /\ hi \in Addr /\ lo \in Int /\ hi \in Int /\ lo < hi
  BY <1>8 DEF Region, Blocks, Addr
<1>10. h2.hdr[lo].sz = hi - lo
  BY <1>8 DEF Recut
<1>11. 0 < h2.hdr[lo].sz /\ h2.hdr[lo].sz <= MemLen
  BY <1>9, <1>10, BlockAssumption DEF Addr
<1>12. g = tlsf_ins_blk_c(h2, lo)
  <2>1. h \in HeapT /\ mb \in Addr /\ mb \in Blocks(h) /\ h.hdr[mb].sz > 0
    BY DEF Sound, Held, Blocks
  <2>2. PICK t \in HdrT : t = h.hdr[mb]
    BY <2>1 DEF HeapT
  <2>3. t.sz \in Nat /\ t.sz > 0 /\ t.palloc \in BOOLEAN /\ mb \in Int
    BY <2>1, <2>2 DEF HdrT, Addr
  <2>4. PICK h0 : h0 = set_free_mb(h, mb, t.sz, [t EXCEPT !.alloc = FALSE])
    OBVIOUS
  <2>5. PICK psz : psz = IF t.palloc THEN 0 ELSE h0.foot[mb - 1]
    OBVIOUS
  <2>6. psz \in Int /\ lo = mb - psz
    <3>1. CASE t.palloc = TRUE
      BY <3>1, <2>2, <2>3, <2>5, <1>1 DEF JoinedAt
    <3>2. CASE t.palloc = FALSE
      <4>1. mb - 1 \in Addr
        BY <3>2, <2>1, <2>2, PrevFree
      <4>2. h0.foot[mb - 1] = h.foot[mb - 1]
        BY <4>1, <2>1, <2>3, <2>4 DEF set_free_mb, HeapT
      <4>3. h.foot[mb - 1] \in Nat
        BY <4>1, <2>1 DEF HeapT
      <4> QED
        BY <3>2, <4>2, <4>3, <2>2, <2>5, <1>1 DEF JoinedAt
    <3> QED
      BY <3>1, <3>2, <2>3
  <2>7. n = lo + psz + t.sz /\ n - lo = psz + t.sz
    BY <2>2, <2>3, <2>6, <1>2, <1>9
  <2>8. h1 = IF t.palloc THEN h0
             ELSE set_free_mb(tlsf_rem_blk_c(h0, lo), lo, psz + t.sz,
                              Tag(psz + t.sz, FALSE, TRUE))
    BY <2>2, <2>4, <2>5, <2>6, <1>3 DEF JoinPrev
  <2>9. h2 = IF h1.hdr[n].alloc
             THEN [h1 EXCEPT !.hdr[n].palloc = FALSE]
             ELSE set_free_mb(tlsf_rem_blk_c(h1, n), lo, psz + t.sz + h1.hdr[n].sz,
                              Tag(psz + t.sz + h1.hdr[n].sz, FALSE, TRUE))
    BY <2>7, <1>5 DEF JoinNext, PrevCleared
  <2> QED
    <3>1. CoH0(h, mb) = h0
      BY <2>2, <2>4 DEF CoH0
    <3>2. CoPsz(h, mb) = psz
      BY <3>1, <2>2, <2>5 DEF CoPsz
    <3>3. CoA(h, mb) = lo
      BY <3>2, <2>6 DEF CoA
    <3>4. CoH1(h, mb) = h1
      BY <3>1, <3>2, <3>3, <2>2, <2>8 DEF CoH1
    <3>5. CoN(h, mb) = n
      BY <3>2, <3>3, <2>2, <2>7 DEF CoN
    <3>6. CoH2(h, mb) = h2
      BY <3>2, <3>3, <3>4, <3>5, <2>2, <2>9 DEF CoH2
    <3>7. g = tlsf_ins_blk_c(CoH2(h, mb), CoA(h, mb))
      BY DEF tlsf_coalesce_and_insert, CoH0, CoPsz, CoA, CoH1, CoN, CoH2
    <3> QED
      BY <3>3, <3>6, <3>7
<1>13. PICK F \in SUBSET Addr : F = FreeBlocks(h) \ (lo .. hi - 1)
  <2>1. FreeBlocks(h) \ (lo .. hi - 1) \in SUBSET Addr
    BY DEF FreeBlocks, Blocks
  <2> QED
    BY <2>1
<1>14. lo \notin F
  BY <1>9, <1>13
<1>15. g \in HeapT /\ SameWords(h2, g) /\ Binned(g, F \cup {lo})
  BY <1>8, <1>9, <1>11, <1>12, <1>13, <1>14, InsBlk
<1>16. F \cup {lo} = FreeAfter(h, lo, hi, hi, FALSE)
  BY <1>9, <1>13 DEF FreeAfter
<1>17. Recut(h, g, lo, hi, hi, FALSE)
  BY <1>8, <1>15, RecutWords
<1>18. Sound(g, P) /\ Accounts(h, g, lo, hi, hi, FALSE)
  <2>1. Binned(g, FreeAfter(h, lo, hi, hi, FALSE))
    BY <1>15, <1>16
  <2> QED
    <3>1. PICK al \in BOOLEAN : al = FALSE
      OBVIOUS
    <3>2. Recut(h, g, lo, hi, hi, al) /\ Binned(g, FreeAfter(h, lo, hi, hi, al))
      BY <3>1, <2>1, <1>17
    <3>3. hi <= hi /\ (hi < hi \/ al = FALSE => h.hdr[hi].alloc = TRUE)
          /\ (al = FALSE => h.hdr[lo].palloc = TRUE)
      BY <1>6, <1>8, <1>9
    <3>4. Sound(g, P) /\ Accounts(h, g, lo, hi, hi, al)
      BY <3>2, <3>3, <1>8, <1>9, <1>15, RecutSound
    <3> QED
      BY <3>1, <3>4
<1>19. Held(g) = Held(h) \ (lo .. hi - 1)
  BY <1>18 DEF Accounts, HeldAfter
<1>20. Held(h) \ (lo .. hi - 1) = Held(h) \ {mb}
  BY <1>6, <1>8
<1>21. \A b \in Held(g) : g.hdr[b].sz = h.hdr[b].sz
  <2>1. lo \notin Held(g)
    BY <1>9, <1>19
  <2> QED
    BY <2>1, <1>18 DEF Accounts
<1> QED
  BY <1>18, <1>19, <1>20, <1>21 DEF Holds

\* h1 is h with the units from lo up to hi ready to be given out up to m: the
\* rest of them is a free block.
Opened(h, h1, lo, m, hi) ==
  /\ h1 \in HeapT
  /\ \A b \in Addr : b < lo \/ hi <= b => h1.hdr[b] = h.hdr[b] /\ h1.foot[b] = h.foot[b]
  /\ h1.hdr[lo].palloc = h.hdr[lo].palloc
  /\ m < hi => h1.hdr[m].sz = hi - m /\ h1.hdr[m].alloc = FALSE /\ h1.foot[hi - 1] = hi - m
  /\ \A b \in Addr : m < b /\ b < hi => h1.hdr[b].sz = 0
  /\ Binned(h1, FreeAfter(h, lo, m, hi, TRUE))

\* g is h with the units from lo up to hi given out up to m.
Given(h, g, P, lo, m, hi) ==
  /\ Sound(g, P)
  /\ Held(g) = (Held(h) \ (lo .. hi - 1)) \cup {lo}
  /\ g.hdr[lo].sz = m - lo
  /\ \A b \in Held(g) : b # lo => g.hdr[b].sz = h.hdr[b].sz

LEMMA TakeIs ==
  ASSUME NEW h, NEW P, NEW e \in 1 .. MemLen + 1, PoolsApart(P, e), Sound(h, P),
         NEW lo, NEW m \in Int, NEW hi, Region(h, P, lo, hi), lo < m, m <= hi,
         NEW h1, Opened(h, h1, lo, m, hi),
         m < hi => h.hdr[hi].alloc = TRUE /\ h.hdr[hi].palloc = FALSE,
         NEW len \in Nat, lo + len = m, NEW g, g = set_alloc_mb(h1, lo, len)
  PROVE  Given(h, g, P, lo, m, hi)
<1>1. h \in HeapT /\ Layout(h, P) /\ Binned(h, FreeBlocks(h))
  BY DEF Sound
<1>2. lo \in Blocks(h) /\ lo \in Addr /\ hi \in Addr /\ lo < hi
  BY DEF Region, Blocks
<1>3. lo \in Int /\ hi \in Int /\ Addr \subseteq Int
  BY <1>2 DEF Addr
<1>4. m \in Addr
  BY <1>2, <1>3, BlockAssumption DEF Addr
<1>5. /\ h1 \in HeapT
      /\ \A b \in Addr : b < lo \/ hi <= b => h1.hdr[b] = h.hdr[b] /\ h1.foot[b] = h.foot[b]
      /\ h1.hdr[lo].palloc = h.hdr[lo].palloc
      /\ m < hi => h1.hdr[m].sz = hi - m /\ h1.hdr[m].alloc = FALSE /\ h1.foot[hi - 1] = hi - m
      /\ \A b \in Addr : m < b /\ b < hi => h1.hdr[b].sz = 0
      /\ Binned(h1, FreeAfter(h, lo, m, hi, TRUE))
  BY DEF Opened
<1>6. g \in HeapT /\ SameBins(h1, g) /\ Allotted(h1, g, lo, m)
  BY <1>2, <1>5, SetAlloc
<1>7. /\ \A b \in Addr : g.hdr[b] = IF b = lo THEN Tag(m - lo, TRUE, h1.hdr[lo].palloc)
                                    ELSE IF lo < b /\ b < m THEN Garbage
                                    ELSE IF b = m THEN Tag(h1.hdr[b].sz, h1.hdr[b].alloc, TRUE)
                                    ELSE h1.hdr[b]
      /\ \A b \in Addr : b < lo \/ m <= b => g.foot[b] = h1.foot[b]
  BY <1>6 DEF Allotted
<1>8. g.hdr[lo] = Tag(m - lo, TRUE, h1.hdr[lo].palloc)
  BY <1>2, <1>7
<1>9. g.hdr[m] = Tag(h1.hdr[m].sz, h1.hdr[m].alloc, TRUE)
  <2>1. m # lo /\ ~ (lo < m /\ m < m)
    BY <1>3
  <2> QED
    BY <2>1, <1>4, <1>7
<1>10. ASSUME NEW b \in Addr, b < lo \/ m < b PROVE g.hdr[b] = h1.hdr[b]
  <2>1. b # lo /\ ~ (lo < b /\ b < m) /\ b # m
    BY <1>3, <1>10
  <2> QED
    BY <2>1, <1>7
<1>11. Recut(h, g, lo, m, hi, TRUE)
  <2>1. ASSUME NEW b \in Addr, b < lo \/ hi < b PROVE g.hdr[b] = h.hdr[b]
    <3>1. (b < lo \/ m < b) /\ (b < lo \/ hi <= b)
      BY <2>1, <1>3
    <3> QED
      BY <3>1, <1>5, <1>10
  <2>2. ASSUME NEW b \in Addr, b < lo \/ hi <= b PROVE g.foot[b] = h.foot[b]
    <3>1. b < lo \/ m <= b
      BY <2>2, <1>3
    <3> QED
      BY <3>1, <2>2, <1>5, <1>7
  <2>3. g.hdr[lo].sz = m - lo /\ g.hdr[lo].alloc = TRUE /\ g.hdr[lo].palloc = h.hdr[lo].palloc
    <3>1. g.hdr[lo].sz = m - lo /\ g.hdr[lo].alloc = TRUE /\ g.hdr[lo].palloc = h1.hdr[lo].palloc
      BY <1>8 DEF Tag
    <3> QED
      BY <3>1, <1>5
  <2>4. g.hdr[m].sz = h1.hdr[m].sz /\ g.hdr[m].alloc = h1.hdr[m].alloc /\ g.hdr[m].palloc = TRUE
    BY <1>9 DEF Tag
  <2>5. ASSUME NEW b \in Addr, lo < b /\ b < hi /\ b # m PROVE g.hdr[b].sz = 0
    <3>1. CASE b < m
      <4>1. b # lo
        BY <2>5, <1>3
      <4>2. g.hdr[b] = Garbage
        BY <4>1, <3>1, <2>5, <1>7
      <4> QED
        BY <4>2 DEF Garbage
    <3>2. CASE m < b
      <4>1. g.hdr[b] = h1.hdr[b]
        BY <3>2, <1>10
      <4> QED
        BY <4>1, <3>2, <2>5, <1>5
    <3> QED
      BY <3>1, <3>2, <2>5, <1>3
  <2>6. g.hdr[hi].sz = h.hdr[hi].sz /\ g.hdr[hi].alloc = h.hdr[hi].alloc
    <3>1. h1.hdr[hi] = h.hdr[hi]
      BY <1>2, <1>3, <1>5
    <3>2. CASE m = hi
      BY <3>1, <3>2, <2>4
    <3>3. CASE m < hi
      BY <3>1, <3>3, <1>2, <1>10
    <3> QED
      BY <3>2, <3>3, <1>3
  <2>7. g.hdr[hi].palloc = (m = hi)
    <3>1. CASE m = hi
      BY <3>1, <2>4
    <3>2. CASE m < hi
      <4>1. g.hdr[hi] = h1.hdr[hi]
        BY <3>2, <1>2, <1>10
      <4>2. g.hdr[hi].palloc = FALSE
        BY <3>2, <4>1, <1>2, <1>3, <1>5
      <4>3. m # hi
        BY <3>2, <1>3
      <4> QED
        BY <4>2, <4>3
    <3> QED
      BY <3>1, <3>2, <1>3
  <2>8. m < hi => g.foot[hi - 1] = hi - m
    <3>1. SUFFICES ASSUME m < hi PROVE g.foot[hi - 1] = hi - m
      OBVIOUS
    <3>2. hi - 1 \in Addr /\ m <= hi - 1
      BY <3>1, <1>2, <1>3, <1>4, BlockAssumption DEF Addr
    <3> QED
      BY <3>1, <3>2, <1>5, <1>7
  <2>9. m < hi => g.hdr[m].sz = hi - m /\ g.hdr[m].alloc = FALSE /\ g.hdr[m].palloc = TRUE
    BY <2>4, <1>5
  <2> QED
    BY <2>1, <2>2, <2>3, <2>5, <2>6, <2>7, <2>8, <2>9 DEF Recut
<1>12. PICK F : F = FreeAfter(h, lo, m, hi, TRUE)
  OBVIOUS
<1>13. Binned(g, F)
  <2>1. ASSUME NEW b \in F PROVE g.hdr[b].sz = h1.hdr[b].sz
    <3>1. b \in Addr /\ (b \notin lo .. hi - 1 \/ (b = m /\ m < hi))
      BY <1>4, <1>12 DEF FreeAfter, FreeBlocks, Blocks
    <3>2. CASE b = m
      BY <3>2, <1>9 DEF Tag
    <3>3. CASE b # m
      <4>1. b < lo \/ m < b
        BY <3>1, <3>3, <1>3
      <4> QED
        BY <4>1, <3>1, <1>10
    <3> QED
      BY <3>2, <3>3
  <2>2. Binned(h1, F)
    BY <1>5, <1>12
  <2> QED
    BY <2>1, <2>2, <1>6, WordsKeepBins
<1>14. Sound(g, P) /\ Accounts(h, g, lo, m, hi, TRUE)
  <2>1. PICK al \in BOOLEAN : al = TRUE
    OBVIOUS
  <2>2. Recut(h, g, lo, m, hi, al) /\ Binned(g, FreeAfter(h, lo, m, hi, al))
    BY <2>1, <1>11, <1>12, <1>13
  <2>3. (m < hi \/ al = FALSE => h.hdr[hi].alloc = TRUE) /\ (al = FALSE => h.hdr[lo].palloc = TRUE)
    BY <2>1
  <2>4. Sound(g, P) /\ Accounts(h, g, lo, m, hi, al)
    BY <2>2, <2>3, <1>6, RecutSound
  <2> QED
    BY <2>1, <2>4
<1>15. g.hdr[lo].sz = m - lo
  BY <1>11 DEF Recut
<1>16. Held(g) = (Held(h) \ (lo .. hi - 1)) \cup {lo}
  BY <1>14 DEF Accounts, HeldAfter
<1>17. \A b \in Held(g) : b # lo => g.hdr[b].sz = h.hdr[b].sz
  BY <1>14 DEF Accounts
<1> QED
  BY <1>14, <1>15, <1>16, <1>17 DEF Given

\* g is h with the free block from a up to hi split at m: the part in front is on
\* no list.
Splitted(h, g, a, m, hi) ==
  /\ g \in HeapT
  /\ \A b \in Addr : b < a \/ hi <= b => g.hdr[b] = h.hdr[b] /\ g.foot[b] = h.foot[b]
  /\ g.hdr[a].sz = m - a /\ g.hdr[a].palloc = h.hdr[a].palloc
  /\ g.hdr[m].sz = hi - m /\ g.hdr[m].alloc = FALSE /\ g.foot[hi - 1] = hi - m
  /\ \A b \in Addr : m < b /\ b < hi => g.hdr[b].sz = 0
  /\ Binned(g, (FreeBlocks(h) \ {a}) \cup {m})

\* A block whose tags are only written keeps the bins right if it is on no list.
LEMMA WroteBins ==
  ASSUME NEW h, NEW g, NEW a, NEW n, NEW tag, NEW F \in SUBSET Addr,
         Wrote(h, g, a, n, tag), SameBins(h, g), Binned(h, F),
         \A b \in F : b # a /\ ~ (a < b /\ b < n)
  PROVE  Binned(g, F)
<1>1. ASSUME NEW b \in F PROVE g.hdr[b].sz = h.hdr[b].sz
  BY DEF Wrote
<1> QED
  BY <1>1, WordsKeepBins

LEMMA SplitIs ==
  ASSUME NEW h, NEW P, NEW e \in 1 .. MemLen + 1, PoolsApart(P, e), Sound(h, P),
         NEW a \in FreeBlocks(h), NEW hi, hi = a + h.hdr[a].sz,
         NEW m \in Int, a < m, m < hi, NEW amt \in Nat, a + amt = m,
         NEW g, g = tlsf_split_blk(h, a, amt)
  PROVE  Splitted(h, g, a, m, hi)
<1>1. h \in HeapT /\ Layout(h, P) /\ Binned(h, FreeBlocks(h)) /\ FreeBlocks(h) \subseteq Addr
  BY DEF Sound, FreeBlocks, Blocks
<1>2. Edges(h, a, hi)
  BY FreeEdges
<1>3. /\ a \in Blocks(h) /\ a \in Addr /\ hi \in Addr
      /\ h.hdr[a].sz \in Nat /\ h.hdr[a].sz > 0
      /\ h.hdr[a].alloc = FALSE /\ h.hdr[a].palloc = TRUE
  BY <1>2 DEF Edges
<1>4. a \in Int /\ hi \in Int /\ Addr \subseteq Int /\ m \in Addr
  BY <1>3, BlockAssumption DEF Addr
<1>5. PICK t \in HdrT : t = h.hdr[a]
  BY <1>1, <1>3 DEF HeapT
<1>6. t.sz \in Nat /\ t.alloc = FALSE /\ t.palloc = TRUE /\ t.sz = hi - a /\ t.sz > 0 /\ t.sz <= MemLen
  BY <1>3, <1>4, <1>5, BlockAssumption DEF Addr
<1>7. PICK rest \in Nat : rest = t.sz - amt /\ m + rest = hi /\ rest = hi - m /\ 0 < rest
                          /\ rest <= MemLen
  BY <1>4, <1>6, BlockAssumption DEF Addr
<1>8. PICK tagm \in HdrT : tagm = [t EXCEPT !.sz = rest] /\ tagm = Tag(rest, t.alloc, t.palloc)
  BY WithLen
<1>9. PICK taga \in HdrT : taga = [t EXCEPT !.sz = amt] /\ taga = Tag(amt, t.alloc, t.palloc)
  BY WithLen
<1>10. PICK h1 : h1 = tlsf_rem_blk_c(h, a)
  OBVIOUS
<1>11. PICK h2 : h2 = set_free_mb(h1, m, rest, tagm)
  OBVIOUS
<1>12. PICK h3 : h3 = set_free_mb(h2, a, amt, taga)
  OBVIOUS
<1>13. g = tlsf_ins_blk_c(h3, m)
  BY <1>5, <1>7, <1>8, <1>9, <1>10, <1>11, <1>12 DEF tlsf_split_blk
<1>14. PICK F \in SUBSET Addr : F = FreeBlocks(h) \ {a}
  BY <1>1
<1>15. h1 \in HeapT /\ SameWords(h, h1) /\ Binned(h1, F)
  BY <1>1, <1>3, <1>5, <1>6, <1>10, <1>14, RemBlk
<1>16. h2 \in HeapT /\ SameBins(h1, h2) /\ Wrote(h1, h2, m, hi, tagm)
  BY <1>4, <1>7, <1>11, <1>15, SetFree
<1>17. h3 \in HeapT /\ SameBins(h2, h3) /\ Wrote(h2, h3, a, m, taga)
  BY <1>3, <1>12, <1>16, SetFree
<1>18. ASSUME NEW b \in F PROVE b \in Int /\ b # a /\ (b < a \/ hi <= b)
  <2>1. b \in Blocks(h) /\ b # a /\ b \in Addr
    BY <1>14 DEF FreeBlocks, Blocks
  <2>2. h.hdr[b].sz \in Nat /\ h.hdr[b].sz > 0
    BY <2>1, <1>1 DEF Blocks, HeapT, HdrT
  <2>3. a < b => hi <= b
    BY <2>1, <1>1, <1>3 DEF Layout, Apart
  <2> QED
    BY <2>1, <2>3, <1>4
<1>19. Binned(h3, F)
  <2>1. \A b \in F : b # m /\ ~ (m < b /\ b < hi)
    BY <1>4, <1>18
  <2>2. Binned(h2, F)
    BY <2>1, <1>15, <1>16, WroteBins
  <2>3. \A b \in F : b # a /\ ~ (a < b /\ b < m)
    BY <1>4, <1>18
  <2> QED
    BY <2>2, <2>3, <1>17, WroteBins
<1>20. SameWords(h, h1)
  BY <1>15
<1>21. ASSUME NEW b \in Addr, b < a \/ hi <= b
       PROVE  h3.hdr[b] = h.hdr[b] /\ h3.foot[b] = h.foot[b]
  <2>1. b # a /\ ~ (a < b /\ b < m) /\ b # m - 1 /\ ~ (a <= b /\ b < m)
        /\ b # m /\ ~ (m < b /\ b < hi) /\ b # hi - 1 /\ ~ (m <= b /\ b < hi)
    BY <1>4, <1>21
  <2>2. h3.hdr[b] = h2.hdr[b] /\ h3.foot[b] = h2.foot[b]
    BY <2>1, <1>17 DEF Wrote
  <2>3. h2.hdr[b] = h1.hdr[b] /\ h2.foot[b] = h1.foot[b]
    BY <2>1, <1>16 DEF Wrote
  <2> QED
    BY <2>2, <2>3, <1>15 DEF SameWords
<1>22. h3.hdr[a] = taga
  BY <1>3, <1>17 DEF Wrote
<1>23. ASSUME NEW b \in Addr, m <= b /\ b < hi
       PROVE  h3.hdr[b] = h2.hdr[b] /\ h3.foot[b] = h2.foot[b]
  <2>1. b # a /\ ~ (a < b /\ b < m) /\ b # m - 1 /\ ~ (a <= b /\ b < m)
    BY <1>4, <1>23
  <2> QED
    BY <2>1, <1>17 DEF Wrote
<1>24. h3.hdr[m] = tagm
  <2>1. m <= m
    BY <1>4
  <2>2. h2.hdr[m] = tagm
    BY <1>4, <1>16 DEF Wrote
  <2> QED
    BY <2>1, <2>2, <1>4, <1>23
<1>25. h3.foot[hi - 1] = hi - m
  <2>1. hi - 1 \in Addr /\ m <= hi - 1 /\ hi - 1 < hi
    BY <1>3, <1>4, BlockAssumption DEF Addr
  <2>2. h2.foot[hi - 1] = hi - m
    BY <2>1, <1>16 DEF Wrote
  <2> QED
    BY <2>1, <2>2, <1>23
<1>26. ASSUME NEW b \in Addr, m < b /\ b < hi PROVE h3.hdr[b].sz = 0
  <2>1. m <= b /\ b # m
    BY <1>4, <1>26
  <2>2. h2.hdr[b] = Garbage
    BY <2>1, <1>26, <1>16 DEF Wrote
  <2>3. h3.hdr[b] = Garbage
    BY <2>1, <2>2, <1>26, <1>23
  <2> QED
    BY <2>3 DEF Garbage
<1>27. h3.hdr[m].sz = hi - m /\ h3.hdr[m].alloc = FALSE
  BY <1>6, <1>7, <1>8, <1>24 DEF Tag
<1>28. h3.hdr[a].sz = m - a /\ h3.hdr[a].palloc = h.hdr[a].palloc
  <2>1. amt = m - a
    BY <1>4
  <2>2. h3.hdr[a].sz = amt /\ h3.hdr[a].palloc = t.palloc
    BY <1>9, <1>22 DEF Tag
  <2> QED
    BY <2>1, <2>2, <1>5
<1>29. g \in HeapT /\ SameWords(h3, g) /\ Binned(g, F \cup {m})
  <2>1. m \notin F
    BY <1>4, <1>18
  <2>2. 0 < h3.hdr[m].sz /\ h3.hdr[m].sz <= MemLen
    BY <1>7, <1>27
  <2> QED
    BY <2>1, <2>2, <1>4, <1>13, <1>17, <1>19, InsBlk
<1>30. g.hdr = h3.hdr /\ g.foot = h3.foot
  BY <1>29 DEF SameWords
<1> QED
  BY <1>14, <1>21, <1>25, <1>26, <1>27, <1>28, <1>29, <1>30 DEF Splitted

\* g is h with the free block a given to the caller, at least amt units of it.
Granted(h, g, P, a, amt) ==
  /\ Sound(g, P)
  /\ a \notin Held(h) /\ Held(g) = Held(h) \cup {a}
  /\ amt <= g.hdr[a].sz
  /\ \A b \in Held(h) : g.hdr[b].sz = h.hdr[b].sz

\* No block starts inside of another.
LEMMA NoneWithin ==
  ASSUME NEW h, NEW P, Sound(h, P), NEW a \in Blocks(h), NEW hi, hi = a + h.hdr[a].sz,
         NEW b \in Blocks(h), b # a
  PROVE  b \notin a .. hi - 1 /\ b \in Int /\ (b < a \/ hi <= b)
<1>1. h \in HeapT /\ Layout(h, P)
  BY DEF Sound
<1>2. a \in Addr /\ b \in Addr /\ a \in Int /\ b \in Int
  BY DEF Blocks, Addr
<1>3. h.hdr[a].sz \in Nat
  BY <1>1, <1>2 DEF HeapT, HdrT
<1>4. a < b => hi <= b
  BY <1>1 DEF Layout, Apart
<1>5. b < a \/ a < b
  BY <1>2
<1> QED
  BY <1>2, <1>3, <1>4, <1>5

LEMMA ExtractIs ==
  ASSUME NEW h, NEW P, NEW e \in 1 .. MemLen + 1, PoolsApart(P, e), Sound(h, P),
         NEW bin \in Bins, NEW a \in h.bins[bin], NEW amt \in Int, 0 < amt, amt <= h.hdr[a].sz,
         NEW g, g = tlsf_extract(h, bin, a, amt)
  PROVE  Granted(h, g, P, a, amt)
<1>1. h \in HeapT /\ Layout(h, P) /\ Binned(h, FreeBlocks(h)) /\ FreeBlocks(h) \subseteq Addr
  BY DEF Sound, FreeBlocks, Blocks
<1>2. a \in FreeBlocks(h) /\ calc_tlsf_indices(h.hdr[a].sz) = bin
  BY <1>1 DEF Binned
<1>3. PICK hi : hi = a + h.hdr[a].sz
  OBVIOUS
<1>4. Edges(h, a, hi)
  BY <1>2, <1>3, FreeEdges
<1>5. /\ a \in Blocks(h) /\ a \in Addr /\ hi \in Addr
      /\ h.hdr[a].sz \in Nat /\ h.hdr[a].sz > 0
      /\ h.hdr[hi].alloc = TRUE /\ h.hdr[hi].palloc = FALSE
  BY <1>4 DEF Edges
<1>6. a \in Int /\ hi \in Int /\ a < hi /\ h.hdr[a].sz <= MemLen /\ hi - a = h.hdr[a].sz
  BY <1>3, <1>5, BlockAssumption DEF Addr
<1>7. Region(h, P, a, hi)
  BY <1>1, <1>3, <1>5, RegionOne
<1>8. ASSUME NEW b \in Blocks(h), b # a PROVE b \notin a .. hi - 1
  BY <1>3, <1>5, <1>8, NoneWithin
<1>9. FreeBlocks(h) \ (a .. hi - 1) = FreeBlocks(h) \ {a} /\ Held(h) \ (a .. hi - 1) = Held(h)
  <2>1. a \in a .. hi - 1 /\ a \notin Held(h)
    BY <1>2, <1>6 DEF Held
  <2> QED
    BY <2>1, <1>8 DEF Held, FreeBlocks
<1>10. PICK h1 : h1 = IF h.hdr[a].sz - amt >= MinNU THEN tlsf_split_blk(h, a, amt)
                      ELSE tlsf_rem_blk(h, a, bin)
  OBVIOUS
<1>11. \E m \in Int : /\ a < m /\ m <= hi /\ a + amt <= m /\ Opened(h, h1, a, m, hi)
                      /\ g = set_alloc_mb(h1, a, m - a)
  <2>1. CASE h.hdr[a].sz - amt >= MinNU
    <3>1. h1 = tlsf_split_blk(h, a, amt)
      BY <2>1, <1>10
    <3>2. g = set_alloc_mb(h1, a, amt)
      BY <2>1, <1>10 DEF tlsf_extract
    <3>3. PICK m \in Int : m = a + amt /\ a < m /\ m < hi /\ m - a = amt /\ amt \in Nat
      BY <2>1, <1>3, <1>5, <1>6, BlockAssumption
    <3>4. Splitted(h, h1, a, m, hi)
      BY <3>1, <3>3, <1>2, <1>3, SplitIs
    <3>5. FreeAfter(h, a, m, hi, TRUE) = (FreeBlocks(h) \ {a}) \cup {m}
      BY <3>3, <1>9 DEF FreeAfter
    <3>6. Opened(h, h1, a, m, hi)
      BY <3>4, <3>5 DEF Splitted, Opened
    <3> QED
      BY <3>2, <3>3, <3>6, <1>6
  <2>2. CASE ~ (h.hdr[a].sz - amt >= MinNU)
    <3>1. h1 = tlsf_rem_blk_c(h, a)
      BY <2>2, <1>2, <1>10 DEF tlsf_rem_blk_c
    <3>2. g = set_alloc_mb(h1, a, h.hdr[a].sz)
      BY <2>2, <1>10 DEF tlsf_extract
    <3>3. h1 \in HeapT /\ SameWords(h, h1) /\ Binned(h1, FreeBlocks(h) \ {a})
      BY <3>1, <1>1, <1>2, <1>5, <1>6, RemBlk
    <3>4. FreeAfter(h, a, hi, hi, TRUE) = FreeBlocks(h) \ {a}
      BY <1>6, <1>9 DEF FreeAfter
    <3>5. h1.hdr = h.hdr /\ h1.foot = h.foot
      BY <3>3 DEF SameWords
    <3>6. ~ (hi < hi) /\ \A b \in Addr : ~ (hi < b /\ b < hi)
      BY <1>6 DEF Addr
    <3>7. Opened(h, h1, a, hi, hi)
      BY <3>3, <3>4, <3>5, <3>6 DEF Opened
    <3>8. a + amt <= hi /\ hi <= hi
      BY <1>3, <1>5, <1>6
    <3> QED
      BY <3>2, <3>7, <3>8, <1>6
  <2> QED
    BY <2>1, <2>2
<1>12. PICK m \in Int : /\ a < m /\ m <= hi /\ a + amt <= m /\ Opened(h, h1, a, m, hi)
                        /\ g = set_alloc_mb(h1, a, m - a)
  BY <1>11
<1>13. PICK len \in Nat : len = m - a /\ a + len = m
  BY <1>6, <1>12
<1>14. Given(h, g, P, a, m, hi)
  BY <1>5, <1>7, <1>12, <1>13, TakeIs
<1>15. a \notin Held(h)
  BY <1>2 DEF Held
<1> QED
  BY <1>6, <1>9, <1>12, <1>14, <1>15 DEF Given, Granted

\* g is h with the block mb of the caller resized, to at least amt units.
Resizes(h, g, P, mb, amt) ==
  /\ Sound(g, P) /\ Held(g) = Held(h)
  /\ amt <= g.hdr[mb].sz
  /\ \A b \in Held(h) : b # mb => g.hdr[b].sz = h.hdr[b].sz

\* A free block behind a block is a block.
LEMMA NextFree ==
  ASSUME NEW h, NEW P, NEW e \in 1 .. MemLen + 1, PoolsApart(P, e), Sound(h, P),
         NEW mb \in Blocks(h), NEW n, n = mb + h.hdr[mb].sz, ~ h.hdr[n].alloc
  PROVE  n \in FreeBlocks(h) /\ n \in Blocks(h)
<1>1. h \in HeapT /\ Layout(h, P)
  BY DEF Sound
<1>2. n \in Blocks(h) \/ \E p \in P : n = PoolEnd(p)
  BY <1>1, NextOf
<1>3. \A p \in P : n # PoolEnd(p)
  BY <1>1 DEF Layout, Ended
<1> QED
  BY <1>2, <1>3 DEF FreeBlocks

\* The free block behind mb makes it long enough for amt.
Growing(h, mb, n, amt) ==
  /\ n = mb + h.hdr[mb].sz /\ ~ h.hdr[n].alloc
  /\ h.hdr[mb].sz < amt /\ amt - h.hdr[mb].sz <= h.hdr[n].sz

LEMMA GrowIs ==
  ASSUME NEW h, NEW P, NEW e \in 1 .. MemLen + 1, PoolsApart(P, e), Sound(h, P),
         NEW mb \in Held(h), NEW n, NEW amt \in Int, Growing(h, mb, n, amt),
         NEW g, g = grow_into_next(h, mb, amt)
  PROVE  Resizes(h, g, P, mb, amt)
<1>1. h \in HeapT /\ Layout(h, P) /\ Binned(h, FreeBlocks(h)) /\ FreeBlocks(h) \subseteq Addr
  BY DEF Sound, FreeBlocks, Blocks
<1>2. mb \in Blocks(h) /\ mb \notin FreeBlocks(h) /\ mb \in Addr /\ mb \in Int
  BY DEF Held, Blocks, Addr
<1>3. PICK sz \in Nat : sz = h.hdr[mb].sz /\ sz > 0
  BY <1>1, <1>2 DEF HeapT, HdrT, Blocks
<1>4. n \in FreeBlocks(h) /\ n \in Blocks(h)
  <2>1. n = mb + h.hdr[mb].sz /\ ~ h.hdr[n].alloc
    BY DEF Growing
  <2> QED
    BY <2>1, <1>2, NextFree
<1>5. PICK hi : hi = n + h.hdr[n].sz
  OBVIOUS
<1>6. Edges(h, n, hi)
  BY <1>4, <1>5, FreeEdges
<1>7. /\ n \in Addr /\ hi \in Addr /\ h.hdr[n].sz \in Nat /\ h.hdr[n].sz > 0
      /\ h.hdr[hi].alloc = TRUE /\ h.hdr[hi].palloc = FALSE
  BY <1>6 DEF Edges
<1>8. n \in Int /\ hi \in Int /\ mb < n /\ n < hi /\ n = mb + sz /\ h.hdr[n].sz <= MemLen
      /\ hi - n = h.hdr[n].sz /\ Addr \subseteq Int
  BY <1>2, <1>3, <1>5, <1>7, BlockAssumption DEF Addr, Growing
<1>9. Region(h, P, mb, hi)
  <2>1. Region(h, P, mb, n)
    BY <1>1, <1>2, <1>3, <1>8, RegionOne
  <2> QED
    BY <2>1, <1>1, <1>4, <1>5, RegionJoin
<1>10. ASSUME NEW b \in Blocks(h), b # mb, b # n PROVE b \notin mb .. hi - 1
  <2>1. b \in Int /\ (b < mb \/ n <= b)
    BY <1>2, <1>3, <1>8, <1>10, NoneWithin
  <2>2. b < n \/ hi <= b
    BY <1>4, <1>5, <1>10, NoneWithin
  <2> QED
    BY <2>1, <2>2, <1>2, <1>8
<1>11. FreeBlocks(h) \ (mb .. hi - 1) = FreeBlocks(h) \ {n}
       /\ (Held(h) \ (mb .. hi - 1)) \cup {mb} = Held(h)
  <2>1. n \in mb .. hi - 1 /\ mb \in mb .. hi - 1 /\ n \notin Held(h)
    BY <1>2, <1>4, <1>8 DEF Held
  <2> QED
    BY <2>1, <1>2, <1>10 DEF Held, FreeBlocks
<1>12. PICK delta \in Int : delta = amt - h.hdr[mb].sz /\ 0 < delta /\ delta <= h.hdr[n].sz
                            /\ amt = sz + delta
  BY <1>3, <1>7 DEF Growing
<1>13. PICK h1 : h1 = IF h.hdr[n].sz > delta + MinNU THEN tlsf_split_blk(h, n, delta)
                      ELSE tlsf_rem_blk_c(h, n)
  OBVIOUS
<1>14. g = set_alloc_mb(h1, mb, sz + h1.hdr[n].sz)
  <2>1. g = set_alloc_mb(h1, mb, h.hdr[mb].sz + h1.hdr[n].sz)
    BY <1>12, <1>13, Zenon DEF grow_into_next, Growing
  <2> QED
    BY <2>1, <1>3
<1>15. \E m \in Int : /\ mb < m /\ m <= hi /\ mb + amt <= m /\ Opened(h, h1, mb, m, hi)
                      /\ m = n + h1.hdr[n].sz
  <2>1. CASE h.hdr[n].sz > delta + MinNU
    <3>1. h1 = tlsf_split_blk(h, n, delta)
      BY <2>1, <1>13
    <3>2. PICK m \in Int : m = n + delta /\ n < m /\ m < hi /\ m - n = delta /\ delta \in Nat
      BY <2>1, <1>5, <1>7, <1>8, <1>12, BlockAssumption
    <3>3. Splitted(h, h1, n, m, hi)
      BY <3>1, <3>2, <1>4, <1>5, SplitIs
    <3>4. FreeAfter(h, mb, m, hi, TRUE) = (FreeBlocks(h) \ {n}) \cup {m}
      BY <3>2, <1>11 DEF FreeAfter
    <3>5. /\ h1 \in HeapT
          /\ \A b \in Addr : b < n \/ hi <= b => h1.hdr[b] = h.hdr[b] /\ h1.foot[b] = h.foot[b]
          /\ h1.hdr[n].sz = m - n
          /\ h1.hdr[m].sz = hi - m /\ h1.hdr[m].alloc = FALSE /\ h1.foot[hi - 1] = hi - m
          /\ \A b \in Addr : m < b /\ b < hi => h1.hdr[b].sz = 0
          /\ Binned(h1, (FreeBlocks(h) \ {n}) \cup {m})
      BY <3>3 DEF Splitted
    <3>6. ASSUME NEW b \in Addr, b < mb \/ hi <= b
          PROVE  h1.hdr[b] = h.hdr[b] /\ h1.foot[b] = h.foot[b]
      <4>1. b < n \/ hi <= b
        BY <3>6, <1>2, <1>8
      <4> QED
        BY <4>1, <3>5
    <3>7. h1.hdr[mb] = h.hdr[mb]
      BY <3>5, <1>2, <1>8
    <3>8. Opened(h, h1, mb, m, hi)
      BY <3>4, <3>5, <3>6, <3>7 DEF Opened
    <3>9. mb < m /\ m <= hi /\ mb + amt <= m /\ m = n + h1.hdr[n].sz
      BY <3>2, <3>5, <1>2, <1>8, <1>12
    <3> QED
      BY <3>8, <3>9
  <2>2. CASE ~ (h.hdr[n].sz > delta + MinNU)
    <3>1. h1 = tlsf_rem_blk_c(h, n)
      BY <2>2, <1>13
    <3>2. h1 \in HeapT /\ SameWords(h, h1) /\ Binned(h1, FreeBlocks(h) \ {n})
      BY <3>1, <1>1, <1>4, <1>7, <1>8, RemBlk
    <3>3. FreeAfter(h, mb, hi, hi, TRUE) = FreeBlocks(h) \ {n}
      BY <1>8, <1>11 DEF FreeAfter
    <3>4. h1.hdr = h.hdr /\ h1.foot = h.foot
      BY <3>2 DEF SameWords
    <3>5. ~ (hi < hi) /\ \A b \in Addr : ~ (hi < b /\ b < hi)
      BY <1>8 DEF Addr
    <3>6. Opened(h, h1, mb, hi, hi)
      BY <3>2, <3>3, <3>4, <3>5 DEF Opened
    <3>7. mb < hi /\ hi <= hi /\ mb + amt <= hi /\ hi = n + h1.hdr[n].sz
      BY <3>4, <1>2, <1>5, <1>7, <1>8, <1>12
    <3> QED
      BY <3>6, <3>7, <1>8
  <2> QED
    BY <2>1, <2>2
<1>16. PICK m \in Int : /\ mb < m /\ m <= hi /\ mb + amt <= m /\ Opened(h, h1, mb, m, hi)
                        /\ m = n + h1.hdr[n].sz
  BY <1>15
<1>17. PICK len \in Nat : len = sz + h1.hdr[n].sz /\ mb + len = m
  <2>1. h1.hdr[n].sz \in Nat
    BY <1>16, <1>7 DEF Opened, HeapT, HdrT
  <2> QED
    BY <2>1, <1>2, <1>8, <1>16
<1>18. Given(h, g, P, mb, m, hi)
  BY <1>7, <1>9, <1>14, <1>16, <1>17, TakeIs
<1> QED
  BY <1>2, <1>11, <1>16, <1>18 DEF Given, Resizes

\* The heap before the tail of mb is written: the block behind is off its list or
\* knows that a free block precedes it.
Unjoined(h, n) == IF h.hdr[n].alloc THEN PrevCleared(h, n) ELSE tlsf_rem_blk_c(h, n)

UnjoinedDone(h, h1, P, mb, n, hi) ==
  /\ h1 \in HeapT /\ Binned(h1, FreeBlocks(h) \ (mb .. hi - 1))
  /\ Region(h, P, mb, hi) /\ h.hdr[hi].alloc = TRUE /\ n <= hi
  /\ \A b \in Blocks(h) : b # mb /\ b # n => b \notin mb .. hi - 1
  /\ Held(h) \cap (mb .. hi - 1) = {mb}
  /\ h1.hdr[hi] = Tag(h.hdr[hi].sz, TRUE, FALSE)
  /\ \A b \in Addr : b # hi => h1.hdr[b] = h.hdr[b]
  /\ h1.foot = h.foot

LEMMA UnjoinedIs ==
  ASSUME NEW h, NEW P, NEW e \in 1 .. MemLen + 1, PoolsApart(P, e), Sound(h, P),
         NEW mb \in Held(h), NEW n, n = mb + h.hdr[mb].sz, NEW hi, hi = JoinedTo(h, n),
         NEW h1, h1 = Unjoined(h, n)
  PROVE  UnjoinedDone(h, h1, P, mb, n, hi)
<1>1. h \in HeapT /\ Layout(h, P) /\ Binned(h, FreeBlocks(h)) /\ FreeBlocks(h) \subseteq Addr
  BY DEF Sound, FreeBlocks, Blocks
<1>2. mb \in Blocks(h) /\ mb \notin FreeBlocks(h) /\ mb \in Addr /\ mb \in Int
  BY DEF Held, Blocks, Addr
<1>3. PICK sz \in Nat : sz = h.hdr[mb].sz /\ sz > 0
  BY <1>1, <1>2 DEF HeapT, HdrT, Blocks
<1>4. n \in Addr /\ n \in Int /\ mb < n /\ Addr \subseteq Int
  BY <1>1, <1>2, NextOf DEF Addr
<1>5. h.hdr[n].alloc \in BOOLEAN
  BY <1>1, <1>4 DEF HeapT, HdrT
<1>6. Region(h, P, mb, n)
  BY <1>1, <1>2, RegionOne
<1>7. ASSUME NEW b \in Blocks(h), b # mb PROVE b \in Int /\ b \notin mb .. n - 1 /\ (b < mb \/ n <= b)
  BY <1>2, <1>7, NoneWithin
<1>8. CASE h.hdr[n].alloc = TRUE
  <2>1. hi = n /\ h1 = PrevCleared(h, n)
    BY <1>8 DEF JoinedTo, Unjoined
  <2>2. h1 \in HeapT /\ SameBins(h, h1) /\ h1.foot = h.foot
        /\ WroteTag(h, h1, n, Tag(h.hdr[n].sz, h.hdr[n].alloc, FALSE))
    <3>1. h \in HeapT /\ n \in Addr /\ h1 = PrevCleared(h, n)
      BY <2>1, <1>1, <1>4
    <3>2. Cleared(h, n, h1)
      BY <3>1, ClearPrevIs
    <3> QED
      BY <3>2 DEF Cleared
  <2>3. h1.hdr[n] = Tag(h.hdr[n].sz, TRUE, FALSE)
    BY <2>2, <1>4, <1>8 DEF WroteTag
  <2>4. \A b \in Addr : b # n => h1.hdr[b] = h.hdr[b]
    BY <2>2 DEF WroteTag
  <2>5. FreeBlocks(h) \ (mb .. n - 1) = FreeBlocks(h)
    BY <1>2, <1>7 DEF FreeBlocks
  <2>6. Binned(h1, FreeBlocks(h))
    <3>1. h1.hdr[n].sz = h.hdr[n].sz
      BY <2>3 DEF Tag
    <3>2. \A b \in FreeBlocks(h) : h1.hdr[b].sz = h.hdr[b].sz
      BY <3>1, <2>4, <1>1
    <3> QED
      BY <3>2, <2>2, <1>1, WordsKeepBins
  <2>7. Held(h) \cap (mb .. n - 1) = {mb}
    <3>1. mb \in mb .. n - 1
      BY <1>2, <1>4
    <3> QED
      BY <3>1, <1>7 DEF Held
  <2>8. n <= n
    BY <1>4
  <2> QED
    BY <2>1, <2>2, <2>3, <2>4, <2>5, <2>6, <2>7, <2>8, <1>6, <1>7, <1>8 DEF UnjoinedDone
<1>9. CASE h.hdr[n].alloc = FALSE
  <2>1. n \in FreeBlocks(h) /\ n \in Blocks(h)
    BY <1>2, <1>9, NextFree
  <2>2. hi = n + h.hdr[n].sz /\ h1 = tlsf_rem_blk_c(h, n)
    BY <1>9 DEF JoinedTo, Unjoined
  <2>3. Edges(h, n, hi)
    BY <2>1, <2>2, FreeEdges
  <2>4. hi \in Addr /\ h.hdr[n].sz \in Nat /\ h.hdr[n].sz > 0 /\ h.hdr[hi].alloc = TRUE
        /\ h.hdr[hi].palloc = FALSE
    BY <2>3 DEF Edges
  <2>5. hi \in Int /\ n < hi /\ n <= hi /\ h.hdr[n].sz <= MemLen
    BY <2>2, <2>4, <1>4, BlockAssumption DEF Addr
  <2>6. h1 \in HeapT /\ SameWords(h, h1) /\ Binned(h1, FreeBlocks(h) \ {n})
    BY <2>1, <2>2, <2>4, <2>5, <1>1, RemBlk
  <2>7. h1.hdr = h.hdr /\ h1.foot = h.foot
    BY <2>6 DEF SameWords
  <2>8. Region(h, P, mb, hi)
    BY <2>1, <2>2, <1>1, <1>6, RegionJoin
  <2>9. ASSUME NEW b \in Blocks(h), b # mb, b # n PROVE b \notin mb .. hi - 1
    <3>1. b < n \/ hi <= b
      BY <2>1, <2>2, <2>9, NoneWithin
    <3>2. b \in Int /\ (b < mb \/ n <= b)
      BY <2>9, <1>7
    <3> QED
      BY <3>1, <3>2, <2>5, <1>2, <1>4
  <2>10. n \in mb .. hi - 1 /\ mb \in mb .. hi - 1 /\ n \notin Held(h)
    BY <2>1, <2>5, <1>2, <1>4 DEF Held
  <2>11. FreeBlocks(h) \ (mb .. hi - 1) = FreeBlocks(h) \ {n}
    BY <2>9, <2>10, <1>2 DEF FreeBlocks
  <2>12. Held(h) \cap (mb .. hi - 1) = {mb}
    BY <2>9, <2>10 DEF Held
  <2>13. h1.hdr[hi] = Tag(h.hdr[hi].sz, TRUE, FALSE)
    <3>1. h.hdr[hi] \in HdrT
      BY <2>4, <1>1 DEF HeapT
    <3>2. h.hdr[hi] = Tag(h.hdr[hi].sz, h.hdr[hi].alloc, h.hdr[hi].palloc)
      BY <3>1 DEF HdrT, Tag
    <3> QED
      BY <3>2, <2>4, <2>7
  <2> QED
    BY <2>4, <2>5, <2>6, <2>7, <2>8, <2>9, <2>11, <2>12, <2>13 DEF UnjoinedDone
<1> QED
  BY <1>5, <1>8, <1>9

\* tlsf_shrink_blk when it cuts a tail off.
ShTail(h, mb, n, sz) ==
  LET delta == h.hdr[mb].sz - sz
      nbsz  == IF ~ h.hdr[n].alloc THEN delta + h.hdr[n].sz ELSE delta
  IN  set_free_mb(Unjoined(h, n), mb + sz, nbsz, Tag(nbsz, FALSE, TRUE))

LEMMA ShrinkIs ==
  ASSUME NEW h, NEW P, NEW e \in 1 .. MemLen + 1, PoolsApart(P, e), Sound(h, P),
         NEW mb \in Held(h), NEW sz \in Nat, 0 < sz, sz <= h.hdr[mb].sz,
         NEW g, g = tlsf_shrink_blk(h, mb, sz)
  PROVE  Resizes(h, g, P, mb, sz)
<1>1. h \in HeapT /\ Layout(h, P) /\ Binned(h, FreeBlocks(h)) /\ FreeBlocks(h) \subseteq Addr
  BY DEF Sound, FreeBlocks, Blocks
<1>2. mb \in Blocks(h) /\ mb \in Addr /\ mb \in Int /\ h.hdr[mb].alloc = TRUE
  <2>1. mb \in Blocks(h) /\ mb \in Addr /\ mb \in Int /\ ~ ~ h.hdr[mb].alloc
    BY DEF Held, FreeBlocks, Blocks, Addr
  <2>2. h.hdr[mb].alloc \in BOOLEAN
    BY <2>1, <1>1 DEF HeapT, HdrT
  <2> QED
    BY <2>1, <2>2
<1>3. PICK len \in Nat : len = h.hdr[mb].sz /\ len > 0
  BY <1>1, <1>2 DEF HeapT, HdrT, Blocks
<1>4. PICK n : n = mb + h.hdr[mb].sz
  OBVIOUS
<1>5. n \in Addr /\ n \in Int /\ mb < n /\ Addr \subseteq Int /\ n = mb + len
  BY <1>1, <1>2, <1>3, <1>4, NextOf DEF Addr
<1>6. CASE g = h
  BY <1>1, <1>2, <1>6 DEF Resizes
<1>7. CASE g # h
  <2>1. g = WithSize(tlsf_ins_blk_c(ShTail(h, mb, n, sz), mb + sz), mb, sz)
        /\ ~ (h.hdr[mb].sz - sz < MinNU)
    <3>1. ~ (h.hdr[mb].sz - sz < MinNU)
      BY <1>7 DEF tlsf_shrink_blk
    <3>2. g = [tlsf_ins_blk_c(ShTail(h, mb, n, sz), mb + sz) EXCEPT !.hdr[mb].sz = sz]
      <4>1. h.hdr[n].alloc \in BOOLEAN
        BY <1>1, <1>5 DEF HeapT, HdrT
      <4>2. CASE h.hdr[n].alloc = TRUE
        BY <4>2, <1>4, <1>7 DEF tlsf_shrink_blk, ShTail, Unjoined, PrevCleared
      <4>3. CASE h.hdr[n].alloc = FALSE
        BY <4>3, <1>4, <1>7 DEF tlsf_shrink_blk, ShTail, Unjoined, PrevCleared
      <4> QED
        BY <4>1, <4>2, <4>3
    <3> QED
      BY <3>1, <3>2 DEF WithSize
  <2>2. PICK hi : hi = JoinedTo(h, n)
    OBVIOUS
  <2>3. PICK h1 : h1 = Unjoined(h, n)
    OBVIOUS
  <2>4. UnjoinedDone(h, h1, P, mb, n, hi)
    BY <2>2, <2>3, <1>4, UnjoinedIs
  <2>5. /\ h1 \in HeapT /\ Binned(h1, FreeBlocks(h) \ (mb .. hi - 1))
        /\ Region(h, P, mb, hi) /\ h.hdr[hi].alloc = TRUE /\ n <= hi
        /\ \A b \in Blocks(h) : b # mb /\ b # n => b \notin mb .. hi - 1
        /\ Held(h) \cap (mb .. hi - 1) = {mb}
        /\ h1.hdr[hi] = Tag(h.hdr[hi].sz, TRUE, FALSE)
        /\ \A b \in Addr : b # hi => h1.hdr[b] = h.hdr[b]
        /\ h1.foot = h.foot
    BY <2>4 DEF UnjoinedDone
  <2>6. hi \in Addr /\ hi \in Int /\ mb < hi
    BY <2>5, <1>5 DEF Region
  <2>7. PICK m \in Int : m = mb + sz /\ mb < m /\ m < n /\ m < hi
    BY <2>1, <2>5, <2>6, <1>2, <1>3, <1>5, BlockAssumption
  <2>8. m \in Addr
    BY <2>6, <2>7, <1>2, BlockAssumption DEF Addr
  <2>9. PICK nbsz \in Nat : nbsz = hi - m /\ m + nbsz = hi /\ 0 < nbsz /\ nbsz <= MemLen
                            /\ nbsz = IF ~ h.hdr[n].alloc THEN h.hdr[mb].sz - sz + h.hdr[n].sz
                                      ELSE h.hdr[mb].sz - sz
    <3>1. h.hdr[n].alloc \in BOOLEAN /\ h.hdr[n].sz \in Nat
      BY <1>1, <1>5 DEF HeapT, HdrT
    <3>2. hi - m \in Nat /\ m + (hi - m) = hi /\ 0 < hi - m /\ hi - m <= MemLen
      BY <2>6, <2>7, <2>8, BlockAssumption DEF Addr
    <3>3. CASE h.hdr[n].alloc = TRUE
      <4>1. hi = n
        BY <3>3, <2>2 DEF JoinedTo
      <4>2. hi - m = h.hdr[mb].sz - sz
        BY <4>1, <2>7, <1>2, <1>3, <1>5
      <4> QED
        BY <4>2, <3>2, <3>3
    <3>4. CASE h.hdr[n].alloc = FALSE
      <4>1. hi = n + h.hdr[n].sz
        BY <3>4, <2>2 DEF JoinedTo
      <4>2. hi - m = h.hdr[mb].sz - sz + h.hdr[n].sz
        BY <4>1, <3>1, <2>7, <1>2, <1>3, <1>5
      <4> QED
        BY <4>2, <3>2, <3>4
    <3> QED
      BY <3>1, <3>3, <3>4
  <2>10. PICK tg \in HdrT : tg = Tag(nbsz, FALSE, TRUE)
    BY <2>9, TagTyped
  <2>11. PICK h2 : h2 = set_free_mb(h1, m, nbsz, tg)
    OBVIOUS
  <2>12. h2 = ShTail(h, mb, n, sz)
    <3>1. ShTail(h, mb, n, sz) = set_free_mb(h1, m, nbsz, Tag(nbsz, FALSE, TRUE))
      BY <2>3, <2>7, <2>9 DEF ShTail
    <3> QED
      BY <3>1, <2>10, <2>11
  <2>13. PICK h3 : h3 = tlsf_ins_blk_c(h2, m)
    OBVIOUS
  <2>14. g = WithSize(h3, mb, sz)
    BY <2>1, <2>7, <2>12, <2>13
  <2>15. h2 \in HeapT /\ SameBins(h1, h2) /\ Wrote(h1, h2, m, hi, tg)
    BY <2>5, <2>6, <2>8, <2>9, <2>11, SetFree
  <2>16. PICK F \in SUBSET Addr : F = FreeBlocks(h) \ (mb .. hi - 1)
    BY <1>1
  <2>17. ASSUME NEW b \in F PROVE b \in Int /\ (b < mb \/ hi <= b)
    <3>1. b \in Addr /\ b \notin mb .. hi - 1
      BY <2>16
    <3> QED
      BY <3>1, <2>6, <1>2, <1>5
  <2>18. Binned(h2, F)
    <3>1. \A b \in F : b # m /\ ~ (m < b /\ b < hi)
      BY <2>6, <2>7, <2>17, <1>2
    <3>2. Binned(h1, F)
      BY <2>5, <2>16
    <3> QED
      BY <3>1, <3>2, <2>15, WroteBins
  <2>19. h2.hdr[m] = tg
    BY <2>8, <2>15 DEF Wrote
  <2>20. h3 \in HeapT /\ SameWords(h2, h3) /\ Binned(h3, F \cup {m})
    <3>1. m \notin F
      BY <2>6, <2>7, <2>17, <1>2
    <3>2. 0 < h2.hdr[m].sz /\ h2.hdr[m].sz <= MemLen
      BY <2>9, <2>10, <2>19 DEF Tag
    <3> QED
      BY <3>1, <3>2, <2>8, <2>13, <2>15, <2>18, InsBlk
  <2>21. g \in HeapT /\ SameBins(h3, g) /\ g.foot = h3.foot
         /\ WroteTag(h3, g, mb, Tag(sz, h3.hdr[mb].alloc, h3.hdr[mb].palloc))
    BY <2>14, <2>20, <1>2, SetSize
  <2>22. h3.hdr = h2.hdr /\ h3.foot = h2.foot
    BY <2>20 DEF SameWords
  <2>23. ASSUME NEW b \in Addr, b # mb PROVE g.hdr[b] = h2.hdr[b]
    BY <2>21, <2>22, <2>23 DEF WroteTag
  <2>24. g.foot = h2.foot
    BY <2>21, <2>22
  <2>25. ASSUME NEW b \in Addr, b < m \/ hi <= b
         PROVE  h2.hdr[b] = h1.hdr[b] /\ h2.foot[b] = h.foot[b]
    <3>1. b # m /\ ~ (m < b /\ b < hi) /\ b # hi - 1 /\ ~ (m <= b /\ b < hi)
      BY <2>6, <2>7, <2>25, <1>5
    <3> QED
      BY <3>1, <2>5, <2>15 DEF Wrote
  <2>26. g.hdr[mb] = Tag(sz, h.hdr[mb].alloc, h.hdr[mb].palloc)
    <3>1. h2.hdr[mb] = h1.hdr[mb] /\ mb # hi
      BY <2>6, <2>7, <2>25, <1>2
    <3>2. h3.hdr[mb] = h.hdr[mb]
      BY <3>1, <2>5, <2>22, <1>2
    <3> QED
      BY <3>2, <2>21, <1>2 DEF WroteTag
  <2>27. Binned(g, F \cup {m})
    <3>1. ASSUME NEW b \in F \cup {m} PROVE g.hdr[b].sz = h3.hdr[b].sz
      <4>1. b \in Addr /\ b # mb
        BY <2>6, <2>7, <2>8, <2>17, <1>2
      <4> QED
        BY <4>1, <2>22, <2>23
    <3> QED
      BY <3>1, <2>20, <2>21, WordsKeepBins
  <2>28. F \cup {m} = FreeAfter(h, mb, m, hi, TRUE)
    BY <2>7, <2>16 DEF FreeAfter
  <2>29. Recut(h, g, mb, m, hi, TRUE)
    <3>1. ASSUME NEW b \in Addr, b < mb \/ hi < b PROVE g.hdr[b] = h.hdr[b]
      <4>1. b # mb /\ b # hi /\ (b < m \/ hi <= b)
        BY <3>1, <2>6, <2>7, <1>2, <1>5
      <4> QED
        BY <4>1, <2>5, <2>23, <2>25
    <3>2. ASSUME NEW b \in Addr, b < mb \/ hi <= b PROVE g.foot[b] = h.foot[b]
      <4>1. b < m \/ hi <= b
        BY <3>2, <2>7, <1>2, <1>5
      <4> QED
        BY <4>1, <2>24, <2>25
    <3>3. g.hdr[mb].sz = m - mb /\ g.hdr[mb].alloc = TRUE /\ g.hdr[mb].palloc = h.hdr[mb].palloc
      <4>1. g.hdr[mb].sz = sz /\ g.hdr[mb].alloc = h.hdr[mb].alloc
            /\ g.hdr[mb].palloc = h.hdr[mb].palloc
        BY <2>26 DEF Tag
      <4>2. sz = m - mb
        BY <2>7, <1>2
      <4> QED
        BY <4>1, <4>2, <1>2
    <3>4. g.hdr[m].sz = hi - m /\ g.hdr[m].alloc = FALSE /\ g.hdr[m].palloc = TRUE
      <4>1. g.hdr[m] = Tag(nbsz, FALSE, TRUE)
        <5>1. m # mb
          BY <2>7, <1>2
        <5> QED
          BY <5>1, <2>8, <2>10, <2>19, <2>23
      <4>2. g.hdr[m].sz = nbsz /\ g.hdr[m].alloc = FALSE /\ g.hdr[m].palloc = TRUE
        BY <4>1 DEF Tag
      <4> QED
        BY <4>2, <2>9
    <3>5. ASSUME NEW b \in Addr, mb < b /\ b < hi /\ b # m PROVE g.hdr[b].sz = 0
      <4>1. b \in Int /\ b # mb /\ b # hi
        BY <3>5, <2>6, <1>2, <1>5
      <4>2. CASE b < m
        <5>1. g.hdr[b] = h.hdr[b]
          BY <4>1, <4>2, <2>5, <2>23, <2>25
        <5>2. b \in mb .. hi - 1 /\ b # n
          BY <4>1, <4>2, <3>5, <2>6, <2>7, <1>2, <1>5
        <5>3. b \notin Blocks(h)
          BY <5>2, <4>1, <2>5
        <5>4. h.hdr[b].sz \in Nat
          BY <1>1 DEF HeapT, HdrT
        <5> QED
          BY <5>1, <5>3, <5>4 DEF Blocks
      <4>3. CASE m < b
        <5>1. h2.hdr[b] = Garbage
          BY <4>3, <3>5, <2>15 DEF Wrote
        <5>2. g.hdr[b] = Garbage
          BY <5>1, <4>1, <2>23
        <5> QED
          BY <5>2 DEF Garbage
      <4> QED
        BY <4>1, <4>2, <4>3, <3>5, <2>7
    <3>6. g.hdr[hi].sz = h.hdr[hi].sz /\ g.hdr[hi].alloc = TRUE /\ g.hdr[hi].palloc = FALSE
      <4>1. hi # mb /\ hi <= hi
        BY <2>6, <1>2
      <4>2. g.hdr[hi] = Tag(h.hdr[hi].sz, TRUE, FALSE)
        BY <4>1, <2>5, <2>6, <2>23, <2>25
      <4> QED
        BY <4>2 DEF Tag
    <3>7. m # hi /\ m < hi
      BY <2>6, <2>7
    <3>8. g.foot[hi - 1] = hi - m
      <4>1. hi - 1 \in Addr
        BY <2>6, <2>7, <1>2, BlockAssumption DEF Addr
      <4> QED
        BY <4>1, <2>15, <2>24 DEF Wrote
    <3>9. g.hdr[hi].palloc = (m = hi) /\ g.hdr[hi].alloc = h.hdr[hi].alloc
      BY <3>6, <3>7, <2>5
    <3> QED
      BY <3>1, <3>2, <3>3, <3>4, <3>5, <3>6, <3>7, <3>8, <3>9 DEF Recut
  <2>30. Sound(g, P) /\ Accounts(h, g, mb, m, hi, TRUE)
    <3>1. PICK al \in BOOLEAN : al = TRUE
      OBVIOUS
    <3>2. Recut(h, g, mb, m, hi, al) /\ Binned(g, FreeAfter(h, mb, m, hi, al))
      BY <3>1, <2>27, <2>28, <2>29
    <3>3. (m < hi \/ al = FALSE => h.hdr[hi].alloc = TRUE)
          /\ (al = FALSE => h.hdr[mb].palloc = TRUE) /\ m <= hi
      BY <3>1, <2>5, <2>6, <2>7
    <3>4. Sound(g, P) /\ Accounts(h, g, mb, m, hi, al)
      BY <3>2, <3>3, <2>5, <2>7, <2>21, RecutSound
    <3> QED
      BY <3>1, <3>4
  <2>31. Held(g) = (Held(h) \ (mb .. hi - 1)) \cup {mb}
    BY <2>30 DEF Accounts, HeldAfter
  <2>32. Held(g) = Held(h)
    BY <2>5, <2>31
  <2>33. \A b \in Held(h) : b # mb => g.hdr[b].sz = h.hdr[b].sz
    BY <2>30, <2>32 DEF Accounts
  <2>34. g.hdr[mb].sz = sz
    BY <2>26 DEF Tag
  <2> QED
    BY <2>30, <2>32, <2>33, <2>34 DEF Resizes
<1> QED
  BY <1>6, <1>7

-----------------------------------------------------------------------------
(* The inductive invariant.                                                  *)

\* No free block is of a class that serves a request of class idx.
NoFit(h, idx) == \A b \in Bins : AtLeast(b, idx) => h.bins[b] = {}

\* The caller holds the blocks that are not free, each as long as it asked.
Caller(h, own) ==
  /\ DOMAIN own = Held(h) /\ own = [b \in Held(h) |-> own[b]]
  /\ \A b \in Held(h) : own[b] \in Nat /\ own[b] < h.hdr[b].sz

\* A call that waits for add_mem_func.
Pending(h, c, own) ==
  /\ c.amt \in Sizes /\ c.idx = round_next_tlsf_size(c.amt) /\ c.idx # None
  /\ c.old \in DOMAIN own \cup {0}
  /\ c.want \in Nat /\ c.want < c.amt
  /\ NoFit(h, c.idx)

\* No free block is as long as a request for n units rounded up.
TooShort(h, n) == n \in Sizes => \A a \in FreeBlocks(h) : h.hdr[a].sz < RoundedUp(n)

\* The inductive invariant.
IInv ==
  /\ top \in 1 .. MemLen + 1
  /\ PoolsApart(pools, top)
  /\ Sound(heap, pools)
  /\ Caller(heap, live)
  /\ call = Idle \/ (Pending(heap, call, live) /\ refused = 0)
  /\ refused \in Nat /\ TooShort(heap, refused)

\* bin is a list with a block for a request of class idx, or there is none.
Found(h, idx, bin) ==
  /\ bin # None => bin \in Bins /\ AtLeast(bin, idx)
  /\ bin = None => NoFit(h, idx)

LEMMA MinIs ==
  ASSUME NEW T \in SUBSET Nat, T # {}
  PROVE  Min(T) \in T /\ \A k \in T : Min(T) <= k
<1>1. \E n \in T : \A k \in T : n <= k
  BY Least
<1> QED
  BY <1>1 DEF Min

LEMMA FindIs ==
  ASSUME NEW h \in HeapT, NEW F \in SUBSET Addr, Binned(h, F), NEW idx \in Bins,
         NEW bin, bin = tlsf_find_blk(h, idx)
  PROVE  Found(h, idx, bin)
<1>1. /\ idx[1] \in L1 /\ idx[2] \in Nat /\ idx = << idx[1], idx[2] >>
  BY LowIs
<1>2. h.l2bm \in [L1 -> SUBSET Nat] /\ h.l1bm \in SUBSET L1 /\ L1 \subseteq Nat
  BY DEF HeapT, L1
<1>3. /\ \A i \in L1 : \A j : j \in h.l2bm[i] <=> /\ j \in 0 .. (Pow2[L2Len] - 1)
                                                  /\ << i, j >> \in Bins /\ h.bins[<< i, j >>] # {}
      /\ \A i : i \in h.l1bm <=> i \in L1 /\ h.l2bm[i] # {}
  BY DEF Binned
<1>4. PICK n2 \in SUBSET Nat : n2 = { k \in h.l2bm[idx[1]] : k >= idx[2] }
  BY <1>1, <1>2
<1>5. PICK n1 \in SUBSET Nat : n1 = { k \in h.l1bm : k > idx[1] } /\ n1 \in SUBSET h.l1bm
  BY <1>1, <1>2
<1>6. bin = IF n2 # {} THEN << idx[1], Min(n2) >>
            ELSE IF n1 # {} THEN << Min(n1), Min(h.l2bm[Min(n1)]) >>
            ELSE None
  BY <1>4, <1>5 DEF tlsf_find_blk
<1>7. CASE n2 # {}
  <2>1. PICK j \in Nat : j = Min(n2) /\ j \in n2
    BY <1>7, MinIs
  <2>2. j \in h.l2bm[idx[1]] /\ j >= idx[2]
    BY <2>1, <1>4
  <2>3. << idx[1], j >> \in Bins
    BY <2>2, <1>1, <1>3
  <2>4. bin = << idx[1], j >>
    BY <2>1, <1>6, <1>7
  <2>5. AtLeast(bin, idx)
    BY <2>2, <2>4 DEF AtLeast
  <2>6. bin # None
    BY <2>1, <2>4 DEF None
  <2> QED
    BY <2>3, <2>4, <2>5, <2>6 DEF Found
<1>8. CASE n2 = {} /\ n1 # {}
  <2>1. PICK i \in Nat : i = Min(n1) /\ i \in n1
    BY <1>8, MinIs
  <2>2. i \in h.l1bm /\ i > idx[1] /\ i \in L1 /\ h.l2bm[i] # {}
    BY <2>1, <1>3, <1>5
  <2>3. h.l2bm[i] \in SUBSET Nat
    BY <2>2, <1>2
  <2>4. PICK j \in Nat : j = Min(h.l2bm[i]) /\ j \in h.l2bm[i]
    BY <2>2, <2>3, MinIs
  <2>5. << i, j >> \in Bins
    BY <2>2, <2>4, <1>3
  <2>6. bin = << i, j >>
    BY <2>1, <2>4, <1>6, <1>8
  <2>7. AtLeast(bin, idx)
    BY <2>2, <2>6 DEF AtLeast
  <2>8. bin # None
    BY <2>4, <2>6 DEF None
  <2> QED
    BY <2>5, <2>6, <2>7, <2>8 DEF Found
<1>9. CASE n2 = {} /\ n1 = {}
  <2>1. bin = None
    BY <1>6, <1>9
  <2>2. ASSUME NEW b \in Bins, AtLeast(b, idx) PROVE h.bins[b] = {}
    <3>1. /\ b[1] \in L1 /\ b[2] \in Nat /\ b = << b[1], b[2] >>
          /\ b[2] \in 0 .. (Pow2[L2Len] - 1)
      BY LowIs
    <3>2. h.bins[b] # {} => b[2] \in h.l2bm[b[1]] /\ b[1] \in h.l1bm
      BY <3>1, <1>3
    <3>3. CASE b[1] > idx[1]
      BY <3>2, <3>3, <1>5, <1>9
    <3>4. CASE b[1] = idx[1] /\ b[2] >= idx[2]
      BY <3>2, <3>4, <1>4, <1>9
    <3> QED
      BY <3>3, <3>4, <2>2 DEF AtLeast
  <2> QED
    BY <2>1, <2>2 DEF Found, NoFit
<1> QED
  BY <1>7, <1>8, <1>9

LEMMA HeapExt ==
  ASSUME NEW g \in HeapT, NEW h \in HeapT, SameBins(g, h),
         \A b \in Addr : g.hdr[b] = h.hdr[b], \A b \in Addr : g.foot[b] = h.foot[b]
  PROVE  g = h
<1>1. g.hdr = h.hdr
  <2>1. g.hdr = [b \in Addr |-> g.hdr[b]] /\ h.hdr = [b \in Addr |-> h.hdr[b]]
    BY DEF HeapT
  <2>2. [b \in Addr |-> g.hdr[b]] = [b \in Addr |-> h.hdr[b]]
    OBVIOUS
  <2> QED
    BY <2>1, <2>2
<1>2. g.foot = h.foot
  <2>1. g.foot = [b \in Addr |-> g.foot[b]] /\ h.foot = [b \in Addr |-> h.foot[b]]
    BY DEF HeapT
  <2>2. [b \in Addr |-> g.foot[b]] = [b \in Addr |-> h.foot[b]]
    OBVIOUS
  <2> QED
    BY <2>1, <2>2
<1>3. g = [hdr |-> g.hdr, foot |-> g.foot, bins |-> g.bins, l1bm |-> g.l1bm, l2bm |-> g.l2bm,
           wild |-> g.wild]
  BY DEF HeapT
<1>4. h = [hdr |-> h.hdr, foot |-> h.foot, bins |-> h.bins, l1bm |-> h.l1bm, l2bm |-> h.l2bm,
           wild |-> h.wild]
  BY DEF HeapT
<1> QED
  BY <1>1, <1>2, <1>3, <1>4 DEF SameBins

\* Blocks, and the words behind them, lie below the bound of the pools.
LEMMA BlocksBelow ==
  ASSUME NEW h, NEW P, NEW e \in 1 .. MemLen + 1, PoolsApart(P, e), Sound(h, P),
         NEW a \in Blocks(h)
  PROVE  /\ a \in Addr /\ a \in Int /\ h.hdr[a].sz \in Nat /\ h.hdr[a].sz > 0
         /\ a + h.hdr[a].sz < e /\ h.hdr[a].sz < MemLen
<1>1. h \in HeapT /\ Layout(h, P) /\ a \in Addr /\ a \in Int /\ h.hdr[a].sz > 0
  BY DEF Sound, Blocks, Addr
<1>2. h.hdr[a].sz \in Nat
  BY <1>1 DEF HeapT, HdrT
<1>3. PICK p \in P : p.start <= a /\ a + h.hdr[a].sz <= PoolEnd(p)
  BY <1>1 DEF Layout, Placed
<1>4. p.start \in Nat /\ p.ulen \in Nat /\ PoolEnd(p) < e
  BY DEF PoolsApart
<1> QED
  BY <1>1, <1>2, <1>3, <1>4, BlockAssumption DEF PoolEnd, Addr

\* g is h with one held block from start up to the sentinel at end.
Fresh(h, g, start, end) ==
  /\ SameBins(h, g) /\ g.foot = h.foot
  /\ \A b \in Addr : g.hdr[b] = IF b = start THEN Tag(end - start, TRUE, TRUE)
                                ELSE IF b = end THEN Tag(0, TRUE, TRUE) ELSE h.hdr[b]

LEMMA PoolsGrow ==
  ASSUME NEW P, NEW e \in 1 .. MemLen + 1, PoolsApart(P, e),
         NEW start \in Addr, NEW end \in Addr, start < end, e <= start, PoolHdr < start,
         NEW p, p = [start |-> start, ulen |-> end - start]
  PROVE  PoolsApart(P \cup {p}, end + 1) /\ PoolEnd(p) = end
<1>1. start \in Int /\ end \in Int /\ end - start \in Nat /\ end - start > 0 /\ start \in Nat
  BY DEF Addr
<1>2. p \in [start : Nat, ulen : Nat] /\ p.start = start /\ p.ulen = end - start
  BY <1>1
<1>3. PoolEnd(p) = end
  BY <1>1, <1>2 DEF PoolEnd
<1>4. ASSUME NEW q \in P
      PROVE  /\ q \in [start : Nat, ulen : Nat] /\ q.ulen > 0 /\ PoolHdr < q.start
             /\ PoolEnd(q) < start /\ PoolEnd(q) < end + 1
  <2>1. q \in [start : Nat, ulen : Nat] /\ q.ulen > 0 /\ PoolHdr < q.start /\ PoolEnd(q) < e
    BY DEF PoolsApart
  <2>2. PoolEnd(q) \in Int
    BY <2>1 DEF PoolEnd
  <2> QED
    BY <2>1, <2>2, <1>1
<1>5. P \cup {p} \subseteq [start : Nat, ulen : Nat]
  BY <1>2, <1>4
<1>6. ASSUME NEW q \in P \cup {p} PROVE q.ulen > 0 /\ PoolHdr < q.start /\ PoolEnd(q) < end + 1
  BY <1>1, <1>2, <1>3, <1>4
<1>7. ASSUME NEW q \in P \cup {p}, NEW r \in P \cup {p}, q # r
      PROVE  PoolEnd(q) < r.start \/ PoolEnd(r) < q.start
  <2>1. CASE q \in P /\ r \in P
    BY <2>1, <1>7 DEF PoolsApart
  <2>2. CASE q \in P /\ r = p
    BY <2>2, <1>2, <1>4
  <2>3. CASE q = p /\ r \in P
    BY <2>3, <1>2, <1>4
  <2> QED
    BY <2>1, <2>2, <2>3, <1>7
<1>8. PoolsApart(P \cup {p}, end + 1)
  BY <1>5, <1>6, <1>7 DEF PoolsApart
<1> QED
  BY <1>3, <1>8

LEMMA FreshSound ==
  ASSUME NEW h, NEW P, NEW e \in 1 .. MemLen + 1, PoolsApart(P, e), Sound(h, P),
         NEW start \in Addr, NEW end \in Addr, start < end, e <= start,
         NEW p, p = [start |-> start, ulen |-> end - start], PoolEnd(p) = end,
         NEW g \in HeapT, Fresh(h, g, start, end)
  PROVE  /\ Sound(g, P \cup {p}) /\ Held(g) = Held(h) \cup {start}
         /\ start \notin Blocks(h)
<1>1. h \in HeapT /\ Layout(h, P) /\ Binned(h, FreeBlocks(h))
  BY DEF Sound
<1>2. start \in Int /\ end \in Int /\ Addr \subseteq Int /\ e \in Int
      /\ end - start \in Nat /\ end - start > 0
  BY DEF Addr
<1>3. p.start = start /\ p.ulen = end - start
  OBVIOUS
<1>4. ASSUME NEW b \in Addr, b # start, b # end PROVE g.hdr[b] = h.hdr[b]
  BY <1>4 DEF Fresh
<1>5. g.foot = h.foot /\ SameBins(h, g)
  BY DEF Fresh
<1>6. g.hdr[start] = Tag(end - start, TRUE, TRUE)
  BY DEF Fresh
<1>7. g.hdr[end] = Tag(0, TRUE, TRUE)
  <2>1. end # start
    BY <1>2
  <2> QED
    BY <2>1 DEF Fresh
<1>8. g.hdr[start].sz = end - start /\ g.hdr[start].alloc = TRUE /\ g.hdr[start].palloc = TRUE
  BY <1>6 DEF Tag
<1>9. g.hdr[end].sz = 0 /\ g.hdr[end].alloc = TRUE /\ g.hdr[end].palloc = TRUE
  BY <1>7 DEF Tag
<1>10. ASSUME NEW a \in Blocks(h)
       PROVE  /\ a \in Addr /\ a \in Int /\ h.hdr[a].sz \in Nat /\ h.hdr[a].sz > 0
              /\ a + h.hdr[a].sz < start /\ a < start
              /\ g.hdr[a] = h.hdr[a]
  <2>1. /\ a \in Addr /\ a \in Int /\ h.hdr[a].sz \in Nat /\ h.hdr[a].sz > 0
        /\ a + h.hdr[a].sz < e
    BY BlocksBelow
  <2>2. a + h.hdr[a].sz < start /\ a < start /\ a # start /\ a # end
    BY <2>1, <1>2
  <2> QED
    BY <2>1, <2>2, <1>4
<1>11. start \notin Blocks(h)
  BY <1>2, <1>10
<1>12. Blocks(g) = Blocks(h) \cup {start}
  <2>1. start \in Blocks(g) /\ end \notin Blocks(g)
    BY <1>2, <1>8, <1>9 DEF Blocks
  <2>2. end \notin Blocks(h)
    BY <1>2, <1>10
  <2>3. ASSUME NEW b \in Addr, b # start, b # end PROVE b \in Blocks(g) <=> b \in Blocks(h)
    BY <2>3, <1>4 DEF Blocks
  <2>4. Blocks(g) \subseteq Addr /\ Blocks(h) \subseteq Addr
    BY DEF Blocks
  <2> QED
    BY <2>1, <2>2, <2>3, <2>4
<1>13. FreeBlocks(g) = FreeBlocks(h)
  <2>1. ASSUME NEW b PROVE b \in FreeBlocks(g) <=> b \in FreeBlocks(h)
    <3>1. CASE b = start
      BY <3>1, <1>8, <1>11 DEF FreeBlocks
    <3>2. CASE b # start
      <4>1. b \in Blocks(g) <=> b \in Blocks(h)
        BY <3>2, <1>12
      <4>2. b \in Blocks(h) => g.hdr[b].alloc = h.hdr[b].alloc
        BY <1>10
      <4> QED
        BY <4>1, <4>2 DEF FreeBlocks
    <3> QED
      BY <3>1, <3>2
  <2> QED
    BY <2>1
<1>14. Held(g) = Held(h) \cup {start}
  <2>1. start \notin FreeBlocks(h)
    BY <1>11 DEF FreeBlocks
  <2> QED
    BY <2>1, <1>12, <1>13 DEF Held
<1>15. Placed(g, P \cup {p})
  <2>1. ASSUME NEW a \in Blocks(g)
        PROVE  \E q \in P \cup {p} : q.start <= a /\ a + g.hdr[a].sz <= PoolEnd(q)
    <3>1. CASE a = start
      <4>1. p.start <= start /\ start + g.hdr[start].sz <= PoolEnd(p)
        BY <1>2, <1>3, <1>8
      <4> QED
        BY <3>1, <4>1
    <3>2. CASE a \in Blocks(h)
      <4>1. PICK q \in P : q.start <= a /\ a + h.hdr[a].sz <= PoolEnd(q)
        BY <3>2, <1>1 DEF Layout, Placed
      <4> QED
        BY <4>1, <3>2, <1>10
    <3> QED
      BY <3>1, <3>2, <1>12
  <2> QED
    BY <2>1 DEF Placed
<1>16. Covered(g, P \cup {p})
  <2>1. ASSUME NEW q \in P \cup {p}, NEW u \in PoolUnits(q)
        PROVE  \E a \in Blocks(g) : a <= u /\ u < a + g.hdr[a].sz
    <3>1. CASE q = p
      <4>1. u \in Int /\ start <= u /\ u < end
        BY <3>1, <1>2, <1>3 DEF PoolUnits
      <4>2. start <= u /\ u < start + g.hdr[start].sz
        BY <4>1, <1>2, <1>8
      <4> QED
        BY <4>2, <1>12
    <3>2. CASE q \in P
      <4>1. PICK a \in Blocks(h) : a <= u /\ u < a + h.hdr[a].sz
        BY <3>2, <1>1 DEF Layout, Covered
      <4> QED
        BY <4>1, <1>10, <1>12
    <3> QED
      BY <3>1, <3>2
  <2> QED
    BY <2>1 DEF Covered
<1>17. Apart(g)
  <2>1. ASSUME NEW a \in Blocks(g), NEW b \in Blocks(g), a < b PROVE a + g.hdr[a].sz <= b
    <3>1. CASE a \in Blocks(h) /\ b \in Blocks(h)
      <4>1. a + h.hdr[a].sz <= b
        BY <3>1, <2>1, <1>1 DEF Layout, Apart
      <4> QED
        BY <4>1, <3>1, <1>10
    <3>2. CASE a \in Blocks(h) /\ b = start
      <4>1. a + h.hdr[a].sz < start /\ g.hdr[a] = h.hdr[a] /\ a \in Int /\ h.hdr[a].sz \in Nat
        BY <3>2, <1>10
      <4> QED
        BY <4>1, <3>2, <1>2
    <3>3. CASE a = start /\ b \in Blocks(h)
      <4>1. b < start /\ b \in Int
        BY <3>3, <1>10
      <4> QED
        BY <4>1, <3>3, <2>1, <1>2
    <3>4. ~ (a = start /\ b = start)
      BY <2>1, <1>2
    <3> QED
      BY <3>1, <3>2, <3>3, <3>4, <1>12
  <2> QED
    BY <2>1 DEF Apart
<1>18. Ended(g, P \cup {p})
  <2>1. ASSUME NEW q \in P \cup {p}
        PROVE  /\ g.hdr[PoolEnd(q)].sz = 0 /\ g.hdr[PoolEnd(q)].alloc = TRUE
               /\ g.hdr[q.start].palloc = TRUE
    <3>1. CASE q = p
      BY <3>1, <1>3, <1>8, <1>9
    <3>2. CASE q \in P
      <4>1. q.start \in Nat /\ q.ulen \in Nat /\ q.ulen > 0 /\ PoolEnd(q) < e
            /\ PoolHdr < q.start
        BY <3>2 DEF PoolsApart
      <4>2. /\ q.start \in Addr /\ q.start # start /\ q.start # end
            /\ PoolEnd(q) \in Addr /\ PoolEnd(q) # start /\ PoolEnd(q) # end
        BY <4>1, <1>2, BlockAssumption DEF PoolEnd, Addr
      <4>3. g.hdr[q.start] = h.hdr[q.start] /\ g.hdr[PoolEnd(q)] = h.hdr[PoolEnd(q)]
        BY <4>2, <1>4
      <4>4. h.hdr[PoolEnd(q)].sz = 0 /\ h.hdr[PoolEnd(q)].alloc = TRUE
            /\ h.hdr[q.start].palloc = TRUE
        BY <3>2, <1>1 DEF Layout, Ended
      <4> QED
        BY <4>3, <4>4
    <3> QED
      BY <3>1, <3>2
  <2> QED
    BY <2>1 DEF Ended
<1>19. HeapTagged(g)
  <2>1. ASSUME NEW a \in Blocks(g), NEW n, n = a + g.hdr[a].sz
        PROVE  /\ g.hdr[n].palloc = g.hdr[a].alloc
               /\ ~ g.hdr[a].alloc => g.foot[n - 1] = g.hdr[a].sz
    <3>1. CASE a = start
      <4>1. n = end
        BY <3>1, <2>1, <1>2, <1>8
      <4> QED
        BY <3>1, <4>1, <1>8, <1>9
    <3>2. CASE a \in Blocks(h)
      <4>1. g.hdr[a] = h.hdr[a] /\ n = a + h.hdr[a].sz
        BY <3>2, <2>1, <1>10
      <4>2. n \in Addr /\ n < start
        BY <3>2, <4>1, <1>1, <1>10, NextOf
      <4>3. g.hdr[n] = h.hdr[n]
        <5>1. n # start /\ n # end
          BY <4>2, <1>2
        <5> QED
          BY <5>1, <4>2, <1>4
      <4>4. h.hdr[n].palloc = h.hdr[a].alloc /\ (~ h.hdr[a].alloc => h.foot[n - 1] = h.hdr[a].sz)
        BY <3>2, <4>1, <1>1 DEF Layout, HeapTagged
      <4> QED
        BY <4>1, <4>3, <4>4, <1>5
    <3> QED
      BY <3>1, <3>2, <1>12
  <2> QED
    BY <2>1 DEF HeapTagged
<1>20. HeapCoalesced(g)
  <2>1. ASSUME NEW a \in FreeBlocks(g), NEW b \in FreeBlocks(g) PROVE a + g.hdr[a].sz # b
    <3>1. a \in FreeBlocks(h) /\ b \in FreeBlocks(h) /\ a \in Blocks(h)
      BY <1>13 DEF FreeBlocks
    <3>2. a + h.hdr[a].sz # b
      BY <3>1, <1>1 DEF Layout, HeapCoalesced
    <3> QED
      BY <3>1, <3>2, <1>10
  <2> QED
    BY <2>1 DEF HeapCoalesced
<1>21. Binned(g, FreeBlocks(g))
  <2>1. \A b \in FreeBlocks(h) : g.hdr[b].sz = h.hdr[b].sz
    BY <1>10 DEF FreeBlocks
  <2>2. Binned(g, FreeBlocks(h))
    BY <2>1, <1>1, <1>5, WordsKeepBins
  <2> QED
    BY <2>2, <1>13
<1>22. Sound(g, P \cup {p})
  BY <1>15, <1>16, <1>17, <1>18, <1>19, <1>20, <1>21 DEF Sound, Layout
<1> QED
  BY <1>11, <1>14, <1>22

\* g is h with one more pool, from e up to e + len, all of it free.
Extended(h, g, P, Q, e, len) ==
  /\ Sound(g, Q) /\ PoolsApart(Q, e + len) /\ e + len \in 1 .. MemLen + 1
  /\ Holds(h, g, Held(h))

\* The block a pool begins with is freed like one whose successor knows it.
LEMMA FreshFreed ==
  ASSUME NEW h1 \in HeapT, NEW h2 \in HeapT, SameBins(h1, h2), h1.foot = h2.foot,
         NEW start \in Addr, NEW end \in Addr, start < end,
         \A b \in Addr : b # end => h1.hdr[b] = h2.hdr[b],
         h1.hdr[start] = Tag(end - start, TRUE, TRUE),
         h1.hdr[end] = Tag(0, TRUE, FALSE), h2.hdr[end] = Tag(0, TRUE, TRUE)
  PROVE  tlsf_coalesce_and_insert(h1, start) = tlsf_coalesce_and_insert(h2, start)
<1>1. start \in Int /\ end \in Int
  BY DEF Addr
<1>2. PICK len \in Nat : len = end - start /\ start + len = end
  BY <1>1
<1>3. h2.hdr[start] = Tag(end - start, TRUE, TRUE)
  <2>1. start # end
    BY <1>1
  <2>2. h1.hdr[start] = h2.hdr[start]
    BY <2>1
  <2> QED
    BY <2>2
<1>4. PICK tag \in HdrT : tag = Tag(len, FALSE, TRUE)
  BY <1>2, TagTyped
<1>5. ASSUME NEW h \in HeapT, h.hdr[start] = Tag(end - start, TRUE, TRUE),
             NEW x \in BOOLEAN, h.hdr[end] = Tag(0, TRUE, x)
      PROVE  \E g \in HeapT : /\ SameBins(h, g)
                              /\ \A b \in Addr : g.hdr[b] = IF b = start THEN tag
                                   ELSE IF start < b /\ b < end THEN Garbage
                                   ELSE IF b = end THEN Tag(0, TRUE, FALSE) ELSE h.hdr[b]
                              /\ \A b \in Addr : g.foot[b] = IF b = end - 1 THEN len
                                   ELSE IF start <= b /\ b < end THEN 0 ELSE h.foot[b]
                              /\ tlsf_coalesce_and_insert(h, start) = tlsf_ins_blk_c(g, start)
  <2>1. PICK t \in HdrT : t = h.hdr[start]
    BY <1>5 DEF HeapT
  <2>2. t.sz = len /\ t.alloc = TRUE /\ t.palloc = TRUE
    BY <2>1, <1>2, <1>5 DEF Tag
  <2>3. [t EXCEPT !.alloc = FALSE] = tag
    BY <2>2, <1>4, WithAlloc
  <2>4. PICK h0 : h0 = set_free_mb(h, start, len, tag)
    OBVIOUS
  <2>5. h0 \in HeapT /\ SameBins(h, h0) /\ Wrote(h, h0, start, end, tag)
    BY <2>4, <1>1, <1>2, <1>5, SetFree
  <2>6. CoH0(h, start) = h0
    BY <2>1, <2>2, <2>3, <2>4 DEF CoH0
  <2>7. CoPsz(h, start) = 0
    BY <2>1, <2>2 DEF CoPsz
  <2>8. CoA(h, start) = start
    BY <2>7, <1>1 DEF CoA
  <2>9. CoH1(h, start) = h0
    BY <2>1, <2>2, <2>6 DEF CoH1
  <2>10. CoN(h, start) = end
    <3>1. CoN(h, start) = start + 0 + len
      BY <2>1, <2>2, <2>7, <2>8 DEF CoN
    <3> QED
      BY <3>1, <1>1, <1>2
  <2>11. h0.hdr[end] = Tag(0, TRUE, x)
    <3>1. end # start /\ ~ (start < end /\ end < end)
      BY <1>1
    <3> QED
      BY <3>1, <2>5, <1>5 DEF Wrote
  <2>12. h0.hdr[end].alloc = TRUE /\ h0.hdr[end].sz = 0
    BY <2>11 DEF Tag
  <2>13. PICK g : g = PrevCleared(h0, end)
    OBVIOUS
  <2>14. CoH2(h, start) = g
    BY <2>9, <2>10, <2>12, <2>13 DEF CoH2, PrevCleared
  <2>15. tlsf_coalesce_and_insert(h, start) = tlsf_ins_blk_c(CoH2(h, start), CoA(h, start))
    BY DEF tlsf_coalesce_and_insert, CoH0, CoPsz, CoA, CoH1, CoN, CoH2
  <2>16. g \in HeapT /\ SameBins(h0, g) /\ g.foot = h0.foot
         /\ WroteTag(h0, g, end, Tag(h0.hdr[end].sz, h0.hdr[end].alloc, FALSE))
    BY <2>5, <2>13, ClearPrev
  <2>17. WroteTag(h0, g, end, Tag(0, TRUE, FALSE))
    BY <2>12, <2>16
  <2>18. ASSUME NEW b \in Addr
         PROVE  g.hdr[b] = IF b = start THEN tag
                           ELSE IF start < b /\ b < end THEN Garbage
                           ELSE IF b = end THEN Tag(0, TRUE, FALSE) ELSE h.hdr[b]
    <3>1. g.hdr[b] = IF b = end THEN Tag(0, TRUE, FALSE) ELSE h0.hdr[b]
      BY <2>17 DEF WroteTag
    <3>2. h0.hdr[b] = IF b = start THEN tag
                      ELSE IF start < b /\ b < end THEN Garbage ELSE h.hdr[b]
      BY <2>5 DEF Wrote
    <3>3. start # end /\ ~ (start < end /\ end < end)
      BY <1>1
    <3> QED
      BY <3>1, <3>2, <3>3
  <2>19. \A b \in Addr : g.foot[b] = IF b = end - 1 THEN len
                                     ELSE IF start <= b /\ b < end THEN 0 ELSE h.foot[b]
    BY <2>5, <2>16, <1>2 DEF Wrote
  <2>20. SameBins(h, g)
    BY <2>5, <2>16 DEF SameBins
  <2>21. tlsf_coalesce_and_insert(h, start) = tlsf_ins_blk_c(g, start)
    BY <2>8, <2>14, <2>15
  <2> QED
    BY <2>16, <2>18, <2>19, <2>20, <2>21
<1>6. PICK g1 \in HeapT : /\ SameBins(h1, g1)
                          /\ \A b \in Addr : g1.hdr[b] = IF b = start THEN tag
                               ELSE IF start < b /\ b < end THEN Garbage
                               ELSE IF b = end THEN Tag(0, TRUE, FALSE) ELSE h1.hdr[b]
                          /\ \A b \in Addr : g1.foot[b] = IF b = end - 1 THEN len
                               ELSE IF start <= b /\ b < end THEN 0 ELSE h1.foot[b]
                          /\ tlsf_coalesce_and_insert(h1, start) = tlsf_ins_blk_c(g1, start)
  BY <1>5
<1>7. PICK g2 \in HeapT : /\ SameBins(h2, g2)
                          /\ \A b \in Addr : g2.hdr[b] = IF b = start THEN tag
                               ELSE IF start < b /\ b < end THEN Garbage
                               ELSE IF b = end THEN Tag(0, TRUE, FALSE) ELSE h2.hdr[b]
                          /\ \A b \in Addr : g2.foot[b] = IF b = end - 1 THEN len
                               ELSE IF start <= b /\ b < end THEN 0 ELSE h2.foot[b]
                          /\ tlsf_coalesce_and_insert(h2, start) = tlsf_ins_blk_c(g2, start)
  BY <1>3, <1>5
<1>8. \A b \in Addr : g1.hdr[b] = g2.hdr[b]
  BY <1>6, <1>7
<1>9. \A b \in Addr : g1.foot[b] = g2.foot[b]
  BY <1>6, <1>7
<1>10. SameBins(g1, g2)
  BY <1>6, <1>7 DEF SameBins
<1>11. g1 = g2
  BY <1>8, <1>9, <1>10, HeapExt
<1> QED
  BY <1>6, <1>7, <1>11

\* Adding a pool keeps a heap sound and what the caller holds.
LEMMA AddPoolIs ==
  ASSUME NEW h, NEW P, NEW e \in 1 .. MemLen + 1, PoolsApart(P, e), Sound(h, P),
         NEW len \in Int, len >= PoolHdr + MinNU + 2, e + len - 1 <= MemLen,
         NEW Q, Q = P \cup {PoolAt(e, len)},
         NEW g, g = add_pool_blocks(h, e, len)
  PROVE  Extended(h, g, P, Q, e, len)
<1>1. h \in HeapT /\ MemLen \in Nat /\ MinNU \in Nat /\ MinNU >= 4 /\ PoolHdr \in Nat /\ PoolHdr > 0
  BY BlockAssumption DEF Sound
<1>2. PICK start \in Addr : start = e + PoolHdr
  BY <1>1 DEF Addr
<1>3. PICK end \in Addr : end = e + len - 1
  BY <1>1 DEF Addr
<1>4. /\ start \in Int /\ end \in Int /\ start < end /\ e <= start /\ PoolHdr < start
      /\ end - start = len - PoolHdr - 1 /\ end - start \in Nat /\ end + 1 = e + len
      /\ end = start + (len - PoolHdr - 1)
  BY <1>1, <1>2, <1>3
<1>5. PICK p : p = [start |-> start, ulen |-> end - start]
  OBVIOUS
<1>6. PoolAt(e, len) = p
  BY <1>2, <1>4, <1>5 DEF PoolAt
<1>7. PoolsApart(P \cup {p}, end + 1) /\ PoolEnd(p) = end
  BY <1>4, <1>5, PoolsGrow
<1>8. e + len \in 1 .. MemLen + 1
  BY <1>1
<1>9. PICK tags \in HdrT : tags = Tag(end - start, TRUE, TRUE)
  BY <1>4, TagTyped
<1>10. PICK tage \in HdrT : tage = Tag(0, TRUE, FALSE)
  <2>1. 0 \in Nat
    OBVIOUS
  <2> QED
    BY <2>1, TagTyped
<1>11. PICK tagt \in HdrT : tagt = Tag(0, TRUE, TRUE)
  <2>1. 0 \in Nat
    OBVIOUS
  <2> QED
    BY <2>1, TagTyped
<1>12. start # end
  BY <1>4
<1>13. ASSUME NEW tag \in HdrT
       PROVE  \E x \in HeapT : /\ x = WithTag(WithTag(h, end, tag), start, tags)
                               /\ SameBins(h, x) /\ x.foot = h.foot
                               /\ x.hdr[start] = tags /\ x.hdr[end] = tag
                               /\ \A b \in Addr : b # start /\ b # end => x.hdr[b] = h.hdr[b]
  <2>1. PICK y : y = WithTag(h, end, tag)
    OBVIOUS
  <2>2. y \in HeapT /\ SameBins(h, y) /\ y.foot = h.foot /\ WroteTag(h, y, end, tag)
    BY <2>1, <1>1, SetTag
  <2>3. PICK x : x = WithTag(y, start, tags)
    OBVIOUS
  <2>4. x \in HeapT /\ SameBins(y, x) /\ x.foot = y.foot /\ WroteTag(y, x, start, tags)
    <3>1. y \in HeapT /\ start \in Addr /\ tags \in HdrT
      BY <2>2
    <3> QED
      BY <3>1, <2>3, SetTag
  <2>5. x.hdr[start] = tags /\ x.hdr[end] = tag
    BY <2>2, <2>4, <1>12 DEF WroteTag
  <2>6. \A b \in Addr : b # start /\ b # end => x.hdr[b] = h.hdr[b]
    BY <2>2, <2>4 DEF WroteTag
  <2>7. SameBins(h, x) /\ x.foot = h.foot
    BY <2>2, <2>4 DEF SameBins
  <2> QED
    BY <2>1, <2>3, <2>4, <2>5, <2>6, <2>7
<1>14. PICK h1 \in HeapT : /\ h1 = WithTag(WithTag(h, end, tage), start, tags)
                           /\ SameBins(h, h1) /\ h1.foot = h.foot
                           /\ h1.hdr[start] = tags /\ h1.hdr[end] = tage
                           /\ \A b \in Addr : b # start /\ b # end => h1.hdr[b] = h.hdr[b]
  BY <1>13
<1>15. PICK h2 \in HeapT : /\ h2 = WithTag(WithTag(h, end, tagt), start, tags)
                           /\ SameBins(h, h2) /\ h2.foot = h.foot
                           /\ h2.hdr[start] = tags /\ h2.hdr[end] = tagt
                           /\ \A b \in Addr : b # start /\ b # end => h2.hdr[b] = h.hdr[b]
  BY <1>13
<1>16. g = tlsf_coalesce_and_insert(h1, start)
  <2>1. h1 = [h EXCEPT !.hdr[end] = tage, !.hdr[start] = tags]
    BY <1>14 DEF WithTag
  <2>2. g = tlsf_coalesce_and_insert([h EXCEPT !.hdr[e + PoolHdr + (len - PoolHdr - 1)]
                                                  = Tag(0, TRUE, FALSE),
                                               !.hdr[e + PoolHdr]
                                                  = Tag(len - PoolHdr - 1, TRUE, TRUE)],
                                     e + PoolHdr)
    BY DEF add_pool_blocks
  <2>3. e + PoolHdr = start /\ start + (len - PoolHdr - 1) = end
    BY <1>2, <1>4
  <2>4. tage = Tag(0, TRUE, FALSE) /\ tags = Tag(len - PoolHdr - 1, TRUE, TRUE)
    BY <1>4, <1>9, <1>10
  <2> QED
    BY <2>1, <2>2, <2>3, <2>4
<1>17. g = tlsf_coalesce_and_insert(h2, start)
  <2>1. ASSUME NEW b \in Addr, b # end PROVE h1.hdr[b] = h2.hdr[b]
    <3>1. CASE b = start
      BY <3>1, <1>14, <1>15
    <3>2. CASE b # start
      BY <3>2, <2>1, <1>14, <1>15
    <3> QED
      BY <3>1, <3>2
  <2>2. SameBins(h1, h2) /\ h1.foot = h2.foot
    BY <1>14, <1>15 DEF SameBins
  <2>3. h1.hdr[start] = Tag(end - start, TRUE, TRUE) /\ h1.hdr[end] = Tag(0, TRUE, FALSE)
        /\ h2.hdr[end] = Tag(0, TRUE, TRUE)
    BY <1>9, <1>10, <1>11, <1>14, <1>15
  <2>4. tlsf_coalesce_and_insert(h1, start) = tlsf_coalesce_and_insert(h2, start)
    BY <2>1, <2>2, <2>3, <1>4, FreshFreed
  <2> QED
    BY <2>4, <1>16
<1>18. Fresh(h, h2, start, end)
  <2>1. ASSUME NEW b \in Addr
        PROVE  h2.hdr[b] = IF b = start THEN Tag(end - start, TRUE, TRUE)
                           ELSE IF b = end THEN Tag(0, TRUE, TRUE) ELSE h.hdr[b]
    BY <1>9, <1>11, <1>15
  <2> QED
    BY <2>1, <1>15 DEF Fresh
<1>19. Sound(h2, P \cup {p}) /\ Held(h2) = Held(h) \cup {start} /\ start \notin Blocks(h)
  BY <1>4, <1>5, <1>7, <1>18, FreshSound
<1>20. PICK e2 \in 1 .. MemLen + 1 : e2 = end + 1
  BY <1>4, <1>8
<1>21. start \in Held(h2)
  BY <1>19
<1>22. Sound(g, Q) /\ Holds(h2, g, Held(h2) \ {start})
  <2>1. PoolsApart(Q, e2) /\ Sound(h2, Q)
    BY <1>6, <1>7, <1>19, <1>20
  <2> QED
    BY <2>1, <1>17, <1>21, CoalesceIs
<1>23. Held(h2) \ {start} = Held(h)
  BY <1>19 DEF Held
<1>24. ASSUME NEW b \in Held(h) PROVE g.hdr[b].sz = h.hdr[b].sz
  <2>1. b \in Blocks(h) /\ b \in Addr
    BY DEF Held, Blocks
  <2>2. g.hdr[b].sz = h2.hdr[b].sz
    BY <1>22, <1>23 DEF Holds
  <2>3. b # start /\ b # end
    <3>1. b \in Int /\ h.hdr[b].sz \in Nat /\ b + h.hdr[b].sz < e
      BY <2>1, BlocksBelow
    <3> QED
      BY <3>1, <1>4
  <2> QED
    BY <2>1, <2>2, <2>3, <1>15
<1>25. Holds(h, g, Held(h))
  BY <1>22, <1>23, <1>24 DEF Holds
<1> QED
  BY <1>4, <1>6, <1>7, <1>8, <1>22, <1>25 DEF Extended

LEMMA LenIs ==
  /\ Sizes \subseteq Nat /\ Pow2[NumL2] \in Nat /\ MemLen \in Nat /\ MemLen < Pow2[NumL2]
  /\ \A n \in Int : n \in Sizes <=> 1 <= n /\ n < Pow2[NumL2]
<1>1. NumL2 \in 0 .. NumL2 /\ MemLen \in Nat /\ MemLen < Pow2[NumL2]
  BY GeometryAssumption, BlockAssumption
<1>2. Pow2[NumL2] \in Nat
  BY <1>1, Pow2Is
<1> QED
  BY <1>1, <1>2 DEF Sizes

\* The size of a free block has a class, and the class has the block.
LEMMA FreeClass ==
  ASSUME NEW h, NEW P, NEW e \in 1 .. MemLen + 1, PoolsApart(P, e), Sound(h, P),
         NEW a \in FreeBlocks(h)
  PROVE  /\ h.hdr[a].sz \in Sizes /\ h.hdr[a].sz \in Nat /\ h.hdr[a].sz < MemLen
         /\ calc_tlsf_indices(h.hdr[a].sz) \in Bins
         /\ a \in h.bins[calc_tlsf_indices(h.hdr[a].sz)]
<1>1. a \in Blocks(h)
  BY DEF FreeBlocks
<1>2. h.hdr[a].sz \in Nat /\ h.hdr[a].sz > 0 /\ h.hdr[a].sz < MemLen
  <2>1. /\ a \in Int /\ h.hdr[a].sz \in Nat /\ h.hdr[a].sz > 0 /\ h.hdr[a].sz < MemLen
    BY <1>1, BlocksBelow
  <2> QED
    BY <2>1
<1>3. h.hdr[a].sz \in Sizes /\ calc_tlsf_indices(h.hdr[a].sz) \in Bins
  <2>1. h.hdr[a].sz \in Int /\ 0 < h.hdr[a].sz /\ h.hdr[a].sz <= MemLen
    BY <1>2, BlockAssumption
  <2> QED
    BY <2>1, SizeIn
<1>4. a \in h.bins[calc_tlsf_indices(h.hdr[a].sz)]
  BY <1>3 DEF Sound, Binned
<1> QED
  BY <1>2, <1>3, <1>4

\* A request fits every block of a class at least that of the request rounded up.
LEMMA BinFits ==
  ASSUME NEW h, NEW P, NEW e \in 1 .. MemLen + 1, PoolsApart(P, e), Sound(h, P),
         NEW amt \in Sizes, NEW idx, idx = round_next_tlsf_size(amt), idx # None,
         NEW bin \in Bins, AtLeast(bin, idx), NEW a \in h.bins[bin]
  PROVE  amt <= h.hdr[a].sz
<1>1. a \in FreeBlocks(h) /\ calc_tlsf_indices(h.hdr[a].sz) = bin
  BY DEF Sound, Binned
<1>2. h.hdr[a].sz \in Sizes
  BY <1>1, FreeClass
<1>3. idx \in Bins /\ LowOf(idx) = RoundedUp(amt) /\ amt <= RoundedUp(amt)
  BY RoundIs
<1>4. LowOf(idx) <= h.hdr[a].sz
  BY <1>1, <1>2, <1>3, ClassOrder
<1>5. LowOf(idx) \in Nat
  BY <1>3, LowIs
<1>6. amt \in Int /\ h.hdr[a].sz \in Int
  <2>1. amt \in Nat /\ h.hdr[a].sz \in Nat
    BY <1>2, LenIs, Zenon
  <2> QED
    BY <2>1
<1>7. amt <= LowOf(idx)
  BY <1>3
<1> QED
  BY <1>4, <1>5, <1>6, <1>7

LEMMA NoFitShort ==
  ASSUME NEW h, NEW P, NEW e \in 1 .. MemLen + 1, PoolsApart(P, e), Sound(h, P),
         NEW amt \in Sizes, NEW idx, idx = round_next_tlsf_size(amt),
         idx = None \/ NoFit(h, idx)
  PROVE  TooShort(h, amt)
<1>1. ASSUME NEW a \in FreeBlocks(h) PROVE h.hdr[a].sz < RoundedUp(amt)
  <2>1. /\ h.hdr[a].sz \in Sizes /\ h.hdr[a].sz \in Nat /\ h.hdr[a].sz < MemLen
        /\ calc_tlsf_indices(h.hdr[a].sz) \in Bins
        /\ a \in h.bins[calc_tlsf_indices(h.hdr[a].sz)]
    BY FreeClass
  <2>2. PICK c \in Bins : c = calc_tlsf_indices(h.hdr[a].sz) /\ a \in h.bins[c]
    BY <2>1
  <2>3. \/ idx \in Bins /\ LowOf(idx) = RoundedUp(amt)
        \/ idx = None /\ RoundedUp(amt) = Pow2[NumL2]
    BY RoundIs
  <2>4. CASE RoundedUp(amt) = Pow2[NumL2]
    BY <2>1, <2>4, LenIs
  <2>5. CASE idx \in Bins /\ LowOf(idx) = RoundedUp(amt)
    <3>1. idx # None
      <4>1. idx[1] \in L1 /\ idx = << idx[1], idx[2] >>
        BY <2>5, LowIs
      <4> QED
        BY <4>1 DEF None, L1
    <3>2. ~ AtLeast(c, idx)
      BY <3>1, <2>2 DEF NoFit
    <3>3. ~ (LowOf(idx) <= h.hdr[a].sz)
      BY <3>2, <2>1, <2>2, <2>5, ClassOrder
    <3>4. LowOf(idx) \in Nat
      BY <2>5, LowIs
    <3> QED
      BY <3>3, <3>4, <2>1, <2>5
  <2> QED
    BY <2>3, <2>4, <2>5
<1> QED
  BY <1>1 DEF TooShort

\* A block given out, and the block it replaces freed.
GrantedTo(h, g, P, own, new, a, old, want) ==
  /\ Sound(g, P) /\ Caller(g, new) /\ a \notin DOMAIN own /\ a \in Addr
  /\ DOMAIN new = (DOMAIN own \ {old}) \cup {a}
  /\ want < g.hdr[a].sz /\ new[a] = want
  /\ \A b \in DOMAIN own \ {old} : g.hdr[b].sz = h.hdr[b].sz /\ new[b] = own[b]
  /\ \A b \in DOMAIN own : b + h.hdr[b].sz <= a \/ a + g.hdr[a].sz <= b

LEMMA GrantIs ==
  ASSUME NEW h, NEW P, NEW e \in 1 .. MemLen + 1, PoolsApart(P, e), Sound(h, P),
         NEW own, Caller(h, own), NEW bin \in Bins, NEW a \in h.bins[bin],
         NEW amt \in Int, 0 < amt, amt <= h.hdr[a].sz,
         NEW old \in DOMAIN own \cup {0}, NEW want \in Nat, want < amt,
         NEW h1, h1 = tlsf_extract(h, bin, a, amt),
         NEW g, g = IF old = 0 THEN h1 ELSE tlsf_coalesce_and_insert(h1, old),
         NEW new, new = [b \in (DOMAIN own \ {old}) \cup {a} |-> IF b = a THEN want ELSE own[b]]
  PROVE  GrantedTo(h, g, P, own, new, a, old, want)
<1>1. DOMAIN own = Held(h) /\ \A b \in Held(h) : own[b] \in Nat /\ own[b] < h.hdr[b].sz
  BY DEF Caller
<1>2. Granted(h, h1, P, a, amt)
  BY ExtractIs
<1>3. /\ Sound(h1, P) /\ a \notin Held(h) /\ Held(h1) = Held(h) \cup {a}
      /\ amt <= h1.hdr[a].sz /\ \A b \in Held(h) : h1.hdr[b].sz = h.hdr[b].sz
  BY <1>2 DEF Granted
<1>4. Held(h) \subseteq Addr /\ 0 \notin Addr /\ a \in Addr /\ a \in Blocks(h1)
  <2>1. Held(h) \subseteq Addr /\ 0 \notin Addr
    BY DEF Held, Blocks, Addr
  <2>2. a \in Held(h1)
    BY <1>3
  <2> QED
    BY <2>1, <2>2 DEF Held, Blocks
<1>5. h1.hdr[a].sz \in Nat
  BY <1>3, <1>4 DEF Sound, HeapT, HdrT
<1>6. Sound(g, P) /\ Held(g) = (Held(h) \ {old}) \cup {a} /\ g.hdr[a].sz = h1.hdr[a].sz
      /\ \A b \in Held(h) \ {old} : g.hdr[b].sz = h.hdr[b].sz
  <2>1. CASE old = 0
    BY <2>1, <1>3, <1>4
  <2>2. CASE old # 0
    <3>1. old \in Held(h1) /\ old \in Held(h) /\ old # a
      BY <2>2, <1>1, <1>3
    <3>2. g = tlsf_coalesce_and_insert(h1, old)
      BY <2>2
    <3>3. Sound(g, P) /\ Holds(h1, g, Held(h1) \ {old})
      BY <3>1, <3>2, <1>3, CoalesceIs
    <3>4. Held(g) = Held(h1) \ {old} /\ \A b \in Held(h1) \ {old} : g.hdr[b].sz = h1.hdr[b].sz
      BY <3>3 DEF Holds
    <3>5. Held(g) = (Held(h) \ {old}) \cup {a}
      BY <3>1, <3>4, <1>3
    <3>6. g.hdr[a].sz = h1.hdr[a].sz
      BY <3>1, <3>4, <1>3
    <3>7. \A b \in Held(h) \ {old} : g.hdr[b].sz = h.hdr[b].sz
      BY <3>4, <1>3
    <3> QED
      BY <3>3, <3>5, <3>6, <3>7
  <2> QED
    BY <2>1, <2>2
<1>7. DOMAIN new = Held(g)
  BY <1>1, <1>6
<1>8. want < g.hdr[a].sz /\ new[a] = want
  BY <1>3, <1>5, <1>6
<1>9. ASSUME NEW b \in DOMAIN own \ {old} PROVE g.hdr[b].sz = h.hdr[b].sz /\ new[b] = own[b]
  <2>1. b # a
    BY <1>1, <1>3
  <2> QED
    BY <2>1, <1>1, <1>6
<1>10. ASSUME NEW b \in Held(g) PROVE new[b] \in Nat /\ new[b] < g.hdr[b].sz
  <2>1. CASE b = a
    BY <2>1, <1>8
  <2>2. CASE b # a
    <3>1. b \in DOMAIN own \ {old}
      BY <2>2, <1>1, <1>6
    <3> QED
      BY <3>1, <1>1, <1>9
  <2> QED
    BY <2>1, <2>2
<1>11. new = [b \in Held(g) |-> new[b]]
  BY <1>7
<1>12. Caller(g, new)
  BY <1>7, <1>10, <1>11 DEF Caller
<1>13. ASSUME NEW b \in DOMAIN own PROVE b + h.hdr[b].sz <= a \/ a + g.hdr[a].sz <= b
  <2>1. b \in Blocks(h1) /\ b # a /\ h1.hdr[b].sz = h.hdr[b].sz
    BY <1>1, <1>3 DEF Held
  <2>2. Apart(h1)
    BY <1>3 DEF Sound, Layout
  <2>3. a \in Int /\ b \in Int
    BY <2>1, <1>4 DEF Blocks, Addr
  <2>4. b + h1.hdr[b].sz <= a \/ a + h1.hdr[a].sz <= b
    BY <2>1, <2>2, <2>3, <1>4 DEF Apart
  <2> QED
    BY <2>1, <2>4, <1>6
<1> QED
  BY <1>1, <1>3, <1>4, <1>6, <1>8, <1>9, <1>12, <1>13 DEF GrantedTo

-----------------------------------------------------------------------------
(* Requests.                                                                 *)

LEMMA ModIs ==
  ASSUME NEW m \in Nat, NEW n \in Nat, n < m
  PROVE  n % m = n
OBVIOUS

\* A request that is not too big gets a block of more units than it asks for.
LEMMA AmtIs ==
  ASSUME NEW size \in Nat, 1 <= size, ~ too_big(size)
  PROVE  block_units(size) \in Sizes /\ size < block_units(size)
<1>1. PICK N \in Nat : /\ N = Pow2[NumL2] /\ MinNU < N /\ SzMod = 2 * N
                       /\ \A n \in Int : n \in Sizes <=> 1 <= n /\ n < N
  BY LenIs, GeometryAssumption
<1>2. MinNU \in Nat /\ MinNU >= 4 /\ SzMod \in Nat
  BY BlockAssumption
<1>3. CASE size < MinNU - 1
  <2>1. block_units(size) = MinNU
    BY <1>3 DEF block_units
  <2> QED
    BY <2>1, <1>1, <1>2, <1>3
<1>4. CASE ~ (size < MinNU - 1)
  <2>1. block_units(size) = (size + 1) % SzMod
    BY <1>4 DEF block_units
  <2>2. block_units(size) < N /\ size <= block_units(size) /\ block_units(size) \in Nat
    <3>1. SzMod > 0 /\ size + 1 \in Int
      BY <1>1, <1>2
    <3>2. block_units(size) \in Nat
      BY <3>1, <2>1, <1>2
    <3>3. ~ (block_units(size) >= Pow2[NumL2]) /\ ~ (block_units(size) < size)
      BY <1>2, <1>4 DEF too_big
    <3> QED
      BY <3>2, <3>3, <1>1
  <2>3. size + 1 \in Nat /\ size + 1 < SzMod
    BY <2>2, <1>1, <1>2
  <2>4. block_units(size) = size + 1
    BY <2>1, <2>3, <1>2, ModIs
  <2> QED
    BY <2>2, <2>4, <1>1
<1> QED
  BY <1>3, <1>4

\* No free block is as long as a request that is too big.
LEMMA TooBigIs ==
  ASSUME NEW h, NEW P, NEW e \in 1 .. MemLen + 1, PoolsApart(P, e), Sound(h, P),
         NEW size \in Nat, 1 <= size, too_big(size)
  PROVE  TooShort(h, size)
<1>1. PICK N \in Nat : /\ N = Pow2[NumL2] /\ MinNU < N /\ SzMod = 2 * N /\ MemLen \in Nat /\ MemLen < N
                       /\ \A n \in Int : n \in Sizes <=> 1 <= n /\ n < N
  BY LenIs, GeometryAssumption
<1>2. MinNU \in Nat /\ MinNU >= 4 /\ SzMod \in Nat
  BY BlockAssumption
<1>3. size + 1 >= N
  <2>1. SUFFICES ASSUME size + 1 < N PROVE FALSE
    BY <1>1
  <2>2. size + 1 \in Nat /\ size + 1 < SzMod
    BY <2>1, <1>1, <1>2
  <2>3. ~ (size < MinNU - 1)
    BY <1>2 DEF too_big
  <2>4. block_units(size) = size + 1
    BY <2>2, <2>3, <1>2, ModIs DEF block_units
  <2>5. ~ (block_units(size) >= Pow2[NumL2]) /\ ~ (block_units(size) < size)
    BY <2>1, <2>4, <1>1
  <2> QED
    BY <2>5 DEF too_big
<1>4. ASSUME size \in Sizes, NEW a \in FreeBlocks(h) PROVE h.hdr[a].sz < RoundedUp(size)
  <2>1. h.hdr[a].sz \in Nat /\ h.hdr[a].sz < MemLen
    BY FreeClass
  <2>2. h.hdr[a].sz < size
    BY <2>1, <1>1, <1>3
  <2>3. size <= RoundedUp(size)
    BY <1>4, RoundIs
  <2>4. RoundedUp(size) \in Int
    <3>1. PICK idx : idx = round_next_tlsf_size(size)
      OBVIOUS
    <3>2. \/ idx \in Bins /\ LowOf(idx) = RoundedUp(size)
          \/ idx = None /\ RoundedUp(size) = Pow2[NumL2]
      BY <3>1, <1>4, RoundIs
    <3>3. idx \in Bins => LowOf(idx) \in Nat
      BY LowIs
    <3> QED
      BY <3>2, <3>3, <1>1
  <2> QED
    BY <2>1, <2>2, <2>3, <2>4
<1> QED
  BY <1>4 DEF TooShort

LEMMA NotTooShort ==
  ASSUME NEW h, NEW n \in Nat, n = 0 \/ n >= Pow2[NumL2]
  PROVE  TooShort(h, n)
<1>1. PICK N \in Nat : N = Pow2[NumL2] /\ \A k \in Int : k \in Sizes <=> 1 <= k /\ k < N
  BY LenIs
<1>2. n \notin Sizes
  BY <1>1
<1> QED
  BY <1>2 DEF TooShort

-----------------------------------------------------------------------------
(* Finding a block and giving it out.                                        *)

LEMMA IdxIs ==
  ASSUME NEW amt \in Sizes, NEW idx, idx = round_next_tlsf_size(amt), idx # None
  PROVE  idx \in Bins
BY RoundIs

LEMMA FindSound ==
  ASSUME NEW h, NEW P, Sound(h, P), NEW idx \in Bins, NEW bin, bin = tlsf_find_blk(h, idx)
  PROVE  Found(h, idx, bin)
<1>1. h \in HeapT /\ Binned(h, FreeBlocks(h)) /\ FreeBlocks(h) \in SUBSET Addr
  BY DEF Sound, FreeBlocks, Blocks
<1> QED
  BY <1>1, FindIs

\* What Grant does to a sound heap.
GrantDone(h, P, own, old, want) ==
  /\ \E a : GrantedTo(h, heap', P, own, live', a, old, want)
  /\ refused' = 0 /\ call' = Idle

LEMMA GrantKeeps ==
  ASSUME NEW h, NEW P, NEW e \in 1 .. MemLen + 1, PoolsApart(P, e), Sound(h, P),
         Caller(h, live), NEW amt \in Sizes, NEW idx, idx = round_next_tlsf_size(amt),
         idx # None, NEW bin, bin = tlsf_find_blk(h, idx), bin # None,
         NEW old \in DOMAIN live \cup {0}, NEW want \in Nat, want < amt,
         Grant(h, bin, amt, old, want)
  PROVE  GrantDone(h, P, live, old, want)
<1>1. idx \in Bins
  BY IdxIs
<1>2. bin \in Bins /\ AtLeast(bin, idx)
  <2>1. Found(h, idx, bin)
    BY <1>1, FindSound
  <2> QED
    BY <2>1 DEF Found
<1>3. PICK a \in h.bins[bin] :
        LET h1 == tlsf_extract(h, bin, a, amt) IN
        /\ heap' = IF old = 0 THEN h1 ELSE tlsf_coalesce_and_insert(h1, old)
        /\ live' = [b \in (DOMAIN live \ {old}) \cup {a} |-> IF b = a THEN want ELSE live[b]]
        /\ refused' = 0
        /\ call' = Idle
  BY DEF Grant
<1>4. PICK h1 : /\ h1 = tlsf_extract(h, bin, a, amt)
                /\ heap' = IF old = 0 THEN h1 ELSE tlsf_coalesce_and_insert(h1, old)
  BY <1>3
<1>5. PICK new : /\ new = live'
                 /\ new = [b \in (DOMAIN live \ {old}) \cup {a} |->
                             IF b = a THEN want ELSE live[b]]
  BY <1>3
<1>6. PICK g : g = heap'
  OBVIOUS
<1>7. amt <= h.hdr[a].sz
  BY <1>2, BinFits
<1>8. amt \in Int /\ 0 < amt
  <2>1. amt \in Nat
    BY LenIs, Zenon
  <2> QED
    BY <2>1, LenIs
<1>9. GrantedTo(h, g, P, live, new, a, old, want)
  BY <1>2, <1>4, <1>5, <1>6, <1>7, <1>8, GrantIs
<1> QED
  BY <1>3, <1>5, <1>6, <1>9 DEF GrantDone

\* After a grant the invariant holds for the pools there are.
LEMMA AfterGrant ==
  ASSUME NEW h, NEW own, NEW old, NEW want, GrantDone(h, pools', own, old, want),
         top' \in 1 .. MemLen + 1, PoolsApart(pools', top')
  PROVE  IInv'
<1>1. PICK a : GrantedTo(h, heap', pools', own, live', a, old, want)
  BY DEF GrantDone
<1>2. Sound(heap', pools') /\ Caller(heap', live')
  BY <1>1 DEF GrantedTo
<1>3. refused' = 0 /\ call' = Idle
  BY DEF GrantDone
<1>4. TooShort(heap', 0)
  <2>1. 0 \in Nat
    OBVIOUS
  <2> QED
    BY <2>1, NotTooShort
<1>5. refused' \in Nat /\ TooShort(heap', refused')
  BY <1>3, <1>4
<1> QED
  BY <1>2, <1>3, <1>5 DEF IInv

-----------------------------------------------------------------------------
(* Calls as steps of Allocator.                                              *)

\* The blocks the callers hold as runs of units.
OwnedBy(h, own) ==
  [b \in DOMAIN own |-> [lo |-> b + 1, len |-> h.hdr[b].sz - 1, want |-> own[b]]]

UnitsOf(P) == UNION { PoolUnits(p) : p \in P }

\* H and G, before and after, differ in run a alone, which has room for its owner's
\* request, lies in a pool and is apart from the runs in others.
Granting(H, G, Q, a, old, others) ==
  /\ DOMAIN G = (DOMAIN H \ {old}) \cup {a}
  /\ \A p \in DOMAIN H \ {old} : p # a => G[p] = H[p]
  /\ G[a].want <= G[a].len
  /\ Alloc!Run(G[a]) \subseteq UnitsOf(Q)
  /\ \A p \in others : Alloc!Run(H[p]) \cap Alloc!Run(G[a]) = {}

LEMMA SameOwned ==
  ASSUME NEW h, NEW g, NEW own, \A b \in DOMAIN own : g.hdr[b].sz = h.hdr[b].sz
  PROVE  OwnedBy(g, own) = OwnedBy(h, own)
BY DEF OwnedBy

\* The units of a held block without its size word.
LEMMA RunIs ==
  ASSUME NEW h \in HeapT, NEW own, NEW b \in DOMAIN own, b \in Addr,
         NEW H, H = OwnedBy(h, own)
  PROVE  /\ H[b].want = own[b] /\ H[b].lo = b + 1 /\ H[b].len = h.hdr[b].sz - 1
         /\ Alloc!Run(H[b]) \subseteq Int
         /\ \A u \in Int : u \in Alloc!Run(H[b]) <=> b < u /\ u < b + h.hdr[b].sz
<1>1. PICK sz \in Nat : sz = h.hdr[b].sz
  BY DEF HeapT, HdrT
<1>2. b \in Int
  BY DEF Addr
<1>3. PICK r : r = H[b]
  OBVIOUS
<1>4. r.want = own[b] /\ r.lo = b + 1 /\ r.len = sz - 1
  BY <1>1, <1>3 DEF OwnedBy
<1>5. Alloc!Run(r) = (b + 1) .. (b + 1 + (sz - 1) - 1)
  BY <1>4 DEF Alloc!Run
<1>6. PICK hi \in Int : hi = b + 1 + (sz - 1) - 1
  BY <1>1, <1>2
<1>7. PICK lo \in Int : lo = b + 1
  BY <1>2
<1>8. Alloc!Run(r) \subseteq Int /\ \A u \in Int : u \in Alloc!Run(r) <=> b < u /\ u < b + sz
  <2>1. \A u \in Int : lo <= u /\ u <= hi <=> b < u /\ u < b + sz
    BY <1>1, <1>2, <1>6, <1>7
  <2>2. Alloc!Run(r) = lo .. hi
    BY <1>5, <1>6, <1>7
  <2> QED
    BY <2>1, <2>2
<1>9. H[b].want = own[b] /\ H[b].lo = b + 1 /\ H[b].len = h.hdr[b].sz - 1
  BY <1>1, <1>3, <1>4
<1>10. Alloc!Run(H[b]) \subseteq Int
  BY <1>3, <1>8
<1>11. \A u \in Int : u \in Alloc!Run(H[b]) <=> b < u /\ u < b + h.hdr[b].sz
  BY <1>1, <1>3, <1>8
<1> QED
  BY <1>9, <1>10, <1>11

\* A held block is in a pool.
LEMMA RunInPool ==
  ASSUME NEW h, NEW P, NEW e \in 1 .. MemLen + 1, PoolsApart(P, e), Sound(h, P),
         NEW own, NEW b \in DOMAIN own, b \in Held(h), NEW H, H = OwnedBy(h, own)
  PROVE  Alloc!Run(H[b]) \subseteq UnitsOf(P)
<1>1. h \in HeapT /\ b \in Addr /\ b \in Blocks(h) /\ Placed(h, P)
  BY DEF Sound, Held, Blocks, Layout
<1>2. PICK p \in P : p.start <= b /\ b + h.hdr[b].sz <= PoolEnd(p)
  BY <1>1 DEF Placed
<1>3. p.start \in Nat /\ p.ulen \in Nat
  BY DEF PoolsApart
<1>4. PICK sz \in Nat : sz = h.hdr[b].sz
  BY <1>1 DEF HeapT, HdrT
<1>5. b \in Int
  BY <1>1 DEF Addr
<1>6. Alloc!Run(H[b]) \subseteq Int /\ \A u \in Int : u \in Alloc!Run(H[b]) <=> b < u /\ u < b + sz
  BY <1>1, <1>4, RunIs
<1>7. ASSUME NEW u \in Int, b < u, u < b + sz PROVE u \in PoolUnits(p)
  BY <1>2, <1>3, <1>4, <1>5, <1>7 DEF PoolUnits, PoolEnd
<1> QED
  BY <1>6, <1>7 DEF UnitsOf

\* Blocks that do not overlap, in one heap or in two, have no unit in common.
LEMMA RunsApart ==
  ASSUME NEW h \in HeapT, NEW own, NEW b \in DOMAIN own, b \in Addr, NEW H, H = OwnedBy(h, own),
         NEW g \in HeapT, NEW new, NEW a \in DOMAIN new, a \in Addr, NEW G, G = OwnedBy(g, new),
         b + h.hdr[b].sz <= a \/ a + g.hdr[a].sz <= b
  PROVE  Alloc!Run(H[b]) \cap Alloc!Run(G[a]) = {}
<1>1. PICK m \in Nat : m = h.hdr[b].sz
  BY DEF HeapT, HdrT
<1>2. PICK n \in Nat : n = g.hdr[a].sz
  BY DEF HeapT, HdrT
<1>3. a \in Int /\ b \in Int /\ (b + m <= a \/ a + n <= b)
  BY <1>1, <1>2 DEF Addr
<1>4. Alloc!Run(H[b]) \subseteq Int /\ \A u \in Int : u \in Alloc!Run(H[b]) <=> b < u /\ u < b + m
  BY <1>1, RunIs
<1>5. \A u \in Int : u \in Alloc!Run(G[a]) <=> a < u /\ u < a + n
  BY <1>2, RunIs
<1>6. ASSUME NEW u \in Int PROVE ~ (b < u /\ u < b + m /\ a < u /\ u < a + n)
  BY <1>1, <1>2, <1>3
<1> QED
  BY <1>4, <1>5, <1>6

\* A grant adds a run apart from all that were there, old's included.
LEMMA GrantOwned ==
  ASSUME NEW h \in HeapT, NEW g, NEW P, NEW e \in 1 .. MemLen + 1, PoolsApart(P, e),
         NEW own, DOMAIN own \subseteq Addr, NEW new, NEW a, NEW old, NEW want,
         GrantedTo(h, g, P, own, new, a, old, want),
         NEW H, H = OwnedBy(h, own), NEW G, G = OwnedBy(g, new)
  PROVE  a \notin DOMAIN H /\ Granting(H, G, P, a, old, DOMAIN H)
<1>1. /\ Sound(g, P) /\ Caller(g, new) /\ a \notin DOMAIN own /\ a \in Addr
      /\ DOMAIN new = (DOMAIN own \ {old}) \cup {a}
      /\ \A b \in DOMAIN own \ {old} : g.hdr[b].sz = h.hdr[b].sz /\ new[b] = own[b]
      /\ \A b \in DOMAIN own : b + h.hdr[b].sz <= a \/ a + g.hdr[a].sz <= b
  BY DEF GrantedTo
<1>2. g \in HeapT /\ DOMAIN new = Held(g) /\ a \in DOMAIN new
      /\ \A b \in Held(g) : new[b] \in Nat /\ new[b] < g.hdr[b].sz
  BY <1>1 DEF Sound, Caller
<1>3. DOMAIN H = DOMAIN own /\ DOMAIN G = DOMAIN new
  BY DEF OwnedBy
<1>4. ASSUME NEW p \in DOMAIN H \ {old}, p # a PROVE G[p] = H[p]
  <2>1. p \in DOMAIN own /\ p \in DOMAIN new /\ g.hdr[p].sz = h.hdr[p].sz /\ new[p] = own[p]
    BY <1>1, <1>3, <1>4
  <2> QED
    BY <2>1 DEF OwnedBy
<1>5. G[a].want <= G[a].len
  <2>1. G[a].want = new[a] /\ G[a].len = g.hdr[a].sz - 1
    BY <1>1, <1>2, RunIs
  <2>2. g.hdr[a].sz \in Nat /\ new[a] \in Nat /\ new[a] < g.hdr[a].sz
    BY <1>1, <1>2 DEF HeapT, HdrT
  <2> QED
    BY <2>1, <2>2
<1>6. Alloc!Run(G[a]) \subseteq UnitsOf(P)
  BY <1>1, <1>2, RunInPool
<1>7. ASSUME NEW p \in DOMAIN H PROVE Alloc!Run(H[p]) \cap Alloc!Run(G[a]) = {}
  <2>1. p \in DOMAIN own /\ p \in Addr /\ (p + h.hdr[p].sz <= a \/ a + g.hdr[a].sz <= p)
    BY <1>1, <1>3
  <2> QED
    BY <2>1, <1>1, <1>2, RunsApart
<1> QED
  BY <1>1, <1>3, <1>4, <1>5, <1>6, <1>7 DEF Granting

\* A block that is resized stays where it is and meets no other.
LEMMA ResizedOwned ==
  ASSUME NEW h \in HeapT, NEW g, NEW P, NEW e \in 1 .. MemLen + 1, PoolsApart(P, e),
         NEW own, Caller(h, own), NEW b \in DOMAIN own, NEW amt \in Int, Resizes(h, g, P, b, amt),
         NEW new, Caller(g, new), \A c \in DOMAIN own : c # b => new[c] = own[c],
         NEW H, H = OwnedBy(h, own), NEW G, G = OwnedBy(g, new)
  PROVE  /\ b \in DOMAIN H /\ G[b].lo = H[b].lo
         /\ Granting(H, G, P, b, b, DOMAIN H \ {b})
<1>1. /\ Sound(g, P) /\ Held(g) = Held(h) /\ g \in HeapT
      /\ \A c \in Held(h) : c # b => g.hdr[c].sz = h.hdr[c].sz
  BY DEF Resizes, Sound
<1>2. DOMAIN own = Held(h) /\ Held(h) \subseteq Addr
  BY DEF Caller, Held, Blocks
<1>4. DOMAIN new = Held(g) /\ \A c \in Held(g) : new[c] \in Nat /\ new[c] < g.hdr[c].sz
  BY DEF Caller
<1>5. DOMAIN H = DOMAIN own /\ DOMAIN G = DOMAIN new /\ b \in DOMAIN H
  BY DEF OwnedBy
<1>6. ASSUME NEW p \in DOMAIN H \ {b} PROVE G[p] = H[p]
  <2>1. p \in DOMAIN own /\ p \in DOMAIN new /\ g.hdr[p].sz = h.hdr[p].sz /\ new[p] = own[p]
    BY <1>1, <1>2, <1>4, <1>5
  <2> QED
    BY <2>1 DEF OwnedBy
<1>7. b \in Addr /\ b \in Held(g) /\ b \in DOMAIN new
  BY <1>1, <1>2, <1>4
<1>8. G[b].want <= G[b].len /\ G[b].lo = H[b].lo
  <2>1. G[b].want = new[b] /\ G[b].len = g.hdr[b].sz - 1 /\ G[b].lo = b + 1
    BY <1>1, <1>7, RunIs
  <2>2. H[b].lo = b + 1
    BY <1>7, RunIs
  <2>3. g.hdr[b].sz \in Nat /\ new[b] \in Nat /\ new[b] < g.hdr[b].sz
    BY <1>1, <1>4, <1>7 DEF HeapT, HdrT
  <2> QED
    BY <2>1, <2>2, <2>3
<1>9. Alloc!Run(G[b]) \subseteq UnitsOf(P)
  BY <1>1, <1>7, RunInPool
<1>10. ASSUME NEW p \in DOMAIN H \ {b} PROVE Alloc!Run(H[p]) \cap Alloc!Run(G[b]) = {}
  <2>1. p \in DOMAIN own /\ p \in Addr /\ p \in Blocks(g) /\ b \in Blocks(g) /\ p # b
        /\ g.hdr[p].sz = h.hdr[p].sz
    BY <1>1, <1>2, <1>5, <1>7 DEF Held
  <2>2. Apart(g) /\ p \in Int /\ b \in Int
    BY <2>1, <1>1, <1>7 DEF Sound, Layout, Addr
  <2>3. p + h.hdr[p].sz <= b \/ b + g.hdr[b].sz <= p
    <3>1. p + g.hdr[p].sz <= b \/ b + g.hdr[b].sz <= p
      BY <2>1, <2>2 DEF Apart
    <3> QED
      BY <3>1, <2>1
  <2> QED
    BY <2>1, <2>3, <1>1, <1>7, RunsApart
<1> QED
  BY <1>1, <1>2, <1>4, <1>5, <1>6, <1>8, <1>9, <1>10 DEF Granting

LEMMA AbstractIs ==
  /\ Arena = UnitsOf(pools) /\ Arena' = UnitsOf(pools')
  /\ Owned = OwnedBy(heap, live) /\ Owned' = OwnedBy(heap', live')
BY DEF Arena, UnitsOf, Owned, OwnedBy

\* A grant out of h, which is the heap or the heap and one more pool, is an
\* allocation, or a move when old is the block of a realloc.
LEMMA GrantStep ==
  ASSUME NEW h \in HeapT, \A b \in DOMAIN live : h.hdr[b].sz = heap.hdr[b].sz,
         DOMAIN live \subseteq Addr, pools \subseteq pools',
         top' \in 1 .. MemLen + 1, PoolsApart(pools', top'),
         NEW old \in DOMAIN live \cup {0}, NEW want, GrantDone(h, pools', live, old, want)
  PROVE  Alloc!Next
<1>1. PICK a : GrantedTo(h, heap', pools', live, live', a, old, want)
  BY DEF GrantDone
<1>2. PICK H : H = OwnedBy(h, live) /\ H = Owned
  BY SameOwned, AbstractIs
<1>3. PICK G : G = OwnedBy(heap', live') /\ G = Owned'
  BY AbstractIs
<1>4. PICK g : g = heap'
  OBVIOUS
<1>5. PICK new : new = live'
  OBVIOUS
<1>6. PICK Q : Q = pools'
  OBVIOUS
<1>7. PICK e \in 1 .. MemLen + 1 : e = top'
  OBVIOUS
<1>8. PoolsApart(Q, e) /\ GrantedTo(h, g, Q, live, new, a, old, want) /\ G = OwnedBy(g, new)
  BY <1>1, <1>3, <1>4, <1>5, <1>6, <1>7
<1>9. a \notin DOMAIN H /\ Granting(H, G, Q, a, old, DOMAIN H)
  BY <1>2, <1>8, GrantOwned
<1>10. Arena \subseteq Arena' /\ UnitsOf(Q) = Arena'
  BY <1>6, AbstractIs DEF UnitsOf
<1>11. /\ a \notin DOMAIN Owned /\ a \in DOMAIN Owned'
       /\ DOMAIN Owned' = (DOMAIN Owned \ {old}) \cup {a}
       /\ \A p \in DOMAIN Owned \ {old} : p # a => Owned'[p] = Owned[p]
       /\ Alloc!Fits(Owned'[a], DOMAIN Owned)
  BY <1>2, <1>3, <1>9, <1>10 DEF Granting, Alloc!Fits
<1>12. DOMAIN Owned = DOMAIN live
  BY DEF Owned
<1>13. CASE old = 0
  <2>1. old \notin DOMAIN Owned
    BY <1>12, <1>13 DEF Addr
  <2>2. Alloc!Owners({}, {a})
    BY <2>1, <1>11 DEF Alloc!Owners
  <2>3. Alloc!Alloc(a)
    BY <2>2, <1>10, <1>11 DEF Alloc!Alloc
  <2> QED
    BY <2>3, <1>11 DEF Alloc!Next
<1>14. CASE old # 0
  <2>1. old \in DOMAIN Owned
    BY <1>12, <1>14
  <2>2. Alloc!Owners({old}, {a})
    BY <1>11 DEF Alloc!Owners
  <2>3. Alloc!Move(old, a)
    BY <2>1, <2>2, <1>10, <1>11 DEF Alloc!Move
  <2> QED
    BY <2>1, <2>3, <1>11 DEF Alloc!Next
<1> QED
  BY <1>13, <1>14

\* A refusal, a call that waits for add_mem_func, and a pool that was added change
\* nothing for the callers.
LEMMA KeptStep ==
  ASSUME pools \subseteq pools', live' = live,
         \A b \in DOMAIN live : heap'.hdr[b].sz = heap.hdr[b].sz
  PROVE  Alloc!Next
<1>1. Arena \subseteq Arena'
  BY DEF Arena
<1>2. PICK g : g = heap'
  OBVIOUS
<1>3. OwnedBy(g, live) = OwnedBy(heap, live)
  BY <1>2, SameOwned
<1>4. Owned' = Owned
  BY <1>2, <1>3, AbstractIs
<1> QED
  BY <1>1, <1>4 DEF Alloc!Next, Alloc!Extend

LEMMA FreeStep ==
  ASSUME pools' = pools, NEW b \in DOMAIN live,
         DOMAIN live' = DOMAIN live \ {b},
         \A c \in DOMAIN live \ {b} : live'[c] = live[c] /\ heap'.hdr[c].sz = heap.hdr[c].sz
  PROVE  Alloc!Next
<1>1. Arena' = Arena
  BY DEF Arena
<1>2. DOMAIN Owned = DOMAIN live /\ DOMAIN Owned' = DOMAIN live'
  BY DEF Owned
<1>3. ASSUME NEW c \in DOMAIN Owned \ {b} PROVE Owned'[c] = Owned[c]
  <2>1. c \in DOMAIN live /\ c \in DOMAIN live' /\ live'[c] = live[c]
        /\ heap'.hdr[c].sz = heap.hdr[c].sz
    BY <1>2, <1>3
  <2> QED
    BY <2>1 DEF Owned
<1>4. Alloc!Owners({b}, {})
  BY <1>2, <1>3 DEF Alloc!Owners
<1>5. Alloc!Free(b)
  BY <1>1, <1>2, <1>4 DEF Alloc!Free
<1> QED
  BY <1>2, <1>5 DEF Alloc!Next

LEMMA ResizeStep ==
  ASSUME pools' = pools, heap \in HeapT, Caller(heap, live), Caller(heap', live'),
         NEW e \in 1 .. MemLen + 1, PoolsApart(pools, e),
         NEW b \in DOMAIN live, NEW amt \in Int, Resizes(heap, heap', pools, b, amt),
         \A c \in DOMAIN live : c # b => live'[c] = live[c]
  PROVE  Alloc!Next
<1>1. PICK H : H = OwnedBy(heap, live) /\ H = Owned
  BY AbstractIs
<1>2. PICK G : G = OwnedBy(heap', live') /\ G = Owned'
  BY AbstractIs
<1>3. PICK g : g = heap'
  OBVIOUS
<1>4. PICK new : new = live'
  OBVIOUS
<1>5. G = OwnedBy(g, new) /\ Caller(g, new) /\ Resizes(heap, g, pools, b, amt)
      /\ \A c \in DOMAIN live : c # b => new[c] = live[c]
  BY <1>2, <1>3, <1>4
<1>6. /\ b \in DOMAIN H /\ G[b].lo = H[b].lo
      /\ Granting(H, G, pools, b, b, DOMAIN H \ {b})
  <2>1. PICK h \in HeapT : h = heap
    OBVIOUS
  <2>2. PICK own : own = live
    OBVIOUS
  <2>3. PICK P : P = pools
    OBVIOUS
  <2>4. /\ PoolsApart(P, e) /\ Caller(h, own) /\ Caller(g, new) /\ Resizes(h, g, P, b, amt)
        /\ \A c \in DOMAIN own : c # b => new[c] = own[c]
        /\ H = OwnedBy(h, own) /\ G = OwnedBy(g, new) /\ b \in DOMAIN own
    BY <2>1, <2>2, <2>3, <1>1, <1>5
  <2>5. /\ b \in DOMAIN H /\ G[b].lo = H[b].lo
        /\ Granting(H, G, P, b, b, DOMAIN H \ {b})
    BY <2>4, ResizedOwned
  <2> QED
    BY <2>3, <2>5
<1>7. Arena' = Arena /\ UnitsOf(pools) = Arena'
  BY AbstractIs
<1>8. /\ b \in DOMAIN Owned /\ Owned'[b].lo = Owned[b].lo
      /\ DOMAIN Owned' = (DOMAIN Owned \ {b}) \cup {b}
      /\ \A p \in DOMAIN Owned \ {b} : p # b => Owned'[p] = Owned[p]
      /\ Alloc!Fits(Owned'[b], DOMAIN Owned \ {b})
  BY <1>1, <1>2, <1>6, <1>7 DEF Granting, Alloc!Fits
<1>9. Alloc!Owners({}, {b})
  BY <1>8 DEF Alloc!Owners
<1>10. Alloc!ResizeInPlace(b)
  BY <1>7, <1>8, <1>9 DEF Alloc!ResizeInPlace
<1> QED
  BY <1>8, <1>10 DEF Alloc!Next

-----------------------------------------------------------------------------
(* The calls keep the invariant, and each is a step of Allocator.            *)

LEMMA AllocateKeeps ==
  ASSUME IInv, NEW size \in Nat, 1 <= size, NEW old \in DOMAIN live \cup {0},
         NEW want \in Nat, want <= size, Allocate(size, old, want)
  PROVE  IInv' /\ Alloc!Next
<1>1. /\ top \in 1 .. MemLen + 1 /\ PoolsApart(pools, top) /\ Sound(heap, pools)
      /\ Caller(heap, live)
  BY DEF IInv
<1>2. pools' = pools /\ top' = top
  BY DEF Allocate
<1>3. PICK amt : amt = block_units(size)
  OBVIOUS
<1>4. PICK idx : idx = round_next_tlsf_size(amt)
  OBVIOUS
<1>5. PICK bin : bin = tlsf_find_blk(heap, idx)
  OBVIOUS
<1>6. \/ too_big(size) /\ Refuse(size) /\ heap' = heap
      \/ ~ too_big(size) /\ idx = None /\ Refuse(amt) /\ heap' = heap
      \/ ~ too_big(size) /\ idx # None /\ bin # None /\ Grant(heap, bin, amt, old, want)
      \/ /\ ~ too_big(size) /\ idx # None /\ bin = None
         /\ call' = [amt |-> amt, idx |-> idx, old |-> old, want |-> want, again |-> FALSE]
         /\ refused' = 0 /\ heap' = heap /\ live' = live
  BY <1>3, <1>4, <1>5 DEF Allocate
<1>7. ~ too_big(size) => amt \in Sizes /\ amt \in Nat /\ want < amt
  <2>1. SUFFICES ASSUME ~ too_big(size) PROVE amt \in Sizes /\ amt \in Nat /\ want < amt
    OBVIOUS
  <2>2. amt \in Sizes /\ size < amt
    BY <2>1, <1>3, AmtIs
  <2>3. amt \in Nat
    BY <2>2, LenIs, Zenon
  <2> QED
    BY <2>2, <2>3
<1>8. ASSUME NEW n \in Nat, TooShort(heap, n), Refuse(n), heap' = heap
      PROVE  IInv' /\ Alloc!Next
  <2>1. refused' = n /\ call' = Idle /\ live' = live
    BY <1>8 DEF Refuse
  <2>2. refused' \in Nat /\ TooShort(heap', refused')
    BY <2>1, <1>8
  <2>3. Sound(heap', pools') /\ Caller(heap', live') /\ top' \in 1 .. MemLen + 1
        /\ PoolsApart(pools', top')
    BY <2>1, <1>1, <1>2, <1>8
  <2>4. Alloc!Next
    BY <2>1, <1>2, <1>8, KeptStep
  <2> QED
    BY <2>1, <2>2, <2>3, <2>4 DEF IInv
<1>9. CASE too_big(size) /\ Refuse(size) /\ heap' = heap
  <2>1. TooShort(heap, size)
    BY <1>1, <1>9, TooBigIs
  <2> QED
    BY <2>1, <1>8, <1>9
<1>10. CASE ~ too_big(size) /\ idx = None /\ Refuse(amt) /\ heap' = heap
  <2>1. TooShort(heap, amt)
    BY <1>1, <1>4, <1>7, <1>10, NoFitShort
  <2> QED
    BY <2>1, <1>7, <1>8, <1>10
<1>11. CASE ~ too_big(size) /\ idx # None /\ bin # None /\ Grant(heap, bin, amt, old, want)
  <2>1. GrantDone(heap, pools, live, old, want)
    BY <1>1, <1>4, <1>5, <1>7, <1>11, GrantKeeps
  <2>2. heap \in HeapT /\ DOMAIN live \subseteq Addr
    BY <1>1 DEF Sound, Caller, Held, Blocks
  <2>3. GrantDone(heap, pools', live, old, want) /\ pools \subseteq pools'
        /\ top' \in 1 .. MemLen + 1 /\ PoolsApart(pools', top')
    BY <2>1, <1>1, <1>2
  <2>4. Alloc!Next
    BY <2>2, <2>3, GrantStep
  <2> QED
    BY <2>3, <2>4, AfterGrant
<1>12. CASE /\ ~ too_big(size) /\ idx # None /\ bin = None
            /\ call' = [amt |-> amt, idx |-> idx, old |-> old, want |-> want, again |-> FALSE]
            /\ refused' = 0 /\ heap' = heap /\ live' = live
  <2>1. idx \in Bins
    BY <1>4, <1>7, <1>12, IdxIs
  <2>2. NoFit(heap, idx)
    <3>1. Found(heap, idx, bin)
      BY <2>1, <1>1, <1>5, FindSound
    <3> QED
      BY <3>1, <1>12 DEF Found
  <2>3. /\ call'.amt = amt /\ call'.idx = idx /\ call'.old = old /\ call'.want = want
    BY <1>12
  <2>4. Pending(heap', call', live')
    BY <2>2, <2>3, <1>4, <1>7, <1>12 DEF Pending
  <2>5. TooShort(heap', refused')
    <3>1. 0 \in Nat
      OBVIOUS
    <3>2. TooShort(heap, 0)
      BY <3>1, NotTooShort
    <3> QED
      BY <3>2, <1>12
  <2>6. Sound(heap', pools') /\ Caller(heap', live') /\ top' \in 1 .. MemLen + 1
        /\ PoolsApart(pools', top') /\ refused' \in Nat /\ refused' = 0
    BY <1>1, <1>2, <1>12
  <2>7. Alloc!Next
    BY <1>2, <1>12, KeptStep
  <2> QED
    BY <2>4, <2>5, <2>6, <2>7 DEF IInv
<1> QED
  BY <1>6, <1>9, <1>10, <1>11, <1>12

\* The caller's blocks stay the caller's when their sizes stay.
LEMMA CallerStays ==
  ASSUME NEW h, NEW g, NEW own, Caller(h, own), Holds(h, g, Held(h))
  PROVE  Caller(g, own)
BY DEF Caller, Holds

LEMMA Settled ==
  ASSUME top' \in 1 .. MemLen + 1, PoolsApart(pools', top'), Sound(heap', pools'),
         Caller(heap', live'), call' = Idle, refused' = 0
  PROVE  IInv'
<1>1. 0 \in Nat
  OBVIOUS
<1>2. TooShort(heap', 0)
  BY <1>1, NotTooShort
<1>3. refused' \in Nat /\ TooShort(heap', refused')
  BY <1>2
<1> QED
  BY <1>3 DEF IInv

LEMMA AddPoolKeeps ==
  ASSUME IInv, NEW len \in PoolLens, AddPool(len)
  PROVE  IInv' /\ Alloc!Next
<1>1. /\ top \in 1 .. MemLen + 1 /\ PoolsApart(pools, top) /\ Sound(heap, pools)
      /\ Caller(heap, live)
  BY DEF IInv
<1>2. len \in Int /\ len >= PoolHdr + MinNU + 2
  BY ClientAssumption, BlockAssumption
<1>3. /\ top + len - 1 <= MemLen /\ heap' = add_pool_blocks(heap, top, len)
      /\ pools' = pools \cup {PoolAt(top, len)} /\ top' = top + len
      /\ refused' = 0 /\ live' = live /\ call' = Idle
  BY DEF AddPool, Ready
<1>4. PICK g : g = heap'
  OBVIOUS
<1>5. PICK Q : Q = pools'
  OBVIOUS
<1>6. Extended(heap, g, pools, Q, top, len)
  BY <1>1, <1>2, <1>3, <1>4, <1>5, AddPoolIs
<1>7. Sound(g, Q) /\ PoolsApart(Q, top + len) /\ top + len \in 1 .. MemLen + 1
      /\ Holds(heap, g, Held(heap))
  BY <1>6 DEF Extended
<1>8. Caller(g, live)
  BY <1>1, <1>7, CallerStays
<1>9. \A b \in DOMAIN live : heap'.hdr[b].sz = heap.hdr[b].sz
  BY <1>1, <1>4, <1>7 DEF Holds, Caller
<1>10. Alloc!Next
  BY <1>3, <1>9, KeptStep
<1> QED
  BY <1>3, <1>4, <1>5, <1>7, <1>8, <1>10, Settled

LEMMA MoreMemKeeps ==
  ASSUME IInv, MoreMem
  PROVE  IInv' /\ Alloc!Next
<1>1. /\ top \in 1 .. MemLen + 1 /\ PoolsApart(pools, top) /\ Sound(heap, pools)
      /\ Caller(heap, live)
  BY DEF IInv
<1>2. Pending(heap, call, live) /\ refused = 0
  BY DEF IInv, MoreMem
<1>3. /\ call.amt \in Sizes /\ call.idx = round_next_tlsf_size(call.amt) /\ call.idx # None
      /\ call.old \in DOMAIN live \cup {0} /\ call.want \in Nat /\ call.want < call.amt
  BY <1>2 DEF Pending
<1>4. PICK amt \in Sizes : amt = call.amt
  BY <1>3
<1>5. PICK idx : idx = call.idx
  OBVIOUS
<1>6. PICK len : len = more_amt(amt)
  OBVIOUS
<1>7. PICK h : h = add_pool_blocks(heap, top, len)
  OBVIOUS
<1>8. PICK bin : bin = tlsf_find_blk(h, idx)
  OBVIOUS
<1>9. /\ top + len - 1 <= MemLen
      /\ pools' = pools \cup {PoolAt(top, len)} /\ top' = top + len
      /\ \/ bin # None /\ Grant(h, bin, amt, call.old, call.want)
         \/ /\ bin = None /\ heap' = h /\ call' = [call EXCEPT !.again = TRUE]
            /\ live' = live /\ refused' = refused
  BY <1>4, <1>5, <1>6, <1>7, <1>8 DEF MoreMem
<1>10. len \in Int /\ len >= PoolHdr + MinNU + 2
  <2>1. amt \in Nat
    BY LenIs, Zenon
  <2> QED
    BY <2>1, <1>6, BlockAssumption DEF more_amt
<1>11. PICK Q : Q = pools'
  OBVIOUS
<1>12. Extended(heap, h, pools, Q, top, len)
  BY <1>1, <1>7, <1>9, <1>10, <1>11, AddPoolIs
<1>13. Sound(h, Q) /\ PoolsApart(Q, top + len) /\ top + len \in 1 .. MemLen + 1
       /\ Holds(heap, h, Held(heap))
  BY <1>12 DEF Extended
<1>14. Caller(h, live)
  BY <1>1, <1>13, CallerStays
<1>15. idx \in Bins /\ idx = round_next_tlsf_size(amt) /\ idx # None
  BY <1>3, <1>4, <1>5, IdxIs
<1>16. CASE bin # None /\ Grant(h, bin, amt, call.old, call.want)
  <2>1. PICK e \in 1 .. MemLen + 1 : e = top + len
    BY <1>13
  <2>2. PICK old \in DOMAIN live \cup {0} : old = call.old
    BY <1>3
  <2>3. PICK want \in Nat : want = call.want /\ want < amt
    BY <1>3, <1>4
  <2>4. Grant(h, bin, amt, old, want) /\ PoolsApart(Q, e)
    BY <2>1, <2>2, <2>3, <1>13, <1>16
  <2>5. GrantDone(h, Q, live, old, want)
    BY <2>3, <2>4, <1>8, <1>13, <1>14, <1>15, <1>16, GrantKeeps
  <2>6. GrantDone(h, pools', live, old, want) /\ top' \in 1 .. MemLen + 1
        /\ PoolsApart(pools', top') /\ pools \subseteq pools'
    BY <2>5, <1>9, <1>11, <1>13
  <2>7. h \in HeapT /\ DOMAIN live \subseteq Addr
        /\ \A b \in DOMAIN live : h.hdr[b].sz = heap.hdr[b].sz
    BY <1>1, <1>13 DEF Sound, Caller, Held, Blocks, Holds
  <2>8. Alloc!Next
    BY <2>6, <2>7, GrantStep
  <2> QED
    BY <2>6, <2>8, AfterGrant
<1>17. CASE /\ bin = None /\ heap' = h /\ call' = [call EXCEPT !.again = TRUE]
            /\ live' = live /\ refused' = refused
  <2>1. NoFit(h, idx)
    <3>1. Found(h, idx, bin)
      BY <1>8, <1>13, <1>15, FindSound
    <3> QED
      BY <3>1, <1>17 DEF Found
  <2>2. /\ call'.amt = call.amt /\ call'.idx = call.idx /\ call'.old = call.old
        /\ call'.want = call.want
    BY <1>17
  <2>3. Pending(heap', call', live')
    BY <2>1, <2>2, <1>3, <1>5, <1>17 DEF Pending
  <2>4. refused' = 0 /\ refused' \in Nat
    BY <1>2, <1>17
  <2>5. TooShort(heap', refused')
    <3>1. 0 \in Nat
      OBVIOUS
    <3>2. TooShort(h, 0)
      BY <3>1, NotTooShort
    <3> QED
      BY <3>2, <2>4, <1>17
  <2>6. Sound(heap', pools') /\ Caller(heap', live') /\ top' \in 1 .. MemLen + 1
        /\ PoolsApart(pools', top')
    BY <1>9, <1>11, <1>13, <1>14, <1>17
  <2>7. \A b \in DOMAIN live : heap'.hdr[b].sz = heap.hdr[b].sz
    BY <1>1, <1>13, <1>17 DEF Holds, Caller
  <2>8. Alloc!Next
    BY <2>7, <1>9, <1>17, KeptStep
  <2> QED
    BY <2>3, <2>4, <2>5, <2>6, <2>8 DEF IInv
<1> QED
  BY <1>9, <1>16, <1>17

LEMMA NoMoreMemKeeps ==
  ASSUME IInv, NoMoreMem
  PROVE  IInv' /\ Alloc!Next
<1>1. /\ top \in 1 .. MemLen + 1 /\ PoolsApart(pools, top) /\ Sound(heap, pools)
      /\ Caller(heap, live)
  BY DEF IInv
<1>2. Pending(heap, call, live)
  BY DEF IInv, NoMoreMem
<1>3. /\ refused' = call.amt /\ call' = Idle /\ live' = live
      /\ heap' = heap /\ pools' = pools /\ top' = top
  BY DEF NoMoreMem, Refuse
<1>4. PICK amt \in Sizes : amt = call.amt
  BY <1>2 DEF Pending
<1>5. PICK idx : idx = call.idx /\ idx = round_next_tlsf_size(amt) /\ NoFit(heap, idx)
  BY <1>2, <1>4 DEF Pending
<1>6. TooShort(heap, amt)
  BY <1>1, <1>5, NoFitShort
<1>7. amt \in Nat
  BY LenIs, Zenon
<1>8. refused' \in Nat /\ TooShort(heap', refused')
  BY <1>3, <1>4, <1>6, <1>7
<1>9. Sound(heap', pools') /\ Caller(heap', live') /\ top' \in 1 .. MemLen + 1
      /\ PoolsApart(pools', top')
  BY <1>1, <1>3
<1>10. Alloc!Next
  BY <1>3, KeptStep
<1> QED
  BY <1>3, <1>8, <1>9, <1>10 DEF IInv

LEMMA FreeKeeps ==
  ASSUME IInv, NEW b \in DOMAIN live, Free(b)
  PROVE  IInv' /\ Alloc!Next
<1>1. /\ top \in 1 .. MemLen + 1 /\ PoolsApart(pools, top) /\ Sound(heap, pools)
      /\ Caller(heap, live)
  BY DEF IInv
<1>2. /\ call' = Idle /\ refused' = 0 /\ pools' = pools /\ top' = top
      /\ heap' = tlsf_coalesce_and_insert(heap, b)
      /\ live' = [c \in DOMAIN live \ {b} |-> live[c]]
  BY DEF Free, Ready
<1>3. DOMAIN live = Held(heap) /\ \A c \in Held(heap) : live[c] \in Nat /\ live[c] < heap.hdr[c].sz
  BY <1>1 DEF Caller
<1>4. PICK g : g = heap'
  OBVIOUS
<1>5. b \in Held(heap)
  BY <1>3
<1>6. Sound(g, pools) /\ Holds(heap, g, Held(heap) \ {b})
  BY <1>1, <1>2, <1>4, <1>5, CoalesceIs
<1>7. Held(g) = Held(heap) \ {b} /\ \A c \in Held(heap) \ {b} : g.hdr[c].sz = heap.hdr[c].sz
  BY <1>6 DEF Holds
<1>8. PICK new : new = live' /\ new = [c \in DOMAIN live \ {b} |-> live[c]]
  BY <1>2
<1>9. DOMAIN new = Held(g) /\ new = [c \in Held(g) |-> new[c]]
  BY <1>3, <1>7, <1>8
<1>10. ASSUME NEW c \in Held(g) PROVE new[c] \in Nat /\ new[c] < g.hdr[c].sz
  <2>1. new[c] = live[c] /\ g.hdr[c].sz = heap.hdr[c].sz /\ c \in Held(heap)
    BY <1>3, <1>7, <1>8
  <2> QED
    BY <2>1, <1>3
<1>11. Caller(g, new)
  BY <1>9, <1>10 DEF Caller
<1>12. DOMAIN live' = DOMAIN live \ {b}
       /\ \A c \in DOMAIN live \ {b} : live'[c] = live[c] /\ heap'.hdr[c].sz = heap.hdr[c].sz
  BY <1>3, <1>4, <1>7, <1>8
<1>13. Alloc!Next
  BY <1>2, <1>12, FreeStep
<1> QED
  BY <1>1, <1>2, <1>4, <1>6, <1>8, <1>11, <1>13, Settled

LEMMA ResizedCaller ==
  ASSUME NEW h, NEW g, NEW P, NEW own, Caller(h, own), NEW b \in Held(h),
         NEW amt \in Int, Resizes(h, g, P, b, amt), NEW size \in Nat, size < amt,
         NEW new, new = [own EXCEPT ![b] = size]
  PROVE  Caller(g, new)
<1>1. /\ DOMAIN own = Held(h) /\ own = [c \in Held(h) |-> own[c]]
      /\ \A c \in Held(h) : own[c] \in Nat /\ own[c] < h.hdr[c].sz
  BY DEF Caller
<1>2. /\ Held(g) = Held(h) /\ amt <= g.hdr[b].sz /\ g \in HeapT
      /\ \A c \in Held(h) : c # b => g.hdr[c].sz = h.hdr[c].sz
  BY DEF Resizes, Sound
<1>3. g.hdr[b].sz \in Nat
  BY <1>2 DEF Held, Blocks, HeapT, HdrT
<1>4. new = [c \in Held(h) |-> IF c = b THEN size ELSE own[c]]
  BY <1>1
<1>5. DOMAIN new = Held(g) /\ new = [c \in Held(g) |-> new[c]]
  BY <1>2, <1>4
<1>6. new[b] = size /\ size < g.hdr[b].sz
  BY <1>2, <1>3, <1>4
<1>7. ASSUME NEW c \in Held(g) PROVE new[c] \in Nat /\ new[c] < g.hdr[c].sz
  <2>1. CASE c = b
    BY <2>1, <1>6
  <2>2. CASE c # b
    <3>1. new[c] = own[c] /\ g.hdr[c].sz = h.hdr[c].sz /\ c \in Held(h)
      BY <2>2, <1>2, <1>4
    <3> QED
      BY <3>1, <1>1
  <2> QED
    BY <2>1, <2>2
<1> QED
  BY <1>5, <1>7 DEF Caller

LEMMA ReallocKeeps ==
  ASSUME IInv, NEW b \in DOMAIN live, NEW size \in ReallocSizes, Realloc(b, size)
  PROVE  IInv' /\ Alloc!Next
<1>1. /\ top \in 1 .. MemLen + 1 /\ PoolsApart(pools, top) /\ Sound(heap, pools)
      /\ Caller(heap, live)
  BY DEF IInv
<1>2. size \in Nat /\ 1 <= size /\ SzMod \in Nat
  BY ClientAssumption, BlockAssumption
<1>3. PICK newamt \in Nat : newamt = size + 1 /\ size < newamt /\ 1 <= newamt
  BY <1>2
<1>4. PICK sz : sz = heap.hdr[b].sz
  OBVIOUS
<1>5. PICK n : n = b + heap.hdr[b].sz
  OBVIOUS
<1>6. b \in Held(heap)
  BY <1>1 DEF Caller
<1>7. sz \in Nat
  BY <1>1, <1>4, <1>6 DEF Sound, Held, Blocks, HeapT, HdrT
<1>8. /\ call = Idle
      /\ \/ /\ size > SzMod - 2 /\ Refuse(size)
            /\ heap' = heap /\ pools' = pools /\ top' = top
         \/ /\ sz >= newamt /\ heap' = tlsf_shrink_blk(heap, b, newamt)
            /\ live' = [live EXCEPT ![b] = size] /\ refused' = 0
            /\ pools' = pools /\ top' = top /\ call' = call
         \/ /\ sz < newamt /\ ~ heap.hdr[n].alloc /\ newamt - sz <= heap.hdr[n].sz
            /\ heap' = grow_into_next(heap, b, newamt)
            /\ live' = [live EXCEPT ![b] = size] /\ refused' = 0
            /\ pools' = pools /\ top' = top /\ call' = call
         \/ Allocate(newamt, b, size)
  BY <1>3, <1>4, <1>5 DEF Realloc, Ready
<1>9. CASE /\ size > SzMod - 2 /\ Refuse(size)
           /\ heap' = heap /\ pools' = pools /\ top' = top
  <2>1. size >= Pow2[NumL2]
    <3>1. PICK N \in Nat : N = Pow2[NumL2] /\ SzMod = 2 * N /\ MinNU < N
      BY LenIs, GeometryAssumption
    <3>2. MinNU \in Nat /\ MinNU >= 4
      BY BlockAssumption
    <3> QED
      BY <3>1, <3>2, <1>2, <1>9
  <2>2. TooShort(heap, size)
    BY <2>1, <1>2, NotTooShort
  <2>3. refused' = size /\ call' = Idle /\ live' = live
    BY <1>9 DEF Refuse
  <2>4. refused' \in Nat /\ TooShort(heap', refused')
    BY <2>2, <2>3, <1>2, <1>9
  <2>5. Sound(heap', pools') /\ Caller(heap', live') /\ top' \in 1 .. MemLen + 1
        /\ PoolsApart(pools', top')
    BY <2>3, <1>1, <1>9
  <2>6. Alloc!Next
    BY <2>3, <1>9, KeptStep
  <2> QED
    BY <2>3, <2>4, <2>5, <2>6 DEF IInv
<1>10. ASSUME NEW g, g = heap', Resizes(heap, g, pools, b, newamt),
              live' = [live EXCEPT ![b] = size], refused' = 0,
              pools' = pools, top' = top, call' = call
       PROVE  IInv' /\ Alloc!Next
  <2>1. PICK new : new = live' /\ new = [live EXCEPT ![b] = size]
    BY <1>10
  <2>2. newamt \in Int
    OBVIOUS
  <2>3. Caller(g, new)
    BY <2>1, <2>2, <1>1, <1>2, <1>3, <1>6, <1>10, ResizedCaller
  <2>4. Sound(g, pools)
    BY <1>10 DEF Resizes
  <2>5. Caller(heap', live') /\ Resizes(heap, heap', pools, b, newamt) /\ heap \in HeapT
    BY <2>1, <2>3, <1>1, <1>10 DEF Sound
  <2>6. \A c \in DOMAIN live : c # b => live'[c] = live[c]
    BY <1>10
  <2>7. Alloc!Next
    BY <2>2, <2>5, <2>6, <1>1, <1>10, ResizeStep
  <2> QED
    BY <2>1, <2>3, <2>4, <2>7, <1>1, <1>8, <1>10, Settled
<1>11. CASE /\ sz >= newamt /\ heap' = tlsf_shrink_blk(heap, b, newamt)
            /\ live' = [live EXCEPT ![b] = size] /\ refused' = 0
            /\ pools' = pools /\ top' = top /\ call' = call
  <2>1. PICK g : g = heap' /\ g = tlsf_shrink_blk(heap, b, newamt)
    BY <1>11
  <2>2. 0 < newamt /\ newamt <= heap.hdr[b].sz
    BY <1>3, <1>4, <1>7, <1>11
  <2>3. Resizes(heap, g, pools, b, newamt)
    BY <2>1, <2>2, <1>1, <1>6, ShrinkIs
  <2> QED
    BY <2>1, <2>3, <1>10, <1>11
<1>12. CASE /\ sz < newamt /\ ~ heap.hdr[n].alloc /\ newamt - sz <= heap.hdr[n].sz
            /\ heap' = grow_into_next(heap, b, newamt)
            /\ live' = [live EXCEPT ![b] = size] /\ refused' = 0
            /\ pools' = pools /\ top' = top /\ call' = call
  <2>1. PICK g : g = heap' /\ g = grow_into_next(heap, b, newamt)
    BY <1>12
  <2>2. PICK amt \in Int : amt = newamt
    OBVIOUS
  <2>3. heap.hdr[b].sz < amt /\ amt - heap.hdr[b].sz <= heap.hdr[n].sz /\ ~ heap.hdr[n].alloc
        /\ g = grow_into_next(heap, b, amt)
    BY <2>1, <2>2, <1>4, <1>12
  <2>4. Resizes(heap, g, pools, b, amt)
    BY <2>3, <1>1, <1>5, <1>6, GrowIs DEF Growing
  <2> QED
    BY <2>1, <2>2, <2>4, <1>10, <1>12
<1>13. CASE Allocate(newamt, b, size)
  <2>1. b \in DOMAIN live \cup {0} /\ size <= newamt
    BY <1>2, <1>3
  <2> QED
    BY <2>1, <1>2, <1>3, <1>13, AllocateKeeps
<1> QED
  BY <1>8, <1>9, <1>11, <1>12, <1>13

LEMMA InitIInv == Init => IInv
<1> SUFFICES ASSUME Init PROVE IInv
  OBVIOUS
<1>1. /\ heap = [hdr |-> [a \in Addr |-> Garbage], foot |-> [a \in Addr |-> 0],
                 bins |-> [b \in Bins |-> {}], l1bm |-> {}, l2bm |-> [i \in L1 |-> {}],
                 wild |-> FALSE]
      /\ pools = {} /\ top = 1 /\ live = << >> /\ call = Idle /\ refused = 0
  BY DEF Init
<1>2. Garbage \in HdrT /\ Garbage.sz = 0
  BY DEF Garbage, HdrT
<1>3. heap \in HeapT
  <2>1. [a \in Addr |-> Garbage] \in [Addr -> HdrT] /\ [a \in Addr |-> 0] \in [Addr -> Nat]
        /\ [b \in Bins |-> {}] \in [Bins -> SUBSET Addr] /\ [i \in L1 |-> {}] \in [L1 -> SUBSET Nat]
    BY <1>2
  <2> QED
    BY <2>1, <1>1 DEF HeapT
<1>4. Blocks(heap) = {}
  <2>1. \A a \in Addr : heap.hdr[a].sz = 0
    BY <1>1, <1>2
  <2> QED
    BY <2>1 DEF Blocks
<1>5. FreeBlocks(heap) = {} /\ Held(heap) = {}
  BY <1>4 DEF FreeBlocks, Held
<1>6. Layout(heap, pools)
  BY <1>1, <1>4, <1>5 DEF Layout, Placed, Covered, Apart, Ended, HeapTagged, HeapCoalesced
<1>7. Binned(heap, FreeBlocks(heap))
  <2>1. \A b \in Bins : heap.bins[b] = {}
    BY <1>1
  <2>2. \A i \in L1 : heap.l2bm[i] = {}
    BY <1>1
  <2>3. heap.l1bm = {}
    BY <1>1
  <2> QED
    BY <2>1, <2>2, <2>3, <1>5 DEF Binned
<1>8. Sound(heap, pools)
  BY <1>3, <1>6, <1>7 DEF Sound
<1>9. PoolsApart(pools, top)
  BY <1>1 DEF PoolsApart
<1>10. Caller(heap, live)
  <2>1. live = [b \in Held(heap) |-> live[b]]
    <3>1. live = << >> /\ << >> = [b \in {} |-> live[b]]
      BY <1>1
    <3> QED
      BY <3>1, <1>5
  <2> QED
    BY <2>1, <1>5 DEF Caller
<1>11. top \in 1 .. MemLen + 1
  BY <1>1, BlockAssumption
<1>12. refused \in Nat /\ TooShort(heap, refused)
  BY <1>1, NotTooShort
<1> QED
  BY <1>1, <1>8, <1>9, <1>10, <1>11, <1>12 DEF IInv

LEMMA NextIInv == IInv /\ [Next]_vars => IInv' /\ [Alloc!Next]_(Alloc!vars)
<1> SUFFICES ASSUME IInv, [Next]_vars PROVE IInv' /\ [Alloc!Next]_(Alloc!vars)
  OBVIOUS
<1>1. CASE UNCHANGED vars
  BY <1>1 DEF IInv, vars, Alloc!vars, Arena, Owned
<1>2. CASE \E len \in PoolLens : AddPool(len)
  BY <1>2, AddPoolKeeps
<1>3. CASE \E size \in MallocSizes : Malloc(size)
  <2>1. PICK size \in MallocSizes : Malloc(size)
    BY <1>3
  <2>2. size \in Nat /\ 1 <= size /\ size <= size
    BY ClientAssumption, BlockAssumption
  <2>3. Allocate(size, 0, size)
    BY <2>1 DEF Malloc
  <2>4. 0 \in DOMAIN live \cup {0}
    OBVIOUS
  <2> QED
    BY <2>2, <2>3, <2>4, AllocateKeeps
<1>4. CASE MoreMem
  BY <1>4, MoreMemKeeps
<1>5. CASE NoMoreMem
  BY <1>5, NoMoreMemKeeps
<1>6. CASE \E b \in DOMAIN live : Free(b)
  BY <1>6, FreeKeeps
<1>7. CASE \E b \in DOMAIN live : \E size \in ReallocSizes : Realloc(b, size)
  BY <1>7, ReallocKeeps
<1> QED
  BY <1>1, <1>2, <1>3, <1>4, <1>5, <1>6, <1>7 DEF Next

-----------------------------------------------------------------------------
(* Theorems.                                                                 *)

\* IInv holds in every state: after any sequence of tlsf_add_pool, tlsf_malloc,
\* tlsf_realloc and tlsf_free the heap is sound, also while a tlsf_malloc waits for
\* add_mem_func.
THEOREM Invariance == Spec => []IInv
<1>1. Init => IInv
  BY InitIInv
<1>2. IInv /\ [Next]_vars => IInv'
  BY NextIInv
<1> QED
  BY <1>1, <1>2, PTL DEF Spec

LEMMA IInvBlocks == IInv => BlocksSound
<1> SUFFICES ASSUME IInv PROVE BlocksSound
  OBVIOUS
<1>1. /\ top \in 1 .. MemLen + 1 /\ PoolsApart(pools, top) /\ Sound(heap, pools)
      /\ Caller(heap, live)
  BY DEF IInv
<1>2. heap \in HeapT /\ Layout(heap, pools)
  BY <1>1 DEF Sound
<1>3. DOMAIN live = Blocks(heap) \ FreeBlocks(heap)
  BY <1>1 DEF Caller, Held
<1>4. \A p \in pools : heap.hdr[p.start + p.ulen].sz = 0 /\ heap.hdr[p.start + p.ulen].alloc
  BY <1>2 DEF Layout, Ended, PoolEnd
<1>5. UNION { Units(heap, a) : a \in Blocks(heap) } = UNION { PoolUnits(p) : p \in pools }
  <2>1. ASSUME NEW a \in Blocks(heap), NEW u \in Units(heap, a)
        PROVE  \E p \in pools : u \in PoolUnits(p)
    <3>1. PICK p \in pools : p.start <= a /\ a + heap.hdr[a].sz <= PoolEnd(p)
      BY <1>2 DEF Layout, Placed
    <3>2. p.start \in Nat /\ p.ulen \in Nat
      BY <1>1 DEF PoolsApart
    <3>3. a \in Int /\ heap.hdr[a].sz \in Nat
      BY <1>1, BlocksBelow
    <3>4. u \in Int /\ a <= u /\ u <= a + heap.hdr[a].sz - 1
      BY <3>3 DEF Units
    <3>5. u \in PoolUnits(p)
      BY <3>1, <3>2, <3>3, <3>4 DEF PoolUnits, PoolEnd
    <3> QED
      BY <3>5
  <2>2. ASSUME NEW p \in pools, NEW u \in PoolUnits(p)
        PROVE  \E a \in Blocks(heap) : u \in Units(heap, a)
    <3>1. PICK a \in Blocks(heap) : a <= u /\ u < a + heap.hdr[a].sz
      BY <1>2 DEF Layout, Covered
    <3>2. a \in Int /\ heap.hdr[a].sz \in Nat
      BY <1>1, BlocksBelow
    <3>3. u \in Int
      <4>1. p.start \in Nat /\ p.ulen \in Nat
        BY <1>1 DEF PoolsApart
      <4> QED
        BY <4>1 DEF PoolUnits
    <3>4. u \in Units(heap, a)
      BY <3>1, <3>2, <3>3 DEF Units
    <3> QED
      BY <3>4
  <2> QED
    BY <2>1, <2>2
<1>6. HeapTiled(heap, pools)
  BY <1>2, <1>4, <1>5 DEF HeapTiled, Layout, Apart
<1>7. HeapTagged(heap) /\ HeapCoalesced(heap)
  BY <1>2 DEF Layout
<1> QED
  BY <1>3, <1>6, <1>7 DEF BlocksSound

\* The blocks of a pool tile it, the caller holds the allocated ones, the tags that
\* tlsf_free finds the neighbours of a block by are true, and no two free blocks
\* touch.
THEOREM BlocksSoundTheorem == Spec => []BlocksSound
<1>1. IInv => BlocksSound
  BY IInvBlocks
<1> QED
  BY <1>1, Invariance, PTL

\* The free blocks are exactly the ones on the lists of their classes, and the
\* bitmaps say which lists are not empty.
THEOREM BinsExactTheorem == Spec => []BinsExact
<1>1. IInv => BinsExact
  BY DEF IInv, Sound, Binned, BinsExact
<1> QED
  BY <1>1, Invariance, PTL

\* Good fit: when tlsf_malloc or tlsf_realloc gives up, no free block is as long as
\* the request rounded up to a multiple of its class's width.
THEOREM RefusedTheorem == Spec => []RefusedOnlyWithoutFit
<1>1. IInv => RefusedOnlyWithoutFit
  BY DEF IInv, TooShort, Sizes, RoundedUp, Width, RefusedOnlyWithoutFit
<1> QED
  BY <1>1, Invariance, PTL

\* What the callers of tlsf_malloc, tlsf_realloc and tlsf_free rely on, whatever they
\* do: every pointer owns a run of units of the pools that is as long as was asked
\* for and that no other pointer owns; the block of a realloc that moves is there
\* until it has moved; and nobody's run changes through the calls of others.
THEOREM Refinement == Spec => ImplementsAllocator
<1>1. Init => Alloc!Init
  <2> SUFFICES ASSUME Init PROVE Arena = {} /\ Owned = << >>
    BY DEF Alloc!Init
  <2>2. pools = {} /\ live = << >>
    BY DEF Init
  <2>3. DOMAIN live = {}
    BY <2>2
  <2> QED
    BY <2>2, <2>3 DEF Arena, Owned
<1>2. IInv /\ [Next]_vars => [Alloc!Next]_(Alloc!vars)
  BY NextIInv
<1> QED
  BY <1>1, <1>2, Invariance, PTL DEF Spec, Alloc!Spec, ImplementsAllocator
=============================================================================
