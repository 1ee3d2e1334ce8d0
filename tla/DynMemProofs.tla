---------------------------- MODULE DynMemProofs ----------------------------
(***************************************************************************)
(* Proofs about DynMem, for memories, pools and requests of any size.      *)
(***************************************************************************)
EXTENDS DynMem, FiniteSetTheorems, WellFoundedInduction, TLAPS

-----------------------------------------------------------------------------
(* Heaps and their layout.                                                   *)

HdrT == [sz : Nat, alloc : BOOLEAN, palloc : BOOLEAN]

Fields == {"hdr", "foot", "nxt", "prv", "cur", "wild"}

\* The tags of a heap are of their types, whatever its links are.
Words(h) ==
  /\ DOMAIN h = Fields
  /\ h.hdr \in [Addr -> HdrT] /\ h.foot \in [Addr -> Nat] /\ h.wild \in BOOLEAN

PoolEnd(p) == p.start + p.ulen

\* Pools with their headers and sentinels lie below e and apart from each other.
PoolsApart(P, e) ==
  /\ P \subseteq [start : Nat, ulen : Nat]
  /\ \A p \in P : p.ulen > 0 /\ PoolHdr < p.start /\ PoolEnd(p) < e
  /\ \A p, q \in P : p # q => PoolEnd(p) < q.start \/ PoolEnd(q) < p.start

\* Every block lies in a pool.
Placed(h, P) ==
  \A a \in Blocks(h) : \E p \in P : p.start <= a /\ a + h.hdr[a].sz <= PoolEnd(p)

\* Every unit of a pool lies in a block.
Covered(h, P) ==
  \A p \in P : \A u \in PoolUnits(p) :
    \E a \in Blocks(h) : a <= u /\ u < a + h.hdr[a].sz

\* No two blocks overlap.
Apart(h) == \A a, b \in Blocks(h) : a < b => a + h.hdr[a].sz <= b

\* The sentinel of a pool is an allocated block of no units, and nothing is free
\* in front of its first block.
Ended(h, P) ==
  \A p \in P : /\ h.hdr[PoolEnd(p)].sz = 0
               /\ h.hdr[PoolEnd(p)].alloc = TRUE
               /\ h.hdr[p.start].palloc = TRUE

\* A block that the next one says is free is free, and its size is behind it.  The
\* converse is lost when a block is shrunk.
Tags(h) ==
  \A a \in Blocks(h) :
    h.hdr[a + h.hdr[a].sz].palloc = FALSE =>
      h.hdr[a].alloc = FALSE /\ h.foot[a + h.hdr[a].sz - 1] = h.hdr[a].sz

\* The block behind a free one says so.
Told(h) ==
  \A a \in Blocks(h) : h.hdr[a].alloc = FALSE => h.hdr[a + h.hdr[a].sz].palloc = FALSE

Layout(h, P) == Placed(h, P) /\ Covered(h, P) /\ Apart(h) /\ Ended(h, P) /\ Tags(h)

\* The units from lo up to hi are some of the blocks of a pool.
Region(h, P, lo, hi) ==
  /\ lo \in Blocks(h) /\ hi \in Addr /\ lo < hi
  /\ \E p \in P : p.start <= lo /\ hi <= PoolEnd(p)
  /\ \A b \in Blocks(h) : \/ b + h.hdr[b].sz <= lo
                          \/ hi <= b
                          \/ lo <= b /\ b + h.hdr[b].sz <= hi

\* In g the units from lo up to hi of h are one block up to m, allocated or not,
\* and a free one behind it.
Recut(h, g, lo, m, hi, al) ==
  /\ \A b \in Addr : b < lo \/ hi < b => g.hdr[b] = h.hdr[b]
  /\ \A b \in Addr : b < lo \/ hi <= b => g.foot[b] = h.foot[b]
  /\ g.hdr[lo].sz = m - lo /\ g.hdr[lo].alloc = al /\ g.hdr[lo].palloc = h.hdr[lo].palloc
  /\ m < hi => /\ g.hdr[m].sz = hi - m /\ g.hdr[m].alloc = FALSE /\ g.hdr[m].palloc = TRUE
               /\ al = TRUE
  /\ \A b \in Addr : lo < b /\ b < hi /\ b # m => g.hdr[b].sz = 0
  /\ g.hdr[hi].sz = h.hdr[hi].sz /\ g.hdr[hi].alloc = h.hdr[hi].alloc
  /\ g.hdr[hi].palloc = FALSE => m < hi \/ al = FALSE
  /\ m < hi => g.foot[hi - 1] = hi - m
  /\ m = hi /\ al = FALSE => g.foot[hi - 1] = hi - lo

\* What follows the region says so if its last block is free.
Closed(g, m, hi, al) == m < hi \/ al = FALSE => g.hdr[hi].palloc = FALSE

\* The blocks a recut leaves: those outside of the region, its first one, and the
\* free one behind it.
Leaves(h, g, lo, m, hi, al) ==
  /\ \A b \in Addr : b < lo \/ hi <= b => /\ g.hdr[b].sz = h.hdr[b].sz
                                          /\ g.hdr[b].alloc = h.hdr[b].alloc
  /\ \A b : b \in Blocks(g) <=> \/ b \in Blocks(h) /\ (b < lo \/ hi <= b)
                                \/ b = lo
                                \/ b = m /\ m < hi
  /\ \A b : b \in FreeBlocks(g) <=> \/ b \in FreeBlocks(h) /\ (b < lo \/ hi <= b)
                                    \/ b = lo /\ al = FALSE
                                    \/ b = m /\ m < hi
  /\ \A b \in Blocks(h) : b < lo => b + h.hdr[b].sz <= lo


\* The unit after a block is the next block or the sentinel.
LEMMA NextOf ==
  ASSUME NEW h, Words(h), NEW P, NEW e \in 1 .. MemLen + 1, PoolsApart(P, e), Layout(h, P),
         NEW a \in Blocks(h)
  PROVE  /\ a + h.hdr[a].sz \in Addr /\ a < a + h.hdr[a].sz
         /\ \/ a + h.hdr[a].sz \in Blocks(h)
            \/ \E p \in P : a + h.hdr[a].sz = PoolEnd(p)
<1> DEFINE n == a + h.hdr[a].sz
<1>1. PICK p \in P : p.start <= a /\ n <= PoolEnd(p)
  BY DEF Layout, Placed
<1>2. p.start \in Nat /\ p.ulen \in Nat /\ PoolHdr < p.start /\ PoolEnd(p) < e
  BY DEF PoolsApart
<1>3. a \in Addr /\ h.hdr[a].sz \in Nat /\ h.hdr[a].sz > 0
  BY DEF Blocks, Words, HdrT
<1>4. n \in Addr /\ a < n
  BY <1>1, <1>2, <1>3, BlockAssumption DEF Addr, PoolEnd
<1>5. ASSUME n # PoolEnd(p) PROVE n \in Blocks(h)
  <2>1. n \in PoolUnits(p)
    BY <1>1, <1>2, <1>4, <1>3, <1>5 DEF PoolUnits, PoolEnd, Addr
  <2>2. PICK b \in Blocks(h) : b <= n /\ n < b + h.hdr[b].sz
    BY <2>1 DEF Layout, Covered
  <2>3. b \in Addr /\ h.hdr[b].sz \in Nat
    BY DEF Blocks, Words, HdrT
  <2>4. ~ (b < a) /\ ~ (a < b /\ b < n) /\ b # a
    <3>1. b < a => b + h.hdr[b].sz <= a
      BY DEF Layout, Apart
    <3>2. a < b => n <= b
      BY DEF Layout, Apart
    <3> QED
      BY <3>1, <3>2, <2>2, <2>3, <1>3, <1>4 DEF Addr
  <2> QED
    BY <2>2, <2>3, <2>4, <1>3, <1>4 DEF Addr
<1> QED
  BY <1>4, <1>5

\* A unit of a pool, not its first, is the end of a block if it is the start of
\* one or the sentinel.
LEMMA PrevOf ==
  ASSUME NEW h, Words(h), NEW P, NEW e \in 1 .. MemLen + 1, PoolsApart(P, e), Layout(h, P),
         NEW p \in P, NEW n \in Addr, p.start < n, n <= PoolEnd(p),
         n \in Blocks(h) \/ n = PoolEnd(p)
  PROVE  \E a \in Blocks(h) : a + h.hdr[a].sz = n
<1>1. p.start \in Nat /\ p.ulen \in Nat /\ PoolHdr < p.start /\ PoolHdr \in Nat
  BY BlockAssumption DEF PoolsApart
<1>2. n - 1 \in PoolUnits(p)
  BY <1>1 DEF PoolUnits, PoolEnd, Addr
<1>3. PICK a \in Blocks(h) : a <= n - 1 /\ n - 1 < a + h.hdr[a].sz
  BY <1>2 DEF Layout, Covered
<1>4. a \in Addr /\ h.hdr[a].sz \in Nat /\ h.hdr[a].sz > 0
  BY DEF Blocks, Words, HdrT
<1>5. CASE n \in Blocks(h)
  <2>1. a < n => a + h.hdr[a].sz <= n
    BY <1>5 DEF Layout, Apart
  <2> QED
    BY <2>1, <1>3, <1>4 DEF Addr
<1>6. CASE n = PoolEnd(p)
  <2>1. PICK q \in P : q.start <= a /\ a + h.hdr[a].sz <= PoolEnd(q)
    BY DEF Layout, Placed
  <2>2. q.start \in Nat /\ q.ulen \in Nat
    BY DEF PoolsApart
  <2>3. a \in PoolUnits(p) \/ a < p.start
    BY <1>1, <1>3, <1>4, <1>6 DEF PoolUnits, PoolEnd, Addr
  <2>4. p = q
    <3> SUFFICES ASSUME p # q PROVE FALSE
      OBVIOUS
    <3>1. PoolEnd(p) < q.start \/ PoolEnd(q) < p.start
      BY DEF PoolsApart
    <3> QED
      BY <3>1, <2>1, <2>2, <1>1, <1>2, <1>3, <1>4, <1>6 DEF PoolEnd, Addr, PoolUnits
  <2> QED
    BY <2>1, <2>4, <1>3, <1>4, <1>6 DEF Addr
<1> QED
  BY <1>5, <1>6

-----------------------------------------------------------------------------
(* Regions.                                                                  *)

\* A block is a region.
LEMMA RegionOne ==
  ASSUME NEW h, Words(h), NEW P, NEW e \in 1 .. MemLen + 1, PoolsApart(P, e), Layout(h, P),
         NEW a \in Blocks(h)
  PROVE  Region(h, P, a, a + h.hdr[a].sz)
<1>1. a + h.hdr[a].sz \in Addr /\ a < a + h.hdr[a].sz
  BY NextOf
<1>2. \E p \in P : p.start <= a /\ a + h.hdr[a].sz <= PoolEnd(p)
  BY DEF Layout, Placed
<1>3. ASSUME NEW b \in Blocks(h)
      PROVE  \/ b + h.hdr[b].sz <= a
             \/ a + h.hdr[a].sz <= b
             \/ a <= b /\ b + h.hdr[b].sz <= a + h.hdr[a].sz
  <2>1. a \in Addr /\ b \in Addr /\ h.hdr[a].sz \in Nat
    BY DEF Blocks, Words, HdrT
  <2>2. b < a => b + h.hdr[b].sz <= a
    BY DEF Layout, Apart
  <2>3. a < b => a + h.hdr[a].sz <= b
    BY DEF Layout, Apart
  <2> QED
    BY <2>1, <2>2, <2>3 DEF Addr
<1> QED
  BY <1>1, <1>2, <1>3 DEF Region

\* A region and the block that follows it are one.
LEMMA RegionJoin ==
  ASSUME NEW h, Words(h), NEW P, NEW e \in 1 .. MemLen + 1, PoolsApart(P, e), Layout(h, P),
         NEW lo, NEW n \in Blocks(h), Region(h, P, lo, n)
  PROVE  Region(h, P, lo, n + h.hdr[n].sz)
<1> DEFINE hi == n + h.hdr[n].sz
<1>1. hi \in Addr /\ n < hi
  BY NextOf
<1>2. lo \in Blocks(h) /\ lo \in Addr /\ n \in Addr /\ lo < n /\ h.hdr[n].sz \in Nat /\ h.hdr[n].sz > 0
  BY DEF Region, Blocks, Words, HdrT
<1>3. PICK p \in P : p.start <= lo /\ n <= PoolEnd(p)
  BY DEF Region
<1>4. PICK q \in P : q.start <= n /\ hi <= PoolEnd(q)
  BY DEF Layout, Placed
<1>5. p.start \in Nat /\ p.ulen \in Nat /\ q.start \in Nat /\ q.ulen \in Nat
  BY DEF PoolsApart
<1>6. n # PoolEnd(p)
  BY <1>2 DEF Layout, Ended
<1>7. p = q
  <2> SUFFICES ASSUME p # q PROVE FALSE
    OBVIOUS
  <2>1. PoolEnd(p) < q.start \/ PoolEnd(q) < p.start
    BY DEF PoolsApart
  <2> QED
    BY <2>1, <1>1, <1>2, <1>3, <1>4, <1>5, <1>6 DEF PoolEnd, Addr
<1>8. ASSUME NEW b \in Blocks(h)
      PROVE  b + h.hdr[b].sz <= lo \/ hi <= b \/ (lo <= b /\ b + h.hdr[b].sz <= hi)
  <2>1. b \in Addr /\ h.hdr[b].sz \in Nat
    BY DEF Blocks, Words, HdrT
  <2>2. b + h.hdr[b].sz <= lo \/ n <= b \/ (lo <= b /\ b + h.hdr[b].sz <= n)
    BY DEF Region
  <2>3. n < b => hi <= b
    BY DEF Layout, Apart
  <2> QED
    BY <2>1, <2>2, <2>3, <1>1, <1>2 DEF Addr
<1> QED
  BY <1>1, <1>2, <1>3, <1>4, <1>7, <1>8 DEF Region, Addr

LEMMA RecutBlocks ==
  ASSUME NEW h, Words(h), NEW g, Words(g), NEW P, Layout(h, P),
         NEW lo, NEW m \in Int, NEW hi, NEW al \in BOOLEAN, Region(h, P, lo, hi),
         lo < m, m <= hi, Recut(h, g, lo, m, hi, al)
  PROVE  Leaves(h, g, lo, m, hi, al)
<1>1. lo \in Addr /\ hi \in Addr /\ m \in Addr /\ lo < hi /\ lo \in Blocks(h)
  <2>1. lo \in Addr /\ hi \in Addr /\ lo \in Blocks(h)
    BY DEF Region, Blocks
  <2> QED
    BY <2>1, BlockAssumption DEF Addr
<1>2. ASSUME NEW b \in Addr, b < lo \/ hi <= b
      PROVE  g.hdr[b].sz = h.hdr[b].sz /\ g.hdr[b].alloc = h.hdr[b].alloc
  <2>1. CASE b = hi
    BY <2>1 DEF Recut
  <2>2. CASE b # hi
    <3>1. b < lo \/ hi < b
      BY <1>1, <1>2, <2>2 DEF Addr
    <3>2. g.hdr[b] = h.hdr[b]
      BY <3>1 DEF Recut
    <3> QED
      BY <3>2
  <2> QED
    BY <2>1, <2>2
<1>3. g.hdr[lo].sz = m - lo /\ g.hdr[lo].alloc = al
  BY DEF Recut
<1>4. m < hi => g.hdr[m].sz = hi - m /\ g.hdr[m].alloc = FALSE /\ al = TRUE
  BY DEF Recut
<1>5. \A b \in Addr : lo < b /\ b < hi /\ b # m => g.hdr[b].sz = 0
  BY DEF Recut
<1>6. ASSUME NEW b \in Addr
      PROVE  b \in Blocks(g) <=> \/ b \in Blocks(h) /\ (b < lo \/ hi <= b)
                                 \/ b = lo
                                 \/ b = m /\ m < hi
  <2>1. CASE b < lo \/ hi <= b
    BY <1>1, <1>2, <2>1 DEF Blocks, Addr
  <2>2. CASE b = lo
    BY <1>1, <1>3, <2>2 DEF Blocks, Addr
  <2>3. CASE b = m /\ m < hi
    BY <1>1, <1>4, <2>3 DEF Blocks, Addr
  <2>4. CASE lo < b /\ b < hi /\ b # m
    BY <1>1, <1>5, <2>4 DEF Blocks, Addr
  <2> QED
    BY <1>1, <2>1, <2>2, <2>3, <2>4 DEF Addr
<1>7. ASSUME NEW b \in Addr
      PROVE  b \in FreeBlocks(g) <=> \/ b \in FreeBlocks(h) /\ (b < lo \/ hi <= b)
                                     \/ b = lo /\ al = FALSE
                                     \/ b = m /\ m < hi
  <2>1. CASE b < lo \/ hi <= b
    BY <1>1, <1>2, <1>6, <2>1 DEF FreeBlocks, Addr
  <2>2. CASE b = lo
    BY <1>1, <1>3, <1>6, <2>2 DEF FreeBlocks, Addr
  <2>3. CASE b = m /\ m < hi
    <3>1. b \in Blocks(g)
      BY <1>6, <2>3
    <3>2. g.hdr[b].alloc = FALSE
      BY <1>4, <2>3
    <3>3. b \in FreeBlocks(g)
      BY <3>1, <3>2 DEF FreeBlocks
    <3> QED
      BY <2>3, <3>3
  <2>4. CASE lo < b /\ b < hi /\ b # m
    BY <1>1, <1>6, <2>4 DEF FreeBlocks, Addr
  <2>5. b < lo \/ hi <= b \/ b = lo \/ (b = m /\ m < hi) \/ (lo < b /\ b < hi /\ b # m)
    BY <1>1 DEF Addr
  <2> QED
    BY <2>1, <2>2, <2>3, <2>4, <2>5, Zenon
<1>8. ASSUME NEW b \in Blocks(h), b < lo PROVE b + h.hdr[b].sz <= lo
  BY <1>1, <1>8 DEF Layout, Apart
<1>9. Blocks(g) \subseteq Addr /\ Blocks(h) \subseteq Addr
  BY DEF Blocks
<1>10. FreeBlocks(g) \subseteq Addr /\ FreeBlocks(h) \subseteq Addr
  BY <1>9 DEF FreeBlocks
<1>11. \A b : b \in Blocks(g) <=> \/ b \in Blocks(h) /\ (b < lo \/ hi <= b)
                                  \/ b = lo
                                  \/ b = m /\ m < hi
  BY <1>1, <1>6, <1>9
<1>12. \A b : b \in FreeBlocks(g) <=> \/ b \in FreeBlocks(h) /\ (b < lo \/ hi <= b)
                                      \/ b = lo /\ al = FALSE
                                      \/ b = m /\ m < hi
  BY <1>1, <1>7, <1>10
<1> QED
  BY <1>2, <1>8, <1>11, <1>12 DEF Leaves

\* A recut keeps the layout.
LEMMA RecutKeeps ==
  ASSUME NEW h, Words(h), NEW g, Words(g), NEW P, NEW e \in 1 .. MemLen + 1,
         PoolsApart(P, e), Layout(h, P),
         NEW lo, NEW m \in Int, NEW hi, NEW al \in BOOLEAN, Region(h, P, lo, hi),
         lo < m, m <= hi, Recut(h, g, lo, m, hi, al)
  PROVE  /\ Layout(g, P)
         /\ Told(h) /\ Closed(g, m, hi, al) => Told(g)
<1> DEFINE Out(b) == b \in Blocks(h) /\ (b < lo \/ hi <= b)
<1>1. /\ lo \in Addr /\ hi \in Addr /\ lo \in Blocks(h)
      /\ lo \in Int /\ hi \in Int /\ m \in Int /\ lo < hi
  <2>1. lo \in Addr /\ hi \in Addr /\ lo \in Blocks(h) /\ lo < hi
    BY DEF Region, Blocks
  <2> QED
    BY <2>1 DEF Addr
<1>0. Leaves(h, g, lo, m, hi, al)
  BY RecutBlocks
<1>2. \A b \in Addr : b < lo \/ hi <= b => /\ g.hdr[b].sz = h.hdr[b].sz
                                           /\ g.hdr[b].alloc = h.hdr[b].alloc
  BY <1>0 DEF Leaves
<1>3. \A b : b \in Blocks(g) <=> Out(b) \/ b = lo \/ (b = m /\ m < hi)
  BY <1>0 DEF Leaves
<1>4. \A b : b \in FreeBlocks(g) <=> \/ b \in FreeBlocks(h) /\ (b < lo \/ hi <= b)
                                     \/ b = lo /\ al = FALSE
                                     \/ b = m /\ m < hi
  BY <1>0 DEF Leaves
<1>5. \A b \in Blocks(h) : b < lo => b + h.hdr[b].sz <= lo
  BY <1>0 DEF Leaves
<1>6. g.hdr[lo].sz = m - lo /\ g.hdr[lo].alloc = al /\ g.hdr[lo].palloc = h.hdr[lo].palloc
  BY DEF Recut
<1>7. m < hi => /\ g.hdr[m].sz = hi - m /\ g.hdr[m].alloc = FALSE /\ g.hdr[m].palloc = TRUE
                /\ al = TRUE
  BY DEF Recut
<1>8. PICK r \in P : r.start <= lo /\ hi <= PoolEnd(r)
  BY DEF Region
<1>9. ASSUME NEW b \in Blocks(h) PROVE b \in Addr /\ b \in Int /\ h.hdr[b].sz \in Nat /\ h.hdr[b].sz > 0
  <2>1. b \in Addr /\ h.hdr[b].sz > 0
    BY DEF Blocks
  <2>2. h.hdr[b].sz \in Nat
    BY <2>1 DEF Words, HdrT
  <2> QED
    BY <2>1, <2>2 DEF Addr
<1>10. ASSUME NEW p \in P
       PROVE  /\ p.start \in Nat /\ p.ulen \in Nat /\ p.start \in Addr /\ PoolEnd(p) \in Addr
              /\ p.start < PoolEnd(p) /\ PoolEnd(p) \in Int
  <2>1. p.start \in Nat /\ p.ulen \in Nat /\ p.ulen > 0 /\ PoolHdr < p.start /\ PoolEnd(p) < e
    BY DEF PoolsApart
  <2> QED
    BY <2>1, BlockAssumption DEF PoolEnd, Addr
<1>11. Placed(g, P)
  <2> SUFFICES ASSUME NEW a \in Blocks(g)
               PROVE  \E p \in P : p.start <= a /\ a + g.hdr[a].sz <= PoolEnd(p)
    BY DEF Placed
  <2>1. CASE Out(a)
    <3>1. g.hdr[a].sz = h.hdr[a].sz
      BY <1>2, <1>9, <2>1
    <3> QED
      BY <3>1, <2>1 DEF Layout, Placed
  <2>2. CASE a = lo
    <3>1. r.start <= a /\ a + g.hdr[a].sz <= PoolEnd(r)
      BY <1>1, <1>6, <1>8, <1>10, <2>2
    <3> QED
      BY <3>1
  <2>3. CASE a = m /\ m < hi
    <3>1. r.start <= a /\ a + g.hdr[a].sz <= PoolEnd(r)
      BY <1>1, <1>7, <1>8, <1>10, <2>3
    <3> QED
      BY <3>1
  <2> QED
    BY <1>3, <2>1, <2>2, <2>3
<1>12. Covered(g, P)
  <2> SUFFICES ASSUME NEW p \in P, NEW u \in PoolUnits(p)
               PROVE  \E a \in Blocks(g) : a <= u /\ u < a + g.hdr[a].sz
    BY DEF Covered
  <2>1. u \in Int
    BY <1>10 DEF PoolUnits
  <2>2. CASE lo <= u /\ u < m
    BY <1>1, <1>3, <1>6, <2>1, <2>2
  <2>3. CASE m <= u /\ u < hi
    BY <1>1, <1>3, <1>7, <2>1, <2>3
  <2>4. CASE u < lo \/ hi <= u
    <3>1. PICK a \in Blocks(h) : a <= u /\ u < a + h.hdr[a].sz
      BY DEF Layout, Covered
    <3>2. a < lo \/ hi <= a
      <4>1. a + h.hdr[a].sz <= lo \/ hi <= a \/ (lo <= a /\ a + h.hdr[a].sz <= hi)
        BY DEF Region
      <4>2. a \in Int /\ h.hdr[a].sz \in Nat
        BY <1>9
      <4> QED
        BY <4>1, <4>2, <3>1, <1>1, <2>1, <2>4
    <3>3. g.hdr[a].sz = h.hdr[a].sz /\ a \in Blocks(g)
      BY <3>2, <1>2, <1>3, <1>9
    <3> QED
      BY <3>1, <3>3
  <2> QED
    BY <1>1, <2>1, <2>2, <2>3, <2>4
<1>13. Apart(g)
  <2> SUFFICES ASSUME NEW a \in Blocks(g), NEW b \in Blocks(g), a < b
               PROVE  a + g.hdr[a].sz <= b
    BY DEF Apart
  <2>1. CASE Out(a) /\ Out(b)
    <3>1. g.hdr[a].sz = h.hdr[a].sz /\ a + h.hdr[a].sz <= b
      BY <2>1, <1>2, <1>9 DEF Layout, Apart
    <3> QED
      BY <3>1
  <2>2. CASE Out(a) /\ ~ Out(b)
    <3>1. b = lo \/ (b = m /\ m < hi)
      BY <2>2, <1>3
    <3>2. a < lo
      <4>1. a \in Int /\ (a < lo \/ hi <= a) /\ b < hi
        BY <3>1, <2>2, <1>1, <1>9
      <4> QED
        BY <4>1, <3>1, <1>1
    <3>3. g.hdr[a].sz = h.hdr[a].sz /\ a + h.hdr[a].sz <= lo
      BY <2>2, <3>2, <1>2, <1>5, <1>9
    <3>4. lo <= b /\ b \in Int
      BY <3>1, <1>1
    <3> QED
      BY <3>3, <3>4, <2>2, <1>1, <1>9
  <2>3. CASE a = lo
    <3>1. b = m \/ hi <= b
      <4>1. b # lo /\ ~ (b < lo)
        <5>1. b \in Int
          BY <1>1, <1>3, <1>9
        <5> QED
          BY <5>1, <2>3, <1>1
      <4> QED
        BY <4>1, <1>3
    <3> QED
      BY <3>1, <2>3, <1>1, <1>3, <1>6, <1>9
  <2>4. CASE a = m /\ m < hi
    <3>1. hi <= b
      BY <2>4, <1>1, <1>3, <1>9
    <3> QED
      BY <3>1, <2>4, <1>1, <1>3, <1>7, <1>9
  <2> QED
    BY <1>3, <2>1, <2>2, <2>3, <2>4
<1>14. Ended(g, P)
  <2> SUFFICES ASSUME NEW p \in P
               PROVE  /\ g.hdr[PoolEnd(p)].sz = 0
                      /\ g.hdr[PoolEnd(p)].alloc = TRUE
                      /\ g.hdr[p.start].palloc = TRUE
    BY DEF Ended
  <2>1. h.hdr[PoolEnd(p)].sz = 0 /\ h.hdr[PoolEnd(p)].alloc = TRUE /\ h.hdr[p.start].palloc = TRUE
    BY DEF Layout, Ended
  <2>2. p = r \/ PoolEnd(p) < r.start \/ PoolEnd(r) < p.start
    BY DEF PoolsApart
  <2>3. PoolEnd(p) < lo \/ hi <= PoolEnd(p)
    BY <2>2, <1>1, <1>8, <1>10
  <2>4. g.hdr[PoolEnd(p)].sz = 0 /\ g.hdr[PoolEnd(p)].alloc = TRUE
    BY <2>1, <2>3, <1>2, <1>10
  <2>5. p.start < lo \/ hi < p.start \/ p.start = lo
    BY <2>2, <1>1, <1>8, <1>10
  <2>6. CASE p.start = lo
    BY <2>6, <2>1, <2>4, <1>6
  <2>7. CASE p.start < lo \/ hi < p.start
    <3>1. g.hdr[p.start] = h.hdr[p.start]
      BY <2>7, <1>10 DEF Recut
    <3> QED
      BY <3>1, <2>1, <2>4
  <2> QED
    BY <2>5, <2>6, <2>7
<1>15. ASSUME NEW a \in Blocks(g), NEW n, n = a + g.hdr[a].sz
       PROVE  \/ /\ n \in Addr /\ Out(a) /\ n = a + h.hdr[a].sz
                 /\ g.hdr[a].sz = h.hdr[a].sz /\ g.hdr[a].alloc = h.hdr[a].alloc
                 /\ g.hdr[n].palloc = h.hdr[n].palloc /\ g.foot[n - 1] = h.foot[n - 1]
              \/ /\ a = lo /\ n = m /\ m < hi /\ g.hdr[a].alloc = TRUE /\ g.hdr[n].palloc = TRUE
              \/ /\ a = lo /\ n = hi /\ m = hi /\ g.hdr[a].alloc = al /\ g.hdr[a].sz = hi - lo
              \/ /\ a = m /\ m < hi /\ n = hi /\ g.hdr[a].alloc = FALSE
                 /\ g.hdr[a].sz = hi - m
  <2>1. CASE Out(a)
    <3>1. g.hdr[a].sz = h.hdr[a].sz /\ g.hdr[a].alloc = h.hdr[a].alloc
      BY <2>1, <1>2, <1>9
    <3>2. n = a + h.hdr[a].sz
      BY <3>1, <1>15
    <3>3. n \in Addr /\ a < n
      BY <2>1, <3>2, NextOf
    <3>4. n <= lo \/ hi < n
      BY <2>1, <3>2, <3>3, <1>1, <1>5, <1>9 DEF Addr
    <3>5. n - 1 \in Addr /\ (n - 1 < lo \/ hi <= n - 1)
      <4>1. a \in Int /\ a \in Addr /\ n \in Int
        BY <3>3, <2>1, <1>9 DEF Addr
      <4> QED
        BY <4>1, <3>3, <3>4, <1>1, BlockAssumption DEF Addr
    <3>6. g.foot[n - 1] = h.foot[n - 1]
      BY <3>5 DEF Recut
    <3>7. g.hdr[n].palloc = h.hdr[n].palloc
      <4>1. CASE n = lo
        BY <4>1, <1>6
      <4>2. CASE n # lo
        <5>1. n < lo \/ hi < n
          BY <4>2, <3>3, <3>4, <1>1 DEF Addr
        <5>2. g.hdr[n] = h.hdr[n]
          BY <5>1, <3>3 DEF Recut
        <5> QED
          BY <5>2
      <4> QED
        BY <4>1, <4>2
    <3> QED
      BY <2>1, <3>1, <3>2, <3>3, <3>6, <3>7
  <2>2. CASE a = lo /\ m < hi
    <3>1. n = m
      BY <2>2, <1>1, <1>6, <1>15
    <3>2. g.hdr[a].alloc = TRUE /\ g.hdr[m].palloc = TRUE
      BY <2>2, <1>6, <1>7
    <3> QED
      BY <2>2, <3>1, <3>2
  <2>3. CASE a = lo /\ m = hi
    <3>1. g.hdr[a].sz = hi - lo /\ g.hdr[a].alloc = al /\ n = a + g.hdr[a].sz
      BY <2>3, <1>6, <1>15
    <3>2. n = hi
      BY <2>3, <3>1, <1>1
    <3> QED
      BY <2>3, <3>1, <3>2
  <2>4. CASE a = m /\ m < hi
    <3>1. g.hdr[a].sz = hi - m /\ g.hdr[a].alloc = FALSE /\ n = a + g.hdr[a].sz
      BY <2>4, <1>7, <1>15
    <3>2. n = hi
      BY <2>4, <3>1, <1>1
    <3> QED
      BY <2>4, <3>1, <3>2
  <2>5. (Out(a) \/ a = lo \/ (a = m /\ m < hi)) /\ (m < hi \/ m = hi)
    BY <1>1, <1>3, <1>15
  <2> QED
    BY <2>1, <2>2, <2>3, <2>4, <2>5
<1>16. /\ g.hdr[hi].palloc = FALSE => m < hi \/ al = FALSE
       /\ m < hi => g.foot[hi - 1] = hi - m
       /\ m = hi /\ al = FALSE => g.foot[hi - 1] = hi - lo
  BY DEF Recut
<1>17. Tags(g)
  <2> SUFFICES ASSUME NEW a \in Blocks(g), g.hdr[a + g.hdr[a].sz].palloc = FALSE
               PROVE  g.hdr[a].alloc = FALSE /\ g.foot[a + g.hdr[a].sz - 1] = g.hdr[a].sz
    BY DEF Tags
  <2>9. a \in Int /\ g.hdr[a].sz \in Nat
    <3>1. a \in Addr /\ a \in Int
      BY DEF Blocks, Addr
    <3>2. g.hdr[a] \in HdrT
      BY <3>1 DEF Words
    <3> QED
      BY <3>1, <3>2 DEF HdrT
  <2>0. PICK n \in Int : n = a + g.hdr[a].sz
    BY <2>9
  <2>8. n - 1 = a + g.hdr[a].sz - 1
    BY <2>0, <2>9
  <2>7. SUFFICES g.hdr[a].alloc = FALSE /\ g.foot[n - 1] = g.hdr[a].sz
    BY <2>8
  <2>1. CASE /\ Out(a) /\ n = a + h.hdr[a].sz
             /\ g.hdr[a].sz = h.hdr[a].sz /\ g.hdr[a].alloc = h.hdr[a].alloc
             /\ g.hdr[n].palloc = h.hdr[n].palloc /\ g.foot[n - 1] = h.foot[n - 1]
    <3>1. a \in Blocks(h) /\ h.hdr[a + h.hdr[a].sz].palloc = FALSE
      BY <2>0, <2>1
    <3>2. h.hdr[a].alloc = FALSE /\ h.foot[a + h.hdr[a].sz - 1] = h.hdr[a].sz
      BY <3>1 DEF Layout, Tags
    <3>3. h.foot[n - 1] = h.hdr[a].sz
      BY <3>2, <2>1, <2>8
    <3> QED
      BY <2>1, <3>2, <3>3
  <2>2. CASE g.hdr[n].palloc = TRUE
    BY <2>0, <2>2
  <2>3. CASE a = lo /\ n = hi /\ m = hi /\ g.hdr[a].alloc = al /\ g.hdr[a].sz = hi - lo
    <3>1. al = FALSE
      BY <2>0, <2>3, <1>1, <1>16
    <3> QED
      BY <2>3, <3>1, <1>16
  <2>4. CASE /\ a = m /\ m < hi /\ n = hi /\ g.hdr[a].alloc = FALSE
             /\ g.hdr[a].sz = hi - m
    BY <2>0, <2>4, <1>16
  <2> QED
    BY <2>0, <2>1, <2>2, <2>3, <2>4, <1>15
<1>18. ASSUME Told(h), Closed(g, m, hi, al) PROVE Told(g)
  <2> SUFFICES ASSUME NEW a \in Blocks(g), NEW n, n = a + g.hdr[a].sz, g.hdr[a].alloc = FALSE
               PROVE  g.hdr[n].palloc = FALSE
    BY DEF Told
  <2>1. Out(a) /\ n = a + h.hdr[a].sz /\ h.hdr[a].alloc = FALSE => h.hdr[n].palloc = FALSE
    BY <1>18 DEF Told
  <2>2. m < hi \/ al = FALSE => g.hdr[hi].palloc = FALSE
    BY <1>18 DEF Closed
  <2> QED
    BY <2>1, <2>2, <1>15
<1> QED
  BY <1>11, <1>12, <1>13, <1>14, <1>17, <1>18 DEF Layout

-----------------------------------------------------------------------------
(* Words and links.                                                          *)

Held(h) == Blocks(h) \ FreeBlocks(h)

\* The list is left as it is.
SameLinks(h, g) == g.nxt = h.nxt /\ g.prv = h.prv /\ g.cur = h.cur /\ g.wild = h.wild

\* The tags are left as they are.
SameWords(h, g) == Words(g) /\ g.hdr = h.hdr /\ g.foot = h.foot

\* A wild heap stays wild.
StaysWild(h, g) == g.wild = FALSE => h.wild = FALSE

\* The list operations do not write tags, whatever they find.
LEMMA InsWords ==
  ASSUME NEW h, Words(h), NEW p, NEW e, NEW g, g = l_ins(h, p, e)
  PROVE  SameWords(h, g) /\ StaysWild(h, g) /\ g.cur = h.cur
<1>1. DOMAIN h = Fields /\ h.wild \in BOOLEAN
  BY DEF Words
<1>2. CASE g = [h EXCEPT !.wild = TRUE]
  <2>1. DOMAIN g = Fields /\ g.hdr = h.hdr /\ g.foot = h.foot /\ g.wild = TRUE /\ g.cur = h.cur
    BY <1>1, <1>2 DEF Fields
  <2> QED
    BY <2>1, <1>1 DEF Words, SameWords, StaysWild
<1>3. CASE g # [h EXCEPT !.wild = TRUE]
  <2>1. PICK n : n = h.nxt[p]
    OBVIOUS
  <2>2. PICK h1 : h1 = [h EXCEPT !.nxt[e] = n, !.prv[e] = p]
    OBVIOUS
  <2>3. PICK h2 : h2 = [h1 EXCEPT !.nxt[p] = e]
    OBVIOUS
  <2>4. g = [h2 EXCEPT !.prv[n] = e]
    BY <1>3, <2>1, <2>2, <2>3 DEF l_ins
  <2>5. /\ DOMAIN h1 = Fields /\ h1.hdr = h.hdr /\ h1.foot = h.foot /\ h1.wild = h.wild
        /\ h1.cur = h.cur
    BY <1>1, <2>2 DEF Fields
  <2>6. /\ DOMAIN h2 = Fields /\ h2.hdr = h.hdr /\ h2.foot = h.foot /\ h2.wild = h.wild
        /\ h2.cur = h.cur
    BY <2>3, <2>5 DEF Fields
  <2>7. /\ DOMAIN g = Fields /\ g.hdr = h.hdr /\ g.foot = h.foot /\ g.wild = h.wild
        /\ g.cur = h.cur
    BY <2>4, <2>6 DEF Fields
  <2> QED
    BY <2>7 DEF Words, SameWords, StaysWild
<1> QED
  BY <1>2, <1>3

LEMMA RemWords ==
  ASSUME NEW h, Words(h), NEW e, NEW g, g = l_rem(h, e)
  PROVE  SameWords(h, g) /\ StaysWild(h, g) /\ g.cur = h.cur
<1>1. DOMAIN h = Fields /\ h.wild \in BOOLEAN
  BY DEF Words
<1>2. CASE g = [h EXCEPT !.wild = TRUE]
  <2>1. DOMAIN g = Fields /\ g.hdr = h.hdr /\ g.foot = h.foot /\ g.wild = TRUE /\ g.cur = h.cur
    BY <1>1, <1>2 DEF Fields
  <2> QED
    BY <2>1, <1>1 DEF Words, SameWords, StaysWild
<1>3. CASE g # [h EXCEPT !.wild = TRUE]
  <2>1. PICK n, p : n = h.nxt[e] /\ p = h.prv[e]
    OBVIOUS
  <2>2. PICK h1 : h1 = [h EXCEPT !.nxt[p] = n]
    OBVIOUS
  <2>3. PICK h2 : h2 = [h1 EXCEPT !.prv[n] = p]
    OBVIOUS
  <2>4. g = [h2 EXCEPT !.nxt[e] = e, !.prv[e] = e]
    BY <1>3, <2>1, <2>2, <2>3 DEF l_rem
  <2>5. /\ DOMAIN h1 = Fields /\ h1.hdr = h.hdr /\ h1.foot = h.foot /\ h1.wild = h.wild
        /\ h1.cur = h.cur
    BY <1>1, <2>2 DEF Fields
  <2>6. /\ DOMAIN h2 = Fields /\ h2.hdr = h.hdr /\ h2.foot = h.foot /\ h2.wild = h.wild
        /\ h2.cur = h.cur
    BY <2>3, <2>5 DEF Fields
  <2>7. /\ DOMAIN g = Fields /\ g.hdr = h.hdr /\ g.foot = h.foot /\ g.wild = h.wild
        /\ g.cur = h.cur
    BY <2>4, <2>6 DEF Fields
  <2> QED
    BY <2>7 DEF Words, SameWords, StaysWild
<1> QED
  BY <1>2, <1>3

\* A size word with another PREV_ALLOC_BIT, ALLOC_BIT or size.
LEMMA TagTyped ==
  ASSUME NEW len \in Nat, NEW x \in BOOLEAN, NEW y \in BOOLEAN
  PROVE  /\ Tag(len, x, y) \in HdrT
         /\ Tag(len, x, y).sz = len /\ Tag(len, x, y).alloc = x /\ Tag(len, x, y).palloc = y
  BY DEF HdrT, Tag

LEMMA WithPrev ==
  ASSUME NEW r \in HdrT, NEW x \in BOOLEAN
  PROVE  [r EXCEPT !.palloc = x] = Tag(r.sz, r.alloc, x) /\ Tag(r.sz, r.alloc, x) \in HdrT
  BY DEF HdrT, Tag

LEMMA WithAlloc ==
  ASSUME NEW r \in HdrT, NEW x \in BOOLEAN
  PROVE  [r EXCEPT !.alloc = x] = Tag(r.sz, x, r.palloc) /\ Tag(r.sz, x, r.palloc) \in HdrT
  BY DEF HdrT, Tag

LEMMA WithLen ==
  ASSUME NEW r \in HdrT, NEW len \in Nat
  PROVE  /\ [r EXCEPT !.sz = len] = Tag(len, r.alloc, r.palloc)
         /\ Tag(len, r.alloc, r.palloc) \in HdrT
  BY DEF HdrT, Tag

\* g is h with a block and its tags from a up to n.
Wrote(h, g, a, n, tag) ==
  /\ \A b \in Addr : g.hdr[b] = IF b = a THEN tag
                                ELSE IF a < b /\ b < n THEN Garbage ELSE h.hdr[b]
  /\ \A b \in Addr : g.foot[b] = IF b = n - 1 THEN n - a
                                 ELSE IF a <= b /\ b < n THEN 0 ELSE h.foot[b]

LEMMA SetFree ==
  ASSUME NEW h, Words(h), NEW a \in Addr, NEW len \in Nat, NEW tag \in HdrT,
         NEW g, g = set_free_mb(h, a, len, tag), NEW n \in Int, n = a + len
  PROVE  Words(g) /\ SameLinks(h, g) /\ Wrote(h, g, a, n, tag)
<1>1. DOMAIN h = Fields /\ h.hdr \in [Addr -> HdrT] /\ h.foot \in [Addr -> Nat] /\ h.wild \in BOOLEAN
  BY DEF Words
<1>2. /\ g.hdr = [b \in Addr |-> IF b = a THEN tag
                                 ELSE IF a < b /\ b < a + len THEN Garbage ELSE h.hdr[b]]
      /\ g.foot = [b \in Addr |-> IF b = a + len - 1 THEN len
                                  ELSE IF a <= b /\ b < a + len THEN 0 ELSE h.foot[b]]
      /\ g.nxt = h.nxt /\ g.prv = h.prv /\ g.cur = h.cur /\ g.wild = h.wild
      /\ DOMAIN g = Fields
  BY <1>1 DEF set_free_mb, Fields
<1>4. Garbage \in HdrT
  BY DEF Garbage, HdrT
<1>5. g.hdr \in [Addr -> HdrT] /\ g.foot \in [Addr -> Nat]
  BY <1>1, <1>2, <1>4
<1>6. Words(g)
  BY <1>1, <1>2, <1>5 DEF Words
<1>7. a \in Int /\ len = n - a /\ a + len - 1 = n - 1
  BY DEF Addr
<1>8. ASSUME NEW b \in Addr
      PROVE  /\ g.hdr[b] = IF b = a THEN tag
                           ELSE IF a < b /\ b < n THEN Garbage ELSE h.hdr[b]
             /\ g.foot[b] = IF b = n - 1 THEN n - a
                            ELSE IF a <= b /\ b < n THEN 0 ELSE h.foot[b]
  <2>1. /\ g.hdr[b] = IF b = a THEN tag
                      ELSE IF a < b /\ b < a + len THEN Garbage ELSE h.hdr[b]
        /\ g.foot[b] = IF b = a + len - 1 THEN len
                       ELSE IF a <= b /\ b < a + len THEN 0 ELSE h.foot[b]
    BY <1>2
  <2> QED
    BY <2>1, <1>7
<1>9. Wrote(h, g, a, n, tag)
  BY <1>8 DEF Wrote
<1> QED
  BY <1>2, <1>6, <1>9 DEF SameLinks

\* g is h with a block the caller holds from a up to n.
Allotted(h, g, a, n) ==
  /\ \A b \in Addr : g.hdr[b] = IF b = a THEN Tag(n - a, TRUE, h.hdr[a].palloc)
                                ELSE IF a < b /\ b < n THEN Garbage
                                ELSE IF b = n THEN Tag(h.hdr[b].sz, h.hdr[b].alloc, TRUE)
                                ELSE h.hdr[b]
  /\ \A b \in Addr : b < a \/ n <= b => g.foot[b] = h.foot[b]

\* The links in the units from a up to n are overwritten.
Unlinked(h, g, a, n) ==
  /\ g.nxt = [b \in Node |-> IF a <= b /\ b < n THEN Junk ELSE h.nxt[b]]
  /\ g.prv = [b \in Node |-> IF a <= b /\ b < n THEN Junk ELSE h.prv[b]]
  /\ g.cur = h.cur /\ g.wild = h.wild

LEMMA GiveIs ==
  ASSUME NEW h, Words(h), NEW a \in Addr, NEW len \in Nat,
         NEW g, g = give(h, a, len), NEW n \in Int, n = a + len
  PROVE  Words(g) /\ Allotted(h, g, a, n) /\ Unlinked(h, g, a, n)
<1>1. DOMAIN h = Fields /\ h.hdr \in [Addr -> HdrT] /\ h.foot \in [Addr -> Nat] /\ h.wild \in BOOLEAN
  BY DEF Words
<1>2. PICK h1 : h1 = set_alloc_mb(h, a, len)
  OBVIOUS
<1>3. /\ h1.hdr = [b \in Addr |-> IF b = a THEN Tag(len, TRUE, h.hdr[b].palloc)
                                  ELSE IF a < b /\ b < a + len THEN Garbage
                                  ELSE IF b = a + len THEN [h.hdr[b] EXCEPT !.palloc = TRUE]
                                  ELSE h.hdr[b]]
      /\ h1.foot = [b \in Addr |-> IF a <= b /\ b < a + len THEN 0 ELSE h.foot[b]]
      /\ h1.nxt = h.nxt /\ h1.prv = h.prv /\ h1.cur = h.cur /\ h1.wild = h.wild
      /\ DOMAIN h1 = Fields
  BY <1>1, <1>2 DEF set_alloc_mb, Fields
<1>4. g = [h1 EXCEPT !.nxt = [b \in Node |-> IF a <= b /\ b < a + len THEN Junk ELSE @[b]],
                     !.prv = [b \in Node |-> IF a <= b /\ b < a + len THEN Junk ELSE @[b]]]
  BY <1>2 DEF give
<1>5. /\ g.nxt = [b \in Node |-> IF a <= b /\ b < n THEN Junk ELSE h.nxt[b]]
      /\ g.prv = [b \in Node |-> IF a <= b /\ b < n THEN Junk ELSE h.prv[b]]
      /\ g.cur = h.cur /\ g.wild = h.wild /\ g.hdr = h1.hdr /\ g.foot = h1.foot
      /\ DOMAIN g = Fields
  <2>1. g.cur = h1.cur /\ g.wild = h1.wild /\ g.hdr = h1.hdr /\ g.foot = h1.foot
        /\ DOMAIN g = Fields
    BY <1>3, <1>4 DEF Fields
  <2>2. /\ g.nxt = [b \in Node |-> IF a <= b /\ b < a + len THEN Junk ELSE h1.nxt[b]]
        /\ g.prv = [b \in Node |-> IF a <= b /\ b < a + len THEN Junk ELSE h1.prv[b]]
    BY <1>3, <1>4 DEF Fields
  <2> QED
    BY <2>1, <2>2, <1>3
<1>6. Garbage \in HdrT
  BY DEF Garbage, HdrT
<1>7. \A b \in Addr : /\ [h.hdr[b] EXCEPT !.palloc = TRUE] = Tag(h.hdr[b].sz, h.hdr[b].alloc, TRUE)
                      /\ Tag(h.hdr[b].sz, h.hdr[b].alloc, TRUE) \in HdrT
                      /\ Tag(len, TRUE, h.hdr[b].palloc) \in HdrT
                      /\ h.hdr[b] \in HdrT
  <2>1. ASSUME NEW b \in Addr PROVE h.hdr[b] \in HdrT
    BY <1>1
  <2>2. ASSUME NEW b \in Addr
        PROVE  /\ [h.hdr[b] EXCEPT !.palloc = TRUE] = Tag(h.hdr[b].sz, h.hdr[b].alloc, TRUE)
               /\ Tag(h.hdr[b].sz, h.hdr[b].alloc, TRUE) \in HdrT
    BY <2>1, WithPrev
  <2>3. ASSUME NEW b \in Addr PROVE Tag(len, TRUE, h.hdr[b].palloc) \in HdrT
    BY <2>1 DEF HdrT, Tag
  <2> QED
    BY <2>1, <2>2, <2>3
<1>8. ASSUME NEW b \in Addr
      PROVE  /\ h1.hdr[b] = IF b = a THEN Tag(len, TRUE, h.hdr[a].palloc)
                            ELSE IF a < b /\ b < a + len THEN Garbage
                            ELSE IF b = a + len THEN Tag(h.hdr[b].sz, h.hdr[b].alloc, TRUE)
                            ELSE h.hdr[b]
             /\ h1.hdr[b] \in HdrT
  BY <1>3, <1>6, <1>7
<1>9. h1.hdr \in [Addr -> HdrT]
  <2>1. h1.hdr = [b \in Addr |-> h1.hdr[b]]
    BY <1>3
  <2> QED
    BY <2>1, <1>8
<1>10. h1.foot \in [Addr -> Nat]
  BY <1>1, <1>3
<1>11. Words(g)
  BY <1>1, <1>5, <1>9, <1>10 DEF Words
<1>12. len = n - a /\ a \in Int
  BY DEF Addr
<1>13. ASSUME NEW b \in Addr, b < a \/ n <= b PROVE g.foot[b] = h.foot[b]
  BY <1>1, <1>3, <1>5, <1>12, <1>13 DEF Addr
<1>14. ASSUME NEW b \in Addr
       PROVE  g.hdr[b] = IF b = a THEN Tag(n - a, TRUE, h.hdr[a].palloc)
                         ELSE IF a < b /\ b < n THEN Garbage
                         ELSE IF b = n THEN Tag(h.hdr[b].sz, h.hdr[b].alloc, TRUE)
                         ELSE h.hdr[b]
  <2>1. g.hdr[b] = h1.hdr[b]
    BY <1>5
  <2> QED
    BY <2>1, <1>8, <1>12
<1>15. Allotted(h, g, a, n)
  BY <1>13, <1>14 DEF Allotted
<1>16. Unlinked(h, g, a, n)
  BY <1>5 DEF Unlinked
<1> QED
  BY <1>11, <1>15, <1>16

WithTag(h, n, tag) == [h EXCEPT !.hdr[n] = tag]
PrevCleared(h, n) == [h EXCEPT !.hdr[n].palloc = FALSE]
WithSize(h, n, len) == [h EXCEPT !.hdr[n].sz = len]
WithCur(h, a) == [h EXCEPT !.cur = a]

\* g is h with another size word at n.
WroteTag(h, g, n, tag) == \A b \in Addr : g.hdr[b] = IF b = n THEN tag ELSE h.hdr[b]

\* Writing one size word.
LEMMA SetTag ==
  ASSUME NEW h, Words(h), NEW n \in Addr, NEW tag \in HdrT,
         NEW g, g = WithTag(h, n, tag)
  PROVE  Words(g) /\ SameLinks(h, g) /\ g.foot = h.foot /\ WroteTag(h, g, n, tag)
<1>1. DOMAIN h = Fields /\ h.hdr \in [Addr -> HdrT] /\ h.foot \in [Addr -> Nat] /\ h.wild \in BOOLEAN
  BY DEF Words
<1>2. /\ g.hdr = [h.hdr EXCEPT ![n] = tag] /\ g.foot = h.foot
      /\ g.nxt = h.nxt /\ g.prv = h.prv /\ g.cur = h.cur /\ g.wild = h.wild
      /\ DOMAIN g = Fields
  BY <1>1 DEF WithTag, Fields
<1>4. g.hdr \in [Addr -> HdrT]
  BY <1>1, <1>2
<1>5. Words(g)
  BY <1>1, <1>2, <1>4 DEF Words
<1>6. \A b \in Addr : g.hdr[b] = IF b = n THEN tag ELSE h.hdr[b]
  BY <1>1, <1>2
<1> QED
  BY <1>2, <1>5, <1>6 DEF SameLinks, WroteTag

\* PREV_ALLOC_BIT of the word at n is cleared.
LEMMA ClearPrev ==
  ASSUME NEW h, Words(h), NEW n \in Addr,
         NEW g, g = PrevCleared(h, n)
  PROVE  /\ Words(g) /\ SameLinks(h, g) /\ g.foot = h.foot
         /\ WroteTag(h, g, n, Tag(h.hdr[n].sz, h.hdr[n].alloc, FALSE))
<1>1. h.hdr[n] \in HdrT
  BY DEF Words
<1>2. PICK tag \in HdrT : /\ tag = Tag(h.hdr[n].sz, h.hdr[n].alloc, FALSE)
                          /\ tag = [h.hdr[n] EXCEPT !.palloc = FALSE]
  BY <1>1, WithPrev
<1>3. g = WithTag(h, n, tag)
  BY <1>2 DEF WithTag, PrevCleared
<1>4. Words(g) /\ SameLinks(h, g) /\ g.foot = h.foot /\ WroteTag(h, g, n, tag)
  BY <1>3, SetTag
<1> QED
  BY <1>2, <1>4

\* The block at n gets another size.
LEMMA SetSize ==
  ASSUME NEW h, Words(h), NEW n \in Addr, NEW len \in Nat,
         NEW g, g = WithSize(h, n, len)
  PROVE  /\ Words(g) /\ SameLinks(h, g) /\ g.foot = h.foot
         /\ WroteTag(h, g, n, Tag(len, h.hdr[n].alloc, h.hdr[n].palloc))
<1>1. h.hdr[n] \in HdrT
  BY DEF Words
<1>2. PICK tag \in HdrT : /\ tag = Tag(len, h.hdr[n].alloc, h.hdr[n].palloc)
                          /\ tag = [h.hdr[n] EXCEPT !.sz = len]
  BY <1>1, WithLen
<1>3. g = WithTag(h, n, tag)
  BY <1>2 DEF WithTag, WithSize
<1>4. Words(g) /\ SameLinks(h, g) /\ g.foot = h.foot /\ WroteTag(h, g, n, tag)
  BY <1>3, SetTag
<1> QED
  BY <1>2, <1>4

\* dm_current is moved.
LEMMA SetCur ==
  ASSUME NEW h, Words(h), NEW a, NEW g, g = WithCur(h, a)
  PROVE  /\ SameWords(h, g) /\ g.nxt = h.nxt /\ g.prv = h.prv /\ g.wild = h.wild /\ g.cur = a
<1>1. DOMAIN h = Fields
  BY DEF Words
<1>2. /\ DOMAIN g = Fields /\ g.hdr = h.hdr /\ g.foot = h.foot
      /\ g.nxt = h.nxt /\ g.prv = h.prv /\ g.wild = h.wild /\ g.cur = a
  BY <1>1 DEF WithCur, Fields
<1> QED
  BY <1>2 DEF Words, SameWords

-----------------------------------------------------------------------------
(* Sound heaps.                                                              *)

Sound(h, P) == Words(h) /\ Layout(h, P)

\* What a recut leaves free and what it leaves held.
FreeAfter(h, lo, m, hi, al) ==
  (FreeBlocks(h) \ (lo .. hi - 1)) \cup (IF m < hi THEN {m} ELSE IF al = TRUE THEN {} ELSE {lo})
HeldAfter(h, lo, hi, al) ==
  (Held(h) \ (lo .. hi - 1)) \cup (IF al = TRUE THEN {lo} ELSE {})

Accounts(h, g, lo, m, hi, al) ==
  /\ FreeBlocks(g) = FreeAfter(h, lo, m, hi, al)
  /\ Held(g) = HeldAfter(h, lo, hi, al)
  /\ \A b \in Held(g) : b # lo => g.hdr[b].sz = h.hdr[b].sz

LEMMA RecutFree ==
  ASSUME NEW h, Words(h), NEW g, Words(g), NEW P, Layout(h, P),
         NEW lo, NEW m \in Int, NEW hi, NEW al \in BOOLEAN, Region(h, P, lo, hi),
         lo < m, m <= hi, Recut(h, g, lo, m, hi, al)
  PROVE  Accounts(h, g, lo, m, hi, al)
<1>1. Leaves(h, g, lo, m, hi, al)
  BY RecutBlocks
<1>2. /\ lo \in Int /\ hi \in Int /\ lo < hi /\ lo \in Blocks(h)
      /\ Blocks(h) \subseteq Addr /\ Blocks(g) \subseteq Addr
      /\ FreeBlocks(h) \subseteq Blocks(h) /\ FreeBlocks(g) \subseteq Blocks(g)
      /\ Addr \subseteq Int
  <2>1. lo \in Blocks(h) /\ hi \in Addr /\ lo < hi
    BY DEF Region
  <2> QED
    BY <2>1 DEF Addr, Blocks, FreeBlocks
<1>3. \A b \in Addr : b \in lo .. hi - 1 <=> ~ (b < lo \/ hi <= b)
  BY <1>2
<1>4. \A b : b \in Blocks(g) <=> \/ b \in Blocks(h) /\ (b < lo \/ hi <= b)
                                 \/ b = lo
                                 \/ b = m /\ m < hi
  BY <1>1 DEF Leaves
<1>5. \A b : b \in FreeBlocks(g) <=> \/ b \in FreeBlocks(h) /\ (b < lo \/ hi <= b)
                                     \/ b = lo /\ al = FALSE
                                     \/ b = m /\ m < hi
  BY <1>1 DEF Leaves
<1>6. m < hi => al = TRUE
  BY DEF Recut
<1>7. FreeBlocks(g) = (FreeBlocks(h) \ (lo .. hi - 1))
                      \cup (IF m < hi THEN {m} ELSE IF al = TRUE THEN {} ELSE {lo})
  <2>1. ASSUME NEW b
        PROVE  b \in FreeBlocks(g) <=>
                 \/ b \in FreeBlocks(h) \ (lo .. hi - 1)
                 \/ b \in IF m < hi THEN {m} ELSE IF al = TRUE THEN {} ELSE {lo}
    <3>1. b \in FreeBlocks(h) => (b \in lo .. hi - 1 <=> ~ (b < lo \/ hi <= b))
      BY <1>2, <1>3
    <3>2. b \in FreeBlocks(g) <=> \/ b \in FreeBlocks(h) \ (lo .. hi - 1)
                                  \/ b = lo /\ al = FALSE
                                  \/ b = m /\ m < hi
      BY <3>1, <1>5
    <3>3. ((b = lo /\ al = FALSE) \/ (b = m /\ m < hi)) <=>
            b \in IF m < hi THEN {m} ELSE IF al = TRUE THEN {} ELSE {lo}
      BY <1>6
    <3> QED
      BY <3>2, <3>3
  <2> QED
    BY <2>1
<1>8. Held(g) = (Held(h) \ (lo .. hi - 1)) \cup (IF al = TRUE THEN {lo} ELSE {})
  <2>1. ASSUME NEW b
        PROVE  b \in Held(g) <=>
                 \/ b \in Held(h) \ (lo .. hi - 1)
                 \/ b \in IF al = TRUE THEN {lo} ELSE {}
    <3>1. CASE b = lo
      <4>1. b \in Blocks(g) /\ (b \in FreeBlocks(g) <=> al = FALSE) /\ b \in lo .. hi - 1
        BY <3>1, <1>2, <1>4, <1>5
      <4> QED
        BY <3>1, <4>1 DEF Held
    <3>2. CASE b = m /\ m < hi
      <4>1. b \in FreeBlocks(g) /\ b \in lo .. hi - 1 /\ b # lo
        BY <3>2, <1>2, <1>5
      <4> QED
        BY <4>1 DEF Held
    <3>3. CASE b # lo /\ ~ (b = m /\ m < hi)
      <4>1. b \in Blocks(h) => (b \in lo .. hi - 1 <=> ~ (b < lo \/ hi <= b))
        BY <1>2, <1>3
      <4>2. b \in Blocks(g) <=> b \in Blocks(h) /\ (b < lo \/ hi <= b)
        BY <3>3, <1>4
      <4>3. b \in FreeBlocks(g) <=> b \in FreeBlocks(h) /\ (b < lo \/ hi <= b)
        BY <3>3, <1>5
      <4> QED
        BY <3>3, <4>1, <4>2, <4>3, <1>2 DEF Held
    <3> QED
      BY <3>1, <3>2, <3>3
  <2> QED
    BY <2>1
<1>9. ASSUME NEW b \in Held(g), b # lo PROVE g.hdr[b].sz = h.hdr[b].sz
  <2>1. b \in Blocks(g) /\ b \notin FreeBlocks(g) /\ b \in Addr
    BY <1>2 DEF Held
  <2>2. b < lo \/ hi <= b
    BY <2>1, <1>4, <1>5, <1>9
  <2> QED
    BY <2>1, <2>2, <1>1 DEF Leaves
<1> QED
  BY <1>7, <1>8, <1>9 DEF Accounts, FreeAfter, HeldAfter

\* A recut leaves a sound heap.
LEMMA RecutSound ==
  ASSUME NEW h, NEW g, Words(g), NEW P, NEW e \in 1 .. MemLen + 1,
         PoolsApart(P, e), Sound(h, P),
         NEW lo, NEW m \in Int, NEW hi, NEW al \in BOOLEAN, Region(h, P, lo, hi),
         lo < m, m <= hi, Recut(h, g, lo, m, hi, al)
  PROVE  /\ Sound(g, P) /\ Accounts(h, g, lo, m, hi, al)
         /\ Told(h) /\ Closed(g, m, hi, al) => Told(g)
<1>1. Words(h) /\ Layout(h, P)
  BY DEF Sound
<1>2. Layout(g, P) /\ (Told(h) /\ Closed(g, m, hi, al) => Told(g))
  BY <1>1, RecutKeeps
<1>3. Accounts(h, g, lo, m, hi, al)
  BY <1>1, RecutFree
<1> QED
  BY <1>2, <1>3 DEF Sound

\* A block with the word at n behind it.
Bounds(h, a, n) ==
  /\ a \in Addr /\ a \in Int /\ h.hdr[a].sz \in Nat /\ h.hdr[a].sz > 0
  /\ h.hdr[a] \in HdrT /\ n \in Addr /\ n \in Int /\ a < n /\ h.hdr[a].sz = n - a
  /\ h.hdr[n] \in HdrT

LEMMA BlockIs ==
  ASSUME NEW h, NEW P, NEW e \in 1 .. MemLen + 1, PoolsApart(P, e), Sound(h, P),
         NEW a \in Blocks(h), NEW n, n = a + h.hdr[a].sz
  PROVE  Bounds(h, a, n) /\ Region(h, P, a, n)
<1>1. Words(h) /\ Layout(h, P)
  BY DEF Sound
<1>2. a \in Addr /\ h.hdr[a].sz > 0 /\ a \in Int
  BY DEF Blocks, Addr
<1>3. h.hdr[a] \in HdrT
  BY <1>1, <1>2 DEF Words
<1>4. h.hdr[a].sz \in Nat
  BY <1>3 DEF HdrT
<1>5. n \in Addr /\ a < n
  BY <1>1, NextOf
<1>6. n \in Int
  BY <1>5 DEF Addr
<1>7. h.hdr[n] \in HdrT
  BY <1>1, <1>5 DEF Words
<1>8. Region(h, P, a, n)
  BY <1>1, RegionOne
<1>9. h.hdr[a].sz = n - a
  BY <1>2, <1>4, <1>6
<1> QED
  BY <1>2, <1>3, <1>4, <1>5, <1>6, <1>7, <1>8, <1>9 DEF Bounds

\* The free block before a block, read from its tags.
LEMMA PrevFree ==
  ASSUME NEW h, NEW P, NEW e \in 1 .. MemLen + 1, PoolsApart(P, e), Sound(h, P),
         NEW n \in Blocks(h), h.hdr[n].palloc = FALSE
  PROVE  /\ n - h.foot[n - 1] \in FreeBlocks(h)
         /\ h.hdr[n - h.foot[n - 1]].sz = h.foot[n - 1]
<1>1. Words(h) /\ Layout(h, P)
  BY DEF Sound
<1>2. n \in Addr /\ h.hdr[n].sz \in Nat /\ h.hdr[n].sz > 0 /\ n \in Int
  BY BlockIs DEF Bounds
<1>3. PICK p \in P : p.start <= n /\ n + h.hdr[n].sz <= PoolEnd(p)
  BY <1>1 DEF Layout, Placed
<1>4. n # p.start
  BY <1>1 DEF Layout, Ended
<1>5. p.start \in Nat /\ p.ulen \in Nat /\ PoolHdr < p.start /\ PoolHdr \in Nat
  BY BlockAssumption DEF PoolsApart
<1>6. p.start < n /\ n <= PoolEnd(p)
  BY <1>2, <1>3, <1>4, <1>5 DEF PoolEnd
<1>7. PICK c \in Blocks(h) : c + h.hdr[c].sz = n
  BY <1>1, <1>2, <1>6, PrevOf
<1>8. c \in Int /\ h.hdr[c].sz \in Nat /\ h.hdr[c].alloc \in BOOLEAN
  <2>1. c \in Addr /\ c \in Int
    BY DEF Blocks, Addr
  <2>2. h.hdr[c] \in HdrT
    BY <1>1, <2>1 DEF Words
  <2> QED
    BY <2>1, <2>2 DEF HdrT
<1>9. h.hdr[c].alloc = FALSE /\ h.foot[c + h.hdr[c].sz - 1] = h.hdr[c].sz
  BY <1>1, <1>7 DEF Layout, Tags
<1>10. c + h.hdr[c].sz - 1 = n - 1
  BY <1>2, <1>7, <1>8
<1>11. h.foot[n - 1] = h.hdr[c].sz
  BY <1>9, <1>10
<1>12. c = n - h.foot[n - 1] /\ c \in FreeBlocks(h)
  BY <1>2, <1>7, <1>8, <1>9, <1>11 DEF FreeBlocks
<1> QED
  BY <1>11, <1>12

\* A free block behind a block is a block.
LEMMA NextFree ==
  ASSUME NEW h, NEW P, NEW e \in 1 .. MemLen + 1, PoolsApart(P, e), Sound(h, P),
         NEW mb \in Blocks(h), NEW n, n = mb + h.hdr[mb].sz, ~ h.hdr[n].alloc
  PROVE  n \in FreeBlocks(h) /\ n \in Blocks(h)
<1>1. Words(h) /\ Layout(h, P)
  BY DEF Sound
<1>2. n \in Blocks(h) \/ \E p \in P : n = PoolEnd(p)
  BY <1>1, NextOf
<1>3. \A p \in P : n # PoolEnd(p)
  BY <1>1 DEF Layout, Ended
<1> QED
  BY <1>2, <1>3 DEF FreeBlocks

\* No block starts inside of another.
LEMMA NoneWithin ==
  ASSUME NEW h, NEW P, NEW e \in 1 .. MemLen + 1, PoolsApart(P, e), Sound(h, P),
         NEW a \in Blocks(h), NEW hi, hi = a + h.hdr[a].sz,
         NEW b \in Blocks(h), b # a
  PROVE  b \notin a .. hi - 1 /\ b \in Int /\ (b < a \/ hi <= b)
<1>1. Words(h) /\ Layout(h, P)
  BY DEF Sound
<1>2. Bounds(h, a, hi)
  BY BlockIs
<1>3. a \in Int /\ hi \in Int /\ b \in Int
  BY <1>2 DEF Bounds, Blocks, Addr
<1>4. a < b => hi <= b
  BY <1>1 DEF Layout, Apart
<1> QED
  BY <1>3, <1>4

-----------------------------------------------------------------------------
(* Blocks given out.                                                         *)

\* h1 is h with the units from lo up to hi ready to be given out up to m: behind
\* it is a free block.
Opened(h, h1, lo, m, hi) ==
  /\ Words(h1)
  /\ \A b \in Addr : b < lo \/ hi <= b => h1.hdr[b] = h.hdr[b] /\ h1.foot[b] = h.foot[b]
  /\ h1.hdr[lo].palloc = h.hdr[lo].palloc
  /\ m < hi => h1.hdr[m].sz = hi - m /\ h1.hdr[m].alloc = FALSE /\ h1.foot[hi - 1] = hi - m
  /\ \A b \in Addr : m < b /\ b < hi => h1.hdr[b].sz = 0

\* g is h with the units from lo up to hi given out up to m.
Given(h, g, P, lo, m, hi) ==
  /\ Sound(g, P) /\ Accounts(h, g, lo, m, hi, TRUE)
  /\ Told(h) => Told(g)

LEMMA TakeIs ==
  ASSUME NEW h, NEW P, NEW e \in 1 .. MemLen + 1, PoolsApart(P, e), Sound(h, P),
         NEW lo, NEW m \in Int, NEW hi, Region(h, P, lo, hi), lo < m, m <= hi,
         NEW h1, Opened(h, h1, lo, m, hi),
         Told(h) /\ m < hi => h.hdr[hi].palloc = FALSE,
         NEW len \in Nat, lo + len = m, NEW g, Words(g), Allotted(h1, g, lo, m)
  PROVE  Given(h, g, P, lo, m, hi)
<1>1. Words(h) /\ Layout(h, P)
  BY DEF Sound
<1>2. lo \in Blocks(h) /\ lo \in Addr /\ hi \in Addr /\ lo < hi
  BY DEF Region, Blocks
<1>3. lo \in Int /\ hi \in Int /\ Addr \subseteq Int
  BY <1>2 DEF Addr
<1>4. m \in Addr
  BY <1>2, <1>3, BlockAssumption DEF Addr
<1>5. /\ Words(h1)
      /\ \A b \in Addr : b < lo \/ hi <= b => h1.hdr[b] = h.hdr[b] /\ h1.foot[b] = h.foot[b]
      /\ h1.hdr[lo].palloc = h.hdr[lo].palloc
      /\ m < hi => h1.hdr[m].sz = hi - m /\ h1.hdr[m].alloc = FALSE /\ h1.foot[hi - 1] = hi - m
      /\ \A b \in Addr : m < b /\ b < hi => h1.hdr[b].sz = 0
  BY DEF Opened
<1>7. /\ \A b \in Addr : g.hdr[b] = IF b = lo THEN Tag(m - lo, TRUE, h1.hdr[lo].palloc)
                                    ELSE IF lo < b /\ b < m THEN Garbage
                                    ELSE IF b = m THEN Tag(h1.hdr[b].sz, h1.hdr[b].alloc, TRUE)
                                    ELSE h1.hdr[b]
      /\ \A b \in Addr : b < lo \/ m <= b => g.foot[b] = h1.foot[b]
  BY DEF Allotted
<1>8. g.hdr[lo] = Tag(m - lo, TRUE, h1.hdr[lo].palloc)
  BY <1>2, <1>7
<1>9. g.hdr[m] = Tag(h1.hdr[m].sz, h1.hdr[m].alloc, TRUE)
  <2>1. m # lo /\ ~ (lo < m /\ m < m)
    BY <1>3
  <2> QED
    BY <2>1, <1>4, <1>7
<1>10. ASSUME NEW b \in Addr, b < lo \/ m < b PROVE g.hdr[b] = h1.hdr[b]
  <2>1. b # lo /\ ~ (lo < b /\ b < m) /\ b # m
    BY <1>3, <1>10
  <2> QED
    BY <2>1, <1>7
<1>12. m < hi => g.hdr[hi].palloc = h.hdr[hi].palloc
  <2>1. SUFFICES ASSUME m < hi PROVE g.hdr[hi].palloc = h.hdr[hi].palloc
    OBVIOUS
  <2>2. g.hdr[hi] = h1.hdr[hi]
    BY <2>1, <1>2, <1>10
  <2> QED
    BY <2>2, <1>2, <1>3, <1>5
<1>11. Recut(h, g, lo, m, hi, TRUE)
  <2>1. ASSUME NEW b \in Addr, b < lo \/ hi < b PROVE g.hdr[b] = h.hdr[b]
    <3>1. (b < lo \/ m < b) /\ (b < lo \/ hi <= b)
      BY <2>1, <1>3
    <3> QED
      BY <3>1, <1>5, <1>10
  <2>2. ASSUME NEW b \in Addr, b < lo \/ hi <= b PROVE g.foot[b] = h.foot[b]
    <3>1. b < lo \/ m <= b
      BY <2>2, <1>3
    <3> QED
      BY <3>1, <2>2, <1>5, <1>7
  <2>3. g.hdr[lo].sz = m - lo /\ g.hdr[lo].alloc = TRUE /\ g.hdr[lo].palloc = h.hdr[lo].palloc
    <3>1. g.hdr[lo].sz = m - lo /\ g.hdr[lo].alloc = TRUE /\ g.hdr[lo].palloc = h1.hdr[lo].palloc
      BY <1>8 DEF Tag
    <3> QED
      BY <3>1, <1>5
  <2>4. g.hdr[m].sz = h1.hdr[m].sz /\ g.hdr[m].alloc = h1.hdr[m].alloc /\ g.hdr[m].palloc = TRUE
    BY <1>9 DEF Tag
  <2>5. ASSUME NEW b \in Addr, lo < b /\ b < hi /\ b # m PROVE g.hdr[b].sz = 0
    <3>1. CASE b < m
      <4>1. b # lo
        BY <2>5, <1>3
      <4>2. g.hdr[b] = Garbage
        BY <4>1, <3>1, <2>5, <1>7
      <4> QED
        BY <4>2 DEF Garbage
    <3>2. CASE m < b
      <4>1. g.hdr[b] = h1.hdr[b]
        BY <3>2, <1>10
      <4> QED
        BY <4>1, <3>2, <2>5, <1>5
    <3> QED
      BY <3>1, <3>2, <2>5, <1>3
  <2>6. g.hdr[hi].sz = h.hdr[hi].sz /\ g.hdr[hi].alloc = h.hdr[hi].alloc
    <3>1. h1.hdr[hi] = h.hdr[hi]
      BY <1>2, <1>3, <1>5
    <3>2. CASE m = hi
      BY <3>1, <3>2, <2>4
    <3>3. CASE m < hi
      BY <3>1, <3>3, <1>2, <1>10
    <3> QED
      BY <3>2, <3>3, <1>3
  <2>7. g.hdr[hi].palloc = FALSE => m < hi
    <3>1. CASE m = hi
      <4>1. g.hdr[hi].palloc = TRUE
        BY <3>1, <2>4
      <4> QED
        BY <4>1
    <3> QED
      <4>1. m = hi \/ m < hi
        BY <1>3
      <4> QED
        BY <3>1, <4>1
  <2>8. m < hi => g.foot[hi - 1] = hi - m
    <3>1. SUFFICES ASSUME m < hi PROVE g.foot[hi - 1] = hi - m
      OBVIOUS
    <3>2. hi - 1 \in Addr /\ m <= hi - 1
      BY <3>1, <1>2, <1>3, <1>4, BlockAssumption DEF Addr
    <3> QED
      BY <3>1, <3>2, <1>5, <1>7
  <2>9. m < hi => g.hdr[m].sz = hi - m /\ g.hdr[m].alloc = FALSE /\ g.hdr[m].palloc = TRUE
    BY <2>4, <1>5
  <2> QED
    BY <2>1, <2>2, <2>3, <2>5, <2>6, <2>7, <2>8, <2>9 DEF Recut
<1>13. PICK al \in BOOLEAN : al = TRUE
  OBVIOUS
<1>14. /\ Sound(g, P) /\ Accounts(h, g, lo, m, hi, al)
       /\ Told(h) /\ Closed(g, m, hi, al) => Told(g)
  <2>1. Recut(h, g, lo, m, hi, al)
    BY <1>11, <1>13
  <2> QED
    BY <2>1, RecutSound
<1>15. Told(h) => Closed(g, m, hi, al)
  BY <1>12, <1>13 DEF Closed
<1> QED
  BY <1>13, <1>14, <1>15 DEF Given

\* g is h with the free block from a up to hi split at m.
Splitted(h, g, a, m, hi) ==
  /\ Words(g)
  /\ \A b \in Addr : b < a \/ hi <= b => g.hdr[b] = h.hdr[b] /\ g.foot[b] = h.foot[b]
  /\ g.hdr[a].sz = m - a /\ g.hdr[a].palloc = h.hdr[a].palloc
  /\ g.hdr[m].sz = hi - m /\ g.hdr[m].alloc = FALSE /\ g.foot[hi - 1] = hi - m
  /\ \A b \in Addr : m < b /\ b < hi => g.hdr[b].sz = 0

LEMMA SplitIs ==
  ASSUME NEW h, NEW P, NEW e \in 1 .. MemLen + 1, PoolsApart(P, e), Sound(h, P),
         NEW a \in FreeBlocks(h), NEW hi, hi = a + h.hdr[a].sz,
         NEW m \in Int, a < m, m < hi, NEW amt \in Nat, amt >= MinNU, a + amt = m,
         NEW g, g = split_block(h, a, amt)
  PROVE  /\ Splitted(h, g, a, m, hi) /\ StaysWild(h, g) /\ g.cur = h.cur
         /\ \E x, y : Words(x) /\ SameLinks(h, x) /\ y = l_ins(x, a, m) /\ SameLinks(y, g)
<1>1. Words(h) /\ a \in Blocks(h) /\ ~ h.hdr[a].alloc
  BY DEF Sound, FreeBlocks
<1>2. Bounds(h, a, hi)
  BY <1>1, BlockIs
<1>3. /\ a \in Addr /\ hi \in Addr /\ h.hdr[a].sz \in Nat /\ h.hdr[a].sz > 0
      /\ h.hdr[a].sz = hi - a /\ h.hdr[a] \in HdrT /\ a \in Int /\ hi \in Int
  BY <1>2 DEF Bounds
<1>4. Addr \subseteq Int /\ m \in Addr
  BY <1>3, BlockAssumption DEF Addr
<1>5. PICK t \in HdrT : t = h.hdr[a]
  BY <1>3
<1>6. t.sz \in Nat /\ t.alloc = FALSE /\ t.sz = hi - a
  BY <1>1, <1>3, <1>5 DEF HdrT
<1>7. PICK rest \in Nat : rest = t.sz - amt /\ m + rest = hi /\ rest = hi - m
  BY <1>3, <1>4, <1>6
<1>8. PICK tagm \in HdrT : tagm = [t EXCEPT !.sz = rest] /\ tagm = Tag(rest, t.alloc, t.palloc)
  BY WithLen
<1>9. PICK taga \in HdrT : taga = [t EXCEPT !.sz = amt] /\ taga = Tag(amt, t.alloc, t.palloc)
  BY WithLen
<1>10. PICK h1 : h1 = set_free_mb(h, m, rest, tagm)
  OBVIOUS
<1>11. PICK h2 : h2 = l_ins(h1, a, m)
  OBVIOUS
<1>12. PICK h3 : h3 = set_free_mb(h2, a, amt, taga)
  OBVIOUS
<1>13. g = h3
  <2>1. ~ (amt < MinNU)
    BY BlockAssumption
  <2> QED
    BY <2>1, <1>4, <1>5, <1>7, <1>8, <1>9, <1>10, <1>11, <1>12 DEF split_block
<1>14. Words(h1) /\ SameLinks(h, h1) /\ Wrote(h, h1, m, hi, tagm)
  BY <1>1, <1>3, <1>4, <1>7, <1>10, SetFree
<1>15. SameWords(h1, h2) /\ StaysWild(h1, h2) /\ h2.cur = h1.cur
  BY <1>11, <1>14, InsWords
<1>16. Words(h2) /\ h2.hdr = h1.hdr /\ h2.foot = h1.foot
  BY <1>15 DEF SameWords
<1>17. Words(h3) /\ SameLinks(h2, h3) /\ Wrote(h2, h3, a, m, taga)
  BY <1>3, <1>12, <1>16, SetFree
<1>21. ASSUME NEW b \in Addr, b < a \/ hi <= b
       PROVE  h3.hdr[b] = h.hdr[b] /\ h3.foot[b] = h.foot[b]
  <2>1. b # a /\ ~ (a < b /\ b < m) /\ b # m - 1 /\ ~ (a <= b /\ b < m)
        /\ b # m /\ ~ (m < b /\ b < hi) /\ b # hi - 1 /\ ~ (m <= b /\ b < hi)
    BY <1>3, <1>4, <1>21
  <2>2. h3.hdr[b] = h2.hdr[b] /\ h3.foot[b] = h2.foot[b]
    BY <2>1, <1>17 DEF Wrote
  <2>3. h1.hdr[b] = h.hdr[b] /\ h1.foot[b] = h.foot[b]
    BY <2>1, <1>14 DEF Wrote
  <2> QED
    BY <2>2, <2>3, <1>16
<1>22. h3.hdr[a] = taga
  BY <1>3, <1>17 DEF Wrote
<1>23. ASSUME NEW b \in Addr, m <= b /\ b < hi
       PROVE  h3.hdr[b] = h1.hdr[b] /\ h3.foot[b] = h1.foot[b]
  <2>1. b # a /\ ~ (a < b /\ b < m) /\ b # m - 1 /\ ~ (a <= b /\ b < m)
    BY <1>3, <1>4, <1>23
  <2>2. h3.hdr[b] = h2.hdr[b] /\ h3.foot[b] = h2.foot[b]
    BY <2>1, <1>17 DEF Wrote
  <2> QED
    BY <2>2, <1>16
<1>24. h3.hdr[m] = tagm
  <2>1. m <= m
    BY <1>4
  <2>2. h1.hdr[m] = tagm
    BY <1>4, <1>14 DEF Wrote
  <2> QED
    BY <2>1, <2>2, <1>4, <1>23
<1>25. h3.foot[hi - 1] = hi - m
  <2>1. hi - 1 \in Addr /\ m <= hi - 1 /\ hi - 1 < hi
    BY <1>3, <1>4, BlockAssumption DEF Addr
  <2>2. h1.foot[hi - 1] = hi - m
    BY <2>1, <1>14 DEF Wrote
  <2> QED
    BY <2>1, <2>2, <1>23
<1>26. ASSUME NEW b \in Addr, m < b /\ b < hi PROVE h3.hdr[b].sz = 0
  <2>1. m <= b /\ b # m
    BY <1>3, <1>4, <1>26
  <2>2. h1.hdr[b] = Garbage
    BY <2>1, <1>26, <1>14 DEF Wrote
  <2>3. h3.hdr[b] = Garbage
    BY <2>1, <2>2, <1>26, <1>23
  <2> QED
    BY <2>3 DEF Garbage
<1>27. h3.hdr[m].sz = hi - m /\ h3.hdr[m].alloc = FALSE
  BY <1>6, <1>7, <1>8, <1>24 DEF Tag
<1>28. h3.hdr[a].sz = m - a /\ h3.hdr[a].palloc = h.hdr[a].palloc
  <2>1. amt = m - a
    BY <1>3
  <2>2. h3.hdr[a].sz = amt /\ h3.hdr[a].palloc = t.palloc
    BY <1>9, <1>22 DEF Tag
  <2> QED
    BY <2>1, <2>2, <1>5
<1>29. Splitted(h, g, a, m, hi)
  BY <1>13, <1>17, <1>21, <1>25, <1>26, <1>27, <1>28 DEF Splitted
<1>30. StaysWild(h, g) /\ g.cur = h.cur
  BY <1>13, <1>14, <1>15, <1>17 DEF StaysWild, SameLinks
<1> QED
  BY <1>11, <1>13, <1>14, <1>17, <1>29, <1>30

-----------------------------------------------------------------------------
(* The list of free blocks.                                                  *)

\* The links of the nodes F are those of circular lists, the head on one of them.
Circles(h, F) ==
  /\ Head \in F /\ F \subseteq Node
  /\ h.nxt \in [Node -> Int] /\ h.prv \in [Node -> Int]
  /\ \A a \in F : h.nxt[a] \in F /\ h.prv[h.nxt[a]] = a
  /\ \A a \in F : h.prv[a] \in F /\ h.nxt[h.prv[a]] = a

\* The links of the other nodes are left as they are.
Besides(h, g, F) ==
  \A b \in Node : b \notin F => g.nxt[b] = h.nxt[b] /\ g.prv[b] = h.prv[b]

LEMMA SameCircles ==
  ASSUME NEW h, NEW g, NEW F, Circles(h, F), g.nxt = h.nxt, g.prv = h.prv
  PROVE  Circles(g, F)
BY DEF Circles

\* g is h with e linked in between p and n.
Between(h, g, p, e, n) ==
  /\ g.nxt \in [Node -> Int] /\ g.prv \in [Node -> Int]
  /\ g.nxt[e] = n /\ g.nxt[p] = e /\ g.prv[e] = p /\ g.prv[n] = e
  /\ \A a \in Node : a # e /\ a # p => g.nxt[a] = h.nxt[a]
  /\ \A a \in Node : a # e /\ a # n => g.prv[a] = h.prv[a]

LEMMA InsLinks ==
  ASSUME NEW h, Words(h), NEW F, Circles(h, F), NEW p \in F, NEW e \in Node, e \notin F,
         NEW g, g = l_ins(h, p, e), g.wild = FALSE, NEW n, n = h.nxt[p]
  PROVE  n \in F /\ Between(h, g, p, e, n)
<1>1. DOMAIN h = Fields
  BY DEF Words
<1>2. /\ F \subseteq Node /\ n \in F /\ n \in Node /\ p \in Node /\ n \in Int /\ p \in Int /\ e \in Int
      /\ h.nxt \in [Node -> Int] /\ h.prv \in [Node -> Int] /\ p # e /\ n # e
  <2>1. /\ F \subseteq Node /\ n \in F
        /\ h.nxt \in [Node -> Int] /\ h.prv \in [Node -> Int]
    BY DEF Circles
  <2>2. Node \subseteq Int
    BY DEF Node
  <2> QED
    BY <2>1, <2>2
<1>3. g # [h EXCEPT !.wild = TRUE]
  <2>1. [h EXCEPT !.wild = TRUE].wild = TRUE
    BY <1>1 DEF Fields
  <2> QED
    BY <2>1
<1>4. PICK h1 : h1 = [h EXCEPT !.nxt[e] = n, !.prv[e] = p]
  OBVIOUS
<1>5. PICK h2 : h2 = [h1 EXCEPT !.nxt[p] = e]
  OBVIOUS
<1>6. g = [h2 EXCEPT !.prv[n] = e]
  BY <1>3, <1>4, <1>5 DEF l_ins
<1>7. DOMAIN h1 = Fields /\ h1.nxt = [h.nxt EXCEPT ![e] = n] /\ h1.prv = [h.prv EXCEPT ![e] = p]
  BY <1>1, <1>4 DEF Fields
<1>8. DOMAIN h2 = Fields /\ h2.nxt = [h1.nxt EXCEPT ![p] = e] /\ h2.prv = h1.prv
  BY <1>5, <1>7 DEF Fields
<1>9. g.nxt = h2.nxt /\ g.prv = [h2.prv EXCEPT ![n] = e]
  BY <1>6, <1>8 DEF Fields
<1>10. /\ h1.nxt \in [Node -> Int] /\ h1.nxt[e] = n
       /\ \A a \in Node : a # e => h1.nxt[a] = h.nxt[a]
  BY <1>2, <1>7
<1>11. /\ g.nxt \in [Node -> Int] /\ g.nxt[p] = e /\ g.nxt[e] = n
       /\ \A a \in Node : a # e /\ a # p => g.nxt[a] = h.nxt[a]
  BY <1>2, <1>8, <1>9, <1>10
<1>12. /\ h1.prv \in [Node -> Int] /\ h1.prv[e] = p
       /\ \A a \in Node : a # e => h1.prv[a] = h.prv[a]
  BY <1>2, <1>7
<1>13. /\ g.prv \in [Node -> Int] /\ g.prv[n] = e /\ g.prv[e] = p
       /\ \A a \in Node : a # e /\ a # n => g.prv[a] = h.prv[a]
  BY <1>2, <1>8, <1>9, <1>12
<1> QED
  BY <1>2, <1>11, <1>13 DEF Between

\* e has been inserted behind p, or made a circle of its own, and e has been removed.
Inserted(h, g, F, p, e) ==
  Circles(g, F \cup {e}) /\ g.nxt[p] = e /\ Besides(h, g, F \cup {e})
Removed(h, g, F, e) ==
  Circles(g, F \ {e}) /\ Besides(h, g, F) /\ g.nxt[e] = e /\ g.prv[e] = e

\* l_ins keeps the circles.
LEMMA CirclesIns ==
  ASSUME NEW h, Words(h), NEW F, Circles(h, F), NEW p \in F, NEW e \in Node, e \notin F,
         NEW g, g = l_ins(h, p, e), g.wild = FALSE
  PROVE  Inserted(h, g, F, p, e)
<1>1. PICK n : n = h.nxt[p]
  OBVIOUS
<1>2. n \in F /\ Between(h, g, p, e, n)
  BY <1>1, InsLinks
<1>3. /\ g.nxt \in [Node -> Int] /\ g.prv \in [Node -> Int]
      /\ g.nxt[e] = n /\ g.nxt[p] = e /\ g.prv[e] = p /\ g.prv[n] = e
      /\ \A a \in Node : a # e /\ a # p => g.nxt[a] = h.nxt[a]
      /\ \A a \in Node : a # e /\ a # n => g.prv[a] = h.prv[a]
  BY <1>2 DEF Between
<1>4. /\ Head \in F /\ F \subseteq Node /\ p # e /\ n # e
      /\ \A a \in F : h.nxt[a] \in F /\ h.prv[h.nxt[a]] = a
      /\ \A a \in F : h.prv[a] \in F /\ h.nxt[h.prv[a]] = a
  BY <1>2 DEF Circles
<1>5. ASSUME NEW a \in F \cup {e} PROVE g.nxt[a] \in F \cup {e} /\ g.prv[g.nxt[a]] = a
  <2>1. CASE a = e
    BY <2>1, <1>2, <1>3
  <2>2. CASE a = p
    BY <2>2, <1>3
  <2>3. CASE a # e /\ a # p
    <3>1. a \in F /\ g.nxt[a] = h.nxt[a] /\ h.nxt[a] \in F /\ h.prv[h.nxt[a]] = a
      BY <2>3, <1>3, <1>4, <1>5
    <3>2. h.nxt[a] # n
      BY <3>1, <2>3, <1>1, <1>4
    <3>3. g.prv[h.nxt[a]] = h.prv[h.nxt[a]]
      BY <3>1, <3>2, <1>3, <1>4
    <3> QED
      BY <3>1, <3>3
  <2> QED
    BY <2>1, <2>2, <2>3
<1>6. ASSUME NEW a \in F \cup {e} PROVE g.prv[a] \in F \cup {e} /\ g.nxt[g.prv[a]] = a
  <2>1. CASE a = e
    BY <2>1, <1>3
  <2>2. CASE a = n
    BY <2>2, <1>3
  <2>3. CASE a # e /\ a # n
    <3>1. a \in F /\ g.prv[a] = h.prv[a] /\ h.prv[a] \in F /\ h.nxt[h.prv[a]] = a
      BY <2>3, <1>3, <1>4, <1>6
    <3>2. h.prv[a] # p
      BY <3>1, <2>3, <1>1
    <3>3. g.nxt[h.prv[a]] = h.nxt[h.prv[a]]
      BY <3>1, <3>2, <1>3, <1>4
    <3> QED
      BY <3>1, <3>3
  <2> QED
    BY <2>1, <2>2, <2>3
<1>8. Head \in F \cup {e} /\ F \cup {e} \subseteq Node
  BY <1>4
<1>9. Circles(g, F \cup {e})
  BY <1>3, <1>5, <1>6, <1>8 DEF Circles
<1>10. Besides(h, g, F \cup {e})
  BY <1>2, <1>3, <1>4 DEF Besides
<1> QED
  BY <1>3, <1>9, <1>10 DEF Inserted

\* A node whose links are its own makes a circle of itself.
LEMMA CirclesSelf ==
  ASSUME NEW h, Words(h), NEW F, Circles(h, F), NEW e \in Node, e \notin F,
         h.nxt[e] = e, h.prv[e] = e,
         NEW g, g = l_ins(h, e, e), g.wild = FALSE
  PROVE  Inserted(h, g, F, e, e)
<1>1. DOMAIN h = Fields
  BY DEF Words
<1>2. h.nxt \in [Node -> Int] /\ h.prv \in [Node -> Int] /\ e \in Int
  BY DEF Circles, Node
<1>3. g # [h EXCEPT !.wild = TRUE]
  <2>1. [h EXCEPT !.wild = TRUE].wild = TRUE
    BY <1>1 DEF Fields
  <2> QED
    BY <2>1
<1>4. PICK h1 : h1 = [h EXCEPT !.nxt[e] = e, !.prv[e] = e]
  OBVIOUS
<1>5. PICK h2 : h2 = [h1 EXCEPT !.nxt[e] = e]
  OBVIOUS
<1>6. g = [h2 EXCEPT !.prv[e] = e]
  BY <1>3, <1>4, <1>5 DEF l_ins
<1>7. DOMAIN h1 = Fields /\ h1.nxt = h.nxt /\ h1.prv = h.prv
  <2>1. /\ DOMAIN h1 = Fields
        /\ h1.nxt = [h.nxt EXCEPT ![e] = e] /\ h1.prv = [h.prv EXCEPT ![e] = e]
    BY <1>1, <1>4 DEF Fields
  <2> QED
    BY <2>1, <1>2
<1>8. DOMAIN h2 = Fields /\ h2.nxt = h.nxt /\ h2.prv = h.prv
  <2>1. DOMAIN h2 = Fields /\ h2.nxt = [h1.nxt EXCEPT ![e] = e] /\ h2.prv = h1.prv
    BY <1>5, <1>7 DEF Fields
  <2> QED
    BY <2>1, <1>2, <1>7
<1>9. g.nxt = h.nxt /\ g.prv = h.prv
  <2>1. g.nxt = h2.nxt /\ g.prv = [h2.prv EXCEPT ![e] = e]
    BY <1>6, <1>8 DEF Fields
  <2> QED
    BY <2>1, <1>2, <1>8
<1> QED
  BY <1>9 DEF Circles, Besides, Inserted

\* g is h without e, which p and n were next to; e is linked to itself.
Bypassed(h, g, p, e, n) ==
  /\ g.nxt \in [Node -> Int] /\ g.prv \in [Node -> Int]
  /\ g.nxt[e] = e /\ g.prv[e] = e
  /\ \A a \in Node : a # e => g.nxt[a] = IF a = p THEN n ELSE h.nxt[a]
  /\ \A a \in Node : a # e => g.prv[a] = IF a = n THEN p ELSE h.prv[a]

LEMMA RemLinks ==
  ASSUME NEW h, Words(h), NEW F, Circles(h, F), NEW e \in F,
         NEW g, g = l_rem(h, e), g.wild = FALSE, NEW n, n = h.nxt[e], NEW p, p = h.prv[e]
  PROVE  n \in F /\ p \in F /\ Bypassed(h, g, p, e, n)
<1>1. DOMAIN h = Fields
  BY DEF Words
<1>3. /\ F \subseteq Node /\ n \in F /\ p \in F /\ n \in Node /\ p \in Node /\ e \in Node
      /\ n \in Int /\ p \in Int /\ e \in Int
      /\ h.nxt \in [Node -> Int] /\ h.prv \in [Node -> Int]
  <2>1. /\ F \subseteq Node /\ n \in F /\ p \in F
        /\ h.nxt \in [Node -> Int] /\ h.prv \in [Node -> Int]
    BY DEF Circles
  <2>2. Node \subseteq Int
    BY DEF Node
  <2> QED
    BY <2>1, <2>2
<1>4. g # [h EXCEPT !.wild = TRUE]
  <2>1. [h EXCEPT !.wild = TRUE].wild = TRUE
    BY <1>1 DEF Fields
  <2> QED
    BY <2>1
<1>5. PICK h1 : h1 = [h EXCEPT !.nxt[p] = n]
  OBVIOUS
<1>6. PICK h2 : h2 = [h1 EXCEPT !.prv[n] = p]
  OBVIOUS
<1>7. g = [h2 EXCEPT !.nxt[e] = e, !.prv[e] = e]
  BY <1>4, <1>5, <1>6 DEF l_rem
<1>8. DOMAIN h1 = Fields /\ h1.nxt = [h.nxt EXCEPT ![p] = n] /\ h1.prv = h.prv
  BY <1>1, <1>5 DEF Fields
<1>9. DOMAIN h2 = Fields /\ h2.nxt = h1.nxt /\ h2.prv = [h1.prv EXCEPT ![n] = p]
  BY <1>6, <1>8 DEF Fields
<1>10. g.nxt = [h2.nxt EXCEPT ![e] = e] /\ g.prv = [h2.prv EXCEPT ![e] = e]
  BY <1>7, <1>9 DEF Fields
<1>11. /\ h1.nxt \in [Node -> Int]
       /\ \A a \in Node : h1.nxt[a] = IF a = p THEN n ELSE h.nxt[a]
  BY <1>3, <1>8
<1>12. /\ g.nxt \in [Node -> Int] /\ g.nxt[e] = e
       /\ \A a \in Node : a # e => g.nxt[a] = IF a = p THEN n ELSE h.nxt[a]
  BY <1>3, <1>9, <1>10, <1>11
<1>13. /\ h2.prv \in [Node -> Int]
       /\ \A a \in Node : h2.prv[a] = IF a = n THEN p ELSE h.prv[a]
  BY <1>3, <1>8, <1>9
<1>14. /\ g.prv \in [Node -> Int] /\ g.prv[e] = e
       /\ \A a \in Node : a # e => g.prv[a] = IF a = n THEN p ELSE h.prv[a]
  BY <1>3, <1>10, <1>13
<1> QED
  BY <1>3, <1>12, <1>14 DEF Bypassed

\* l_rem keeps the circles.
LEMMA CirclesRem ==
  ASSUME NEW h, Words(h), NEW F, Circles(h, F), NEW e \in F, e # Head,
         NEW g, g = l_rem(h, e), g.wild = FALSE
  PROVE  Removed(h, g, F, e)
<1>1. PICK n, p : n = h.nxt[e] /\ p = h.prv[e]
  OBVIOUS
<1>2. n \in F /\ p \in F /\ Bypassed(h, g, p, e, n)
  BY <1>1, RemLinks
<1>3. /\ g.nxt \in [Node -> Int] /\ g.prv \in [Node -> Int]
      /\ g.nxt[e] = e /\ g.prv[e] = e
      /\ \A a \in Node : a # e => g.nxt[a] = IF a = p THEN n ELSE h.nxt[a]
      /\ \A a \in Node : a # e => g.prv[a] = IF a = n THEN p ELSE h.prv[a]
  BY <1>2 DEF Bypassed
<1>4. /\ Head \in F /\ F \subseteq Node
      /\ \A a \in F : h.nxt[a] \in F /\ h.prv[h.nxt[a]] = a
      /\ \A a \in F : h.prv[a] \in F /\ h.nxt[h.prv[a]] = a
  BY DEF Circles
<1>5. ASSUME NEW a \in F \ {e} PROVE g.nxt[a] \in F \ {e} /\ g.prv[g.nxt[a]] = a
  <2>1. CASE a = p
    <3>1. g.nxt[a] = n /\ n # e
      BY <2>1, <1>1, <1>3, <1>4
    <3> QED
      BY <3>1, <2>1, <1>2, <1>3, <1>4
  <2>2. CASE a # p
    <3>1. g.nxt[a] = h.nxt[a] /\ h.nxt[a] \in F /\ h.prv[h.nxt[a]] = a
      BY <2>2, <1>3, <1>4
    <3>2. h.nxt[a] # e /\ h.nxt[a] # n
      BY <3>1, <2>2, <1>1, <1>4
    <3>3. g.prv[h.nxt[a]] = h.prv[h.nxt[a]]
      BY <3>1, <3>2, <1>3, <1>4
    <3> QED
      BY <3>1, <3>2, <3>3
  <2> QED
    BY <2>1, <2>2
<1>6. ASSUME NEW a \in F \ {e} PROVE g.prv[a] \in F \ {e} /\ g.nxt[g.prv[a]] = a
  <2>1. CASE a = n
    <3>1. g.prv[a] = p /\ p # e
      BY <2>1, <1>1, <1>3, <1>4
    <3> QED
      BY <3>1, <2>1, <1>2, <1>3, <1>4
  <2>2. CASE a # n
    <3>1. g.prv[a] = h.prv[a] /\ h.prv[a] \in F /\ h.nxt[h.prv[a]] = a
      BY <2>2, <1>3, <1>4
    <3>2. h.prv[a] # e /\ h.prv[a] # p
      BY <3>1, <2>2, <1>1, <1>4
    <3>3. g.nxt[h.prv[a]] = h.nxt[h.prv[a]]
      BY <3>1, <3>2, <1>3, <1>4
    <3> QED
      BY <3>1, <3>2, <3>3
  <2> QED
    BY <2>1, <2>2
<1>7. Head \in F \ {e} /\ F \ {e} \subseteq Node
  BY <1>4
<1>8. Besides(h, g, F)
  BY <1>2, <1>3, <1>4 DEF Besides
<1> QED
  BY <1>3, <1>5, <1>6, <1>7, <1>8 DEF Circles, Removed

\* Overwriting links outside of the circles does not break them.
LEMMA CirclesCut ==
  ASSUME NEW h, NEW F, Circles(h, F), NEW g, NEW a \in Int, NEW n \in Int, Unlinked(h, g, a, n),
         \A b \in F : b < a \/ n <= b
  PROVE  Circles(g, F)
<1>1. /\ g.nxt = [b \in Node |-> IF a <= b /\ b < n THEN Junk ELSE h.nxt[b]]
      /\ g.prv = [b \in Node |-> IF a <= b /\ b < n THEN Junk ELSE h.prv[b]]
  BY DEF Unlinked
<1>2. h.nxt \in [Node -> Int] /\ h.prv \in [Node -> Int] /\ F \subseteq Node /\ Node \subseteq Int
  BY DEF Circles, Node
<1>3. g.nxt \in [Node -> Int] /\ g.prv \in [Node -> Int]
  BY <1>1, <1>2 DEF Junk
<1>4. ASSUME NEW b \in F PROVE g.nxt[b] = h.nxt[b] /\ g.prv[b] = h.prv[b]
  <2>1. b \in Node /\ b \in Int /\ (b < a \/ n <= b)
    BY <1>2
  <2>2. ~ (a <= b /\ b < n)
    BY <2>1
  <2> QED
    BY <2>1, <2>2, <1>1
<1>5. /\ \A b \in F : g.nxt[b] \in F /\ g.prv[g.nxt[b]] = b
      /\ \A b \in F : g.prv[b] \in F /\ g.nxt[g.prv[b]] = b
  BY <1>4 DEF Circles
<1>7. Head \in F
  BY DEF Circles
<1> QED
  BY <1>2, <1>3, <1>5, <1>7 DEF Circles

-----------------------------------------------------------------------------
(* Blocks given out, with their list.                                        *)

FreeNodes(h) == FreeBlocks(h) \cup {Head}

\* A block the caller holds has no links.
Bare(h) == \A b \in Held(h) : h.nxt[b] = Junk /\ h.prv[b] = Junk

\* The free blocks are on circular lists, and dm_current is one of them, the head or
\* a block that was given out: dynmem_malloc takes off a block that is the only one
\* on its list.
Linked(h) ==
  /\ Circles(h, FreeNodes(h)) /\ Bare(h)
  /\ h.cur \in FreeNodes(h) \cup Held(h)

\* What is free when the units from lo up to hi are given out up to m.
FreeRest(F, m, hi) == IF m < hi THEN F \cup {m} ELSE F

\* h1 is h with the free block at a, which ends at hi, cut at m, and still linked.
Cut(h, h1, a, m, hi) ==
  /\ a < m /\ m <= hi /\ Opened(h, h1, a, m, hi) /\ h1.hdr[a].sz = m - a
  /\ StaysWild(h, h1)
  /\ Linked(h) /\ h1.wild = FALSE =>
       /\ Circles(h1, FreeRest(FreeNodes(h), m, hi))
       /\ Besides(h, h1, FreeRest(FreeNodes(h), m, hi))
       /\ h1.nxt[a] \in FreeRest(FreeNodes(h), m, hi)

LEMMA CutIs ==
  ASSUME NEW h, NEW P, NEW e \in 1 .. MemLen + 1, PoolsApart(P, e), Sound(h, P),
         NEW a \in FreeBlocks(h), NEW hi, hi = a + h.hdr[a].sz,
         NEW amt \in Nat, h.hdr[a].sz > amt + MinNU => amt >= MinNU, NEW h1,
         h1 = IF h.hdr[a].sz > amt + MinNU THEN split_block(h, a, amt) ELSE h
  PROVE  \E m \in Int : Cut(h, h1, a, m, hi)
<1>1. Words(h) /\ a \in Blocks(h) /\ MinNU \in Nat /\ MinNU > 0
  BY BlockAssumption DEF Sound, FreeBlocks
<1>2. Bounds(h, a, hi)
  BY <1>1, BlockIs
<1>3. a \in Addr /\ hi \in Addr /\ h.hdr[a].sz \in Nat /\ h.hdr[a].sz > 0
      /\ h.hdr[a].sz = hi - a /\ a \in Int /\ hi \in Int /\ a < hi
  BY <1>2 DEF Bounds
<1>4. CASE h.hdr[a].sz > amt + MinNU
  <2>1. h1 = split_block(h, a, amt)
    BY <1>4
  <2>2. PICK m \in Int : m = a + amt
    BY <1>3
  <2>3. a < m /\ m < hi /\ amt = m - a /\ m \in Node
    BY <2>2, <1>1, <1>3, <1>4, BlockAssumption DEF Node, Addr
  <2>9. amt >= MinNU
    BY <1>4
  <2>4. /\ Splitted(h, h1, a, m, hi) /\ StaysWild(h, h1) /\ h1.cur = h.cur
        /\ \E x, y : Words(x) /\ SameLinks(h, x) /\ y = l_ins(x, a, m) /\ SameLinks(y, h1)
    BY <2>1, <2>2, <2>3, <2>9, SplitIs
  <2>5. Opened(h, h1, a, m, hi) /\ h1.hdr[a].sz = m - a
    BY <2>4 DEF Splitted, Opened
  <2>6. ASSUME Linked(h), h1.wild = FALSE
        PROVE  /\ Circles(h1, FreeNodes(h) \cup {m}) /\ h1.nxt[a] \in FreeNodes(h) \cup {m}
               /\ Besides(h, h1, FreeNodes(h) \cup {m})
    <3>0. PICK F : F = FreeNodes(h)
      OBVIOUS
    <3>1. PICK x, y : Words(x) /\ SameLinks(h, x) /\ y = l_ins(x, a, m) /\ SameLinks(y, h1)
      BY <2>4
    <3>2. Circles(x, F)
      BY <2>6, <3>0, <3>1, SameCircles DEF Linked, SameLinks
    <3>3. m \notin F
      <4>1. m \notin FreeBlocks(h)
        <5> SUFFICES ASSUME m \in Blocks(h) PROVE FALSE
          BY DEF FreeBlocks
        <5>1. m < a \/ hi <= m
          <6>1. m # a
            BY <2>3, <1>3
          <6> QED
            BY <6>1, <1>1, NoneWithin
        <5> QED
          BY <5>1, <2>3, <1>3
      <4>2. m # Head
        BY <2>3, <1>3 DEF Head, Addr
      <4> QED
        BY <4>1, <4>2, <3>0 DEF FreeNodes
    <3>4. y.wild = FALSE /\ a \in F
      BY <2>6, <3>0, <3>1 DEF SameLinks, FreeNodes
    <3>5. Circles(y, F \cup {m}) /\ y.nxt[a] = m /\ Besides(x, y, F \cup {m})
      <4>1. /\ Words(x) /\ Circles(x, F) /\ a \in F /\ m \in Node /\ m \notin F
            /\ y = l_ins(x, a, m) /\ y.wild = FALSE
        BY <2>3, <3>1, <3>2, <3>3, <3>4
      <4>2. Inserted(x, y, F, a, m)
        BY <4>1, CirclesIns
      <4> QED
        BY <4>2 DEF Inserted
    <3>6. h1.nxt = y.nxt /\ h1.prv = y.prv /\ x.nxt = h.nxt /\ x.prv = h.prv
      BY <3>1 DEF SameLinks
    <3>7. Circles(h1, F \cup {m})
      BY <3>5, <3>6, SameCircles
    <3>8. Besides(h, h1, F \cup {m})
      BY <3>5, <3>6 DEF Besides
    <3> QED
      BY <3>0, <3>5, <3>6, <3>7, <3>8
  <2>7. FreeRest(FreeNodes(h), m, hi) = FreeNodes(h) \cup {m}
    BY <2>3 DEF FreeRest
  <2>8. m <= hi
    BY <2>3, <1>3
  <2> QED
    BY <2>3, <2>4, <2>5, <2>6, <2>7, <2>8 DEF Cut
<1>5. CASE ~ (h.hdr[a].sz > amt + MinNU)
  <2>1. h1 = h
    BY <1>5
  <2>2. ~ (hi < hi) /\ hi <= hi /\ \A b \in Addr : ~ (hi < b /\ b < hi)
    BY <1>3 DEF Addr
  <2>3. Opened(h, h1, a, hi, hi)
    BY <2>1, <2>2, <1>1 DEF Opened
  <2>4. FreeRest(FreeNodes(h), hi, hi) = FreeNodes(h)
    BY <2>2 DEF FreeRest
  <2>5. ASSUME Linked(h)
        PROVE  Circles(h, FreeNodes(h)) /\ h.nxt[a] \in FreeNodes(h) /\ Besides(h, h, FreeNodes(h))
    <3>1. a \in FreeNodes(h)
      BY DEF FreeNodes
    <3> QED
      BY <2>5, <3>1 DEF Linked, Circles, Besides
  <2>6. Cut(h, h1, a, hi, hi)
    BY <2>1, <2>2, <2>3, <2>4, <2>5, <1>3 DEF Cut, StaysWild
  <2> QED
    BY <2>6, <1>3
<1> QED
  BY <1>4, <1>5

\* g is h with the free block a, or the first part of it, given out.
Granted(h, g, P, a) ==
  /\ Sound(g, P) /\ Held(g) = Held(h) \cup {a} /\ a \notin Held(h)
  /\ Told(h) => Told(g)
  /\ Linked(h) /\ g.wild = FALSE => Linked(g)
  /\ StaysWild(h, g)

LEMMA TakeDone ==
  ASSUME NEW h, NEW P, NEW e \in 1 .. MemLen + 1, PoolsApart(P, e), Sound(h, P),
         NEW a \in FreeBlocks(h), NEW amt \in Nat, amt >= MinNU, amt <= h.hdr[a].sz,
         NEW g, g = take(h, a, amt)
  PROVE  Granted(h, g, P, a)
<1>1. Words(h) /\ a \in Blocks(h) /\ a # Head /\ Head \notin FreeBlocks(h)
  BY DEF Sound, FreeBlocks, Blocks, Addr, Head
<1>2. PICK hi : hi = a + h.hdr[a].sz
  OBVIOUS
<1>3. Bounds(h, a, hi) /\ Region(h, P, a, hi)
  BY <1>1, <1>2, BlockIs
<1>4. a \in Addr /\ hi \in Addr /\ a \in Int /\ hi \in Int /\ a < hi
  BY <1>3 DEF Bounds
<1>5. PICK h1 : h1 = IF h.hdr[a].sz > amt + MinNU THEN split_block(h, a, amt) ELSE h
  OBVIOUS
<1>6. PICK m \in Int : Cut(h, h1, a, m, hi)
  BY <1>2, <1>5, CutIs
<1>7. a < m /\ m <= hi /\ Opened(h, h1, a, m, hi) /\ h1.hdr[a].sz = m - a /\ StaysWild(h, h1)
  BY <1>6 DEF Cut
<1>8. Words(h1)
  BY <1>7 DEF Opened
<1>9. PICK h2 : h2 = WithCur(h1, h1.nxt[a])
  OBVIOUS
<1>10. /\ SameWords(h1, h2) /\ h2.nxt = h1.nxt /\ h2.prv = h1.prv /\ h2.wild = h1.wild
       /\ h2.cur = h1.nxt[a]
  BY <1>8, <1>9, SetCur
<1>11. PICK h3 : h3 = l_rem(h2, a)
  OBVIOUS
<1>12. SameWords(h2, h3) /\ StaysWild(h2, h3) /\ h3.cur = h2.cur
  BY <1>10, <1>11, RemWords DEF SameWords
<1>13. PICK len \in Nat : len = m - a /\ a + len = m
  BY <1>4, <1>7
<1>14. g = give(h3, a, len)
  BY <1>5, <1>7, <1>9, <1>11, <1>13 DEF take, WithCur
<1>15. Words(h3) /\ h3.hdr = h1.hdr /\ h3.foot = h1.foot
  BY <1>10, <1>12 DEF SameWords
<1>16. Words(g) /\ Allotted(h3, g, a, m) /\ Unlinked(h3, g, a, m)
  BY <1>4, <1>13, <1>14, <1>15, GiveIs
<1>17. Opened(h, h3, a, m, hi)
  BY <1>7, <1>15 DEF Opened
<1>18. Told(h) => h.hdr[hi].palloc = FALSE
  <2>1. h.hdr[a].alloc = FALSE
    <3>1. ~ h.hdr[a].alloc /\ h.hdr[a] \in HdrT
      BY <1>3 DEF FreeBlocks, Bounds
    <3> QED
      BY <3>1 DEF HdrT
  <2> QED
    BY <2>1, <1>1, <1>2 DEF Told
<1>19. Given(h, g, P, a, m, hi)
  BY <1>3, <1>7, <1>13, <1>16, <1>17, <1>18, TakeIs
<1>20. /\ Sound(g, P) /\ Accounts(h, g, a, m, hi, TRUE) /\ (Told(h) => Told(g))
  BY <1>19 DEF Given
<1>21. ASSUME NEW b \in Blocks(h), b # a PROVE b \notin a .. hi - 1 /\ (b < a \/ hi <= b) /\ b \in Int
  BY <1>1, <1>2, <1>21, NoneWithin
<1>22. /\ FreeBlocks(h) \ (a .. hi - 1) = FreeBlocks(h) \ {a}
       /\ Held(h) \ (a .. hi - 1) = Held(h) /\ a \notin Held(h)
  <2>1. a \in a .. hi - 1 /\ a \notin Held(h)
    BY <1>4 DEF Held
  <2> QED
    BY <2>1, <1>21 DEF Held, FreeBlocks
<1>23. Held(g) = Held(h) \cup {a}
  BY <1>20, <1>22 DEF Accounts, HeldAfter
<1>24. FreeBlocks(g) = (FreeBlocks(h) \ {a}) \cup (IF m < hi THEN {m} ELSE {})
  BY <1>20, <1>22 DEF Accounts, FreeAfter
<1>25. PICK F : F = FreeRest(FreeNodes(h), m, hi)
  OBVIOUS
<1>26. FreeNodes(g) = F \ {a}
  <2>1. m # a
    BY <1>4, <1>7
  <2> QED
    BY <2>1, <1>1, <1>24, <1>25 DEF FreeNodes, FreeRest
<1>27. ASSUME Linked(h), g.wild = FALSE PROVE Linked(g)
  <2>1. g.wild = h3.wild /\ g.cur = h3.cur
    BY <1>16 DEF Unlinked
  <2>2. h3.wild = FALSE /\ h2.wild = FALSE /\ h1.wild = FALSE
    BY <2>1, <1>27, <1>10, <1>12 DEF StaysWild
  <2>3. Circles(h1, F) /\ h1.nxt[a] \in F /\ Besides(h, h1, F)
    BY <2>2, <1>6, <1>25, <1>27 DEF Cut
  <2>4. a \in F
    BY <1>25 DEF FreeRest, FreeNodes
  <2>6. Circles(h2, F) /\ Words(h2)
    BY <2>3, <1>10, SameCircles DEF SameWords
  <2>7. Circles(h3, F \ {a}) /\ Besides(h2, h3, F)
    <3>1. Removed(h2, h3, F, a)
      BY <2>2, <2>4, <2>6, <1>1, <1>11, CirclesRem
    <3> QED
      BY <3>1 DEF Removed
  <2>8. ASSUME NEW b \in F \ {a} PROVE b < a \/ m <= b
    <3>1. CASE b \in FreeBlocks(h)
      <4>1. b < a \/ hi <= b
        BY <2>8, <3>1, <1>21 DEF FreeBlocks
      <4>2. b \in Int
        BY <3>1 DEF FreeBlocks, Blocks, Addr
      <4> QED
        BY <4>1, <4>2, <1>4, <1>7
    <3>2. CASE b = Head
      BY <3>2, <1>4 DEF Head, Addr
    <3>3. CASE b = m
      BY <3>3
    <3> QED
      BY <3>1, <3>2, <3>3, <1>25 DEF FreeRest, FreeNodes
  <2>9. Circles(g, F \ {a})
    BY <2>7, <2>8, <1>4, <1>16, CirclesCut
  <2>10. g.cur \in FreeNodes(g) \cup Held(g)
    BY <2>1, <2>3, <1>10, <1>12, <1>23, <1>26
  <2>11. ASSUME NEW b \in Held(g) PROVE g.nxt[b] = Junk /\ g.prv[b] = Junk
    <3>1. b \in Node /\ b \notin FreeNodes(g)
      BY DEF Held, Blocks, FreeBlocks, FreeNodes, Addr, Node, Head
    <3>2. CASE b = a
      <4>1. a <= b /\ b < m
        BY <3>2, <1>4, <1>7
      <4> QED
        BY <3>1, <4>1, <1>16 DEF Unlinked
    <3>3. CASE b # a
      <4>1. b \in Held(h) /\ b \notin F
        BY <3>1, <3>3, <1>23, <1>26
      <4>2. h.nxt[b] = Junk /\ h.prv[b] = Junk
        BY <4>1, <1>27 DEF Linked, Bare
      <4>3. h3.nxt[b] = Junk /\ h3.prv[b] = Junk
        BY <4>1, <4>2, <3>1, <2>3, <2>7, <1>10 DEF Besides
      <4> QED
        BY <3>1, <4>3, <1>16 DEF Unlinked
    <3> QED
      BY <3>2, <3>3
  <2> QED
    BY <2>9, <2>10, <2>11, <1>26 DEF Linked, Bare
<1>28. StaysWild(h, g)
  BY <1>7, <1>10, <1>12, <1>16 DEF StaysWild, Unlinked
<1> QED
  BY <1>20, <1>22, <1>23, <1>27, <1>28 DEF Granted

-----------------------------------------------------------------------------
(* Blocks freed.                                                             *)

\* h1 is h with the units from a up to n, of which the caller holds the block at
\* mb, made one free block, which is not on a list.
Joined(h, h1, P, mb, a, n) ==
  /\ Region(h, P, a, n) /\ Words(h1) /\ StaysWild(h, h1) /\ h1.cur = h.cur
  /\ \A b \in Addr : b < a \/ n <= b => h1.hdr[b] = h.hdr[b] /\ h1.foot[b] = h.foot[b]
  /\ h1.hdr[a] = Tag(n - a, FALSE, h.hdr[a].palloc)
  /\ \A b \in Addr : a < b /\ b < n => h1.hdr[b].sz = 0
  /\ h1.foot[n - 1] = n - a
  /\ a \in Int /\ a <= mb /\ mb < n
  /\ \A b \in Held(h) : b # mb => b < a \/ n <= b

\* The free blocks that are now in the units from a up to n have left the lists.
Detached(h, h1, mb, a, n) ==
  Linked(h) /\ h1.wild = FALSE =>
    /\ Circles(h1, FreeNodes(h) \ (a .. n - 1)) /\ Besides(h, h1, FreeNodes(h))
    /\ a # mb => h1.nxt[a] = a /\ h1.prv[a] = a

LEMMA JoinOne ==
  ASSUME NEW h, NEW P, NEW e \in 1 .. MemLen + 1, PoolsApart(P, e), Sound(h, P),
         NEW mb \in Held(h), NEW n, n = mb + h.hdr[mb].sz,
         NEW h1, h1 = set_free_mb(h, mb, h.hdr[mb].sz, [h.hdr[mb] EXCEPT !.alloc = FALSE])
  PROVE  Joined(h, h1, P, mb, mb, n) /\ Detached(h, h1, mb, mb, n)
<1>1. Words(h) /\ mb \in Blocks(h) /\ mb \notin FreeBlocks(h)
  BY DEF Sound, Held
<1>2. Bounds(h, mb, n) /\ Region(h, P, mb, n)
  BY <1>1, BlockIs
<1>3. /\ mb \in Addr /\ mb \in Int /\ n \in Addr /\ n \in Int /\ mb < n /\ h.hdr[mb].sz \in Nat
      /\ h.hdr[mb] \in HdrT /\ h.hdr[mb].sz = n - mb
  BY <1>2 DEF Bounds
<1>4. PICK tag \in HdrT : /\ tag = [h.hdr[mb] EXCEPT !.alloc = FALSE]
                          /\ tag = Tag(h.hdr[mb].sz, FALSE, h.hdr[mb].palloc)
  BY <1>3, WithAlloc
<1>5. Words(h1) /\ SameLinks(h, h1) /\ Wrote(h, h1, mb, n, tag)
  BY <1>1, <1>3, <1>4, SetFree
<1>6. \A b \in Addr : b < mb \/ n <= b => h1.hdr[b] = h.hdr[b] /\ h1.foot[b] = h.foot[b]
  <2> SUFFICES ASSUME NEW b \in Addr, b < mb \/ n <= b
               PROVE  h1.hdr[b] = h.hdr[b] /\ h1.foot[b] = h.foot[b]
    OBVIOUS
  <2>1. b # mb /\ ~ (mb < b /\ b < n) /\ b # n - 1 /\ ~ (mb <= b /\ b < n)
    BY <1>3 DEF Addr
  <2> QED
    BY <2>1, <1>5 DEF Wrote
<1>7. h1.hdr[mb] = Tag(n - mb, FALSE, h.hdr[mb].palloc)
  BY <1>3, <1>4, <1>5 DEF Wrote
<1>8. ASSUME NEW b \in Addr, mb < b /\ b < n PROVE h1.hdr[b].sz = 0
  <2>1. b # mb
    BY <1>8, <1>3
  <2>2. h1.hdr[b] = Garbage
    BY <2>1, <1>5, <1>8 DEF Wrote
  <2> QED
    BY <2>2 DEF Garbage
<1>9. h1.foot[n - 1] = n - mb
  <2>1. n - 1 \in Addr
    BY <1>3, BlockAssumption DEF Addr
  <2> QED
    BY <2>1, <1>5 DEF Wrote
<1>10. ASSUME NEW b \in Blocks(h), b # mb PROVE b \notin mb .. n - 1 /\ (b < mb \/ n <= b)
  BY <1>1, <1>10, NoneWithin
<1>11. mb <= mb
  BY <1>3
<1>12. \A b \in Held(h) : b # mb => b < mb \/ n <= b
  BY <1>10 DEF Held
<1>13. Joined(h, h1, P, mb, mb, n)
  BY <1>2, <1>3, <1>5, <1>6, <1>7, <1>8, <1>9, <1>11, <1>12 DEF Joined, StaysWild, SameLinks
<1>14. FreeNodes(h) \ (mb .. n - 1) = FreeNodes(h)
  <2>1. Head \notin mb .. n - 1
    BY <1>3 DEF Head, Addr
  <2>2. ASSUME NEW b \in FreeBlocks(h) PROVE b \notin mb .. n - 1
    BY <1>1, <1>10 DEF FreeBlocks
  <2> QED
    BY <2>1, <2>2 DEF FreeNodes
<1>15. h1.nxt = h.nxt /\ h1.prv = h.prv
  BY <1>5 DEF SameLinks
<1>16. Linked(h) => Circles(h1, FreeNodes(h) \ (mb .. n - 1)) /\ Besides(h, h1, FreeNodes(h))
  <2> SUFFICES ASSUME Linked(h)
               PROVE  Circles(h1, FreeNodes(h)) /\ Besides(h, h1, FreeNodes(h))
    BY <1>14
  <2>1. Circles(h1, FreeNodes(h))
    BY <1>15, SameCircles DEF Linked
  <2> QED
    BY <2>1, <1>15 DEF Besides
<1> QED
  BY <1>13, <1>16 DEF Detached

\* The free block before it is joined.
LEMMA JoinBack ==
  ASSUME NEW h, NEW P, NEW e \in 1 .. MemLen + 1, PoolsApart(P, e), Sound(h, P),
         NEW mb \in Held(h), NEW n, n = mb + h.hdr[mb].sz,
         NEW h0, Joined(h, h0, P, mb, mb, n), Detached(h, h0, mb, mb, n),
         NEW a \in FreeBlocks(h), a + h.hdr[a].sz = mb, NEW r, r = l_rem(h0, a),
         NEW len \in Nat, a + len = n,
         NEW h1, h1 = set_free_mb(r, a, len, [r.hdr[a] EXCEPT !.sz = len])
  PROVE  Joined(h, h1, P, mb, a, n) /\ Detached(h, h1, mb, a, n)
<1>1. /\ Words(h) /\ Layout(h, P) /\ mb \in Blocks(h) /\ mb \notin FreeBlocks(h)
      /\ a \in Blocks(h)
  BY DEF Sound, Held, FreeBlocks
<1>2. Bounds(h, a, mb) /\ Region(h, P, a, mb) /\ Bounds(h, mb, n)
  BY <1>1, BlockIs
<1>3. /\ a \in Addr /\ a \in Int /\ mb \in Addr /\ mb \in Int /\ a < mb /\ h.hdr[a].sz \in Nat
      /\ h.hdr[a] \in HdrT /\ n \in Addr /\ n \in Int /\ mb < n
  BY <1>2 DEF Bounds
<1>4. /\ Words(h0) /\ StaysWild(h, h0) /\ h0.cur = h.cur
      /\ \A b \in Addr : b < mb \/ n <= b => h0.hdr[b] = h.hdr[b] /\ h0.foot[b] = h.foot[b]
      /\ \A b \in Held(h) : b # mb => b < mb \/ n <= b
  BY DEF Joined
<1>5. Region(h, P, a, n)
  BY <1>1, <1>2, RegionJoin
<1>6. SameWords(h0, r) /\ StaysWild(h0, r) /\ r.cur = h0.cur
  BY <1>4, RemWords
<1>7. Words(r) /\ r.hdr = h0.hdr /\ r.foot = h0.foot
  BY <1>6 DEF SameWords
<1>8. h.hdr[a].alloc = FALSE
  <2>1. ~ h.hdr[a].alloc
    BY DEF FreeBlocks
  <2> QED
    BY <2>1, <1>3 DEF HdrT
<1>9. r.hdr[a] = h.hdr[a] /\ len = n - a /\ a < n
  BY <1>3, <1>4, <1>7
<1>10. PICK tag \in HdrT : /\ tag = [r.hdr[a] EXCEPT !.sz = len]
                           /\ tag = Tag(n - a, FALSE, h.hdr[a].palloc)
  <2>1. /\ [h.hdr[a] EXCEPT !.sz = len] = Tag(len, h.hdr[a].alloc, h.hdr[a].palloc)
        /\ Tag(len, h.hdr[a].alloc, h.hdr[a].palloc) \in HdrT
    BY <1>3, WithLen
  <2> QED
    BY <2>1, <1>8, <1>9
<1>11. Words(h1) /\ SameLinks(r, h1) /\ Wrote(r, h1, a, n, tag)
  BY <1>3, <1>7, <1>10, SetFree
<1>12. ASSUME NEW b \in Addr, b < a \/ n <= b
       PROVE  h1.hdr[b] = h.hdr[b] /\ h1.foot[b] = h.foot[b]
  <2>1. b # a /\ ~ (a < b /\ b < n) /\ b # n - 1 /\ ~ (a <= b /\ b < n) /\ (b < mb \/ n <= b)
    BY <1>3, <1>9, <1>12 DEF Addr
  <2>2. h1.hdr[b] = r.hdr[b] /\ h1.foot[b] = r.foot[b]
    BY <2>1, <1>11 DEF Wrote
  <2> QED
    BY <2>1, <2>2, <1>4, <1>7
<1>13. h1.hdr[a] = Tag(n - a, FALSE, h.hdr[a].palloc)
  BY <1>3, <1>10, <1>11 DEF Wrote
<1>14. ASSUME NEW b \in Addr, a < b /\ b < n PROVE h1.hdr[b].sz = 0
  <2>1. b # a
    BY <1>14, <1>3
  <2>2. h1.hdr[b] = Garbage
    BY <2>1, <1>11, <1>14 DEF Wrote
  <2> QED
    BY <2>2 DEF Garbage
<1>15. h1.foot[n - 1] = n - a
  <2>1. n - 1 \in Addr
    BY <1>3, BlockAssumption DEF Addr
  <2> QED
    BY <2>1, <1>11 DEF Wrote
<1>16. ASSUME NEW b \in Blocks(h), b # a PROVE b \notin a .. mb - 1 /\ (b < a \/ mb <= b)
  BY <1>1, <1>16, NoneWithin
<1>17. ASSUME NEW b \in Held(h), b # mb PROVE b < a \/ n <= b
  <2>1. b \in Blocks(h) /\ b # a
    BY DEF Held
  <2>2. b \in Int
    BY <2>1 DEF Blocks, Addr
  <2>3. (b < a \/ mb <= b) /\ (b < mb \/ n <= b)
    BY <2>1, <1>4, <1>16, <1>17
  <2> QED
    BY <2>2, <2>3, <1>3
<1>18. Joined(h, h1, P, mb, a, n)
  <2>1. StaysWild(h, h1) /\ h1.cur = h.cur
    BY <1>4, <1>6, <1>11 DEF StaysWild, SameLinks
  <2>2. a <= mb
    BY <1>3
  <2> QED
    BY <1>3, <1>5, <1>11, <1>12, <1>13, <1>14, <1>15, <1>17, <2>1, <2>2 DEF Joined
<1>19. ASSUME Linked(h), h1.wild = FALSE
       PROVE  /\ Circles(h1, FreeNodes(h) \ (a .. n - 1)) /\ Besides(h, h1, FreeNodes(h))
              /\ h1.nxt[a] = a /\ h1.prv[a] = a
  <2>0. PICK F : F = FreeNodes(h) \ (mb .. n - 1)
    OBVIOUS
  <2>1. r.wild = FALSE /\ h0.wild = FALSE /\ h1.nxt = r.nxt /\ h1.prv = r.prv
    BY <1>6, <1>11, <1>19 DEF StaysWild, SameLinks
  <2>2. Circles(h0, F) /\ Besides(h, h0, FreeNodes(h))
    BY <2>0, <2>1, <1>19 DEF Detached
  <2>3. a \in F /\ a # Head
    BY <2>0, <1>3 DEF FreeNodes, Head, Addr
  <2>4. Circles(r, F \ {a}) /\ Besides(h0, r, F) /\ r.nxt[a] = a /\ r.prv[a] = a
    <3>1. Removed(h0, r, F, a)
      BY <2>1, <2>2, <2>3, <1>4, CirclesRem
    <3> QED
      BY <3>1 DEF Removed
  <2>5. F \ {a} = FreeNodes(h) \ (a .. n - 1)
    <3>1. ASSUME NEW b \in FreeNodes(h) PROVE b \in mb .. n - 1 \/ b = a <=> b \in a .. n - 1
      <4>1. CASE b = Head
        <5>1. b \notin mb .. n - 1 /\ b # a /\ b \notin a .. n - 1
          BY <4>1, <1>3 DEF Head, Addr
        <5> QED
          BY <5>1
      <4>2. CASE b = a
        BY <4>2, <1>3, <1>9
      <4>3. CASE b # Head /\ b # a
        <5>1. b \in Blocks(h)
          BY <4>3, <3>1 DEF FreeNodes, FreeBlocks
        <5>2. b \in Int
          BY <5>1 DEF Blocks, Addr
        <5> QED
          BY <5>1, <5>2, <4>3, <1>3, <1>16
      <4> QED
        BY <4>1, <4>2, <4>3
    <3> QED
      BY <3>1, <2>0
  <2>6. Circles(h1, FreeNodes(h) \ (a .. n - 1))
    BY <2>1, <2>4, <2>5, SameCircles
  <2>7. Besides(h, h1, FreeNodes(h))
    BY <2>0, <2>1, <2>2, <2>4 DEF Besides
  <2> QED
    BY <2>1, <2>4, <2>6, <2>7
<1> QED
  BY <1>18, <1>19 DEF Detached

\* The free block behind it is joined.
LEMMA JoinNext ==
  ASSUME NEW h, NEW P, NEW e \in 1 .. MemLen + 1, PoolsApart(P, e), Sound(h, P),
         NEW mb \in Held(h), NEW a, NEW n \in FreeBlocks(h),
         NEW h1, Joined(h, h1, P, mb, a, n), Detached(h, h1, mb, a, n),
         NEW hi, hi = n + h.hdr[n].sz, NEW r, r = l_rem(h1, n),
         NEW len \in Nat, a + len = hi,
         NEW g, g = set_free_mb(r, a, len, [r.hdr[a] EXCEPT !.sz = len])
  PROVE  Joined(h, g, P, mb, a, hi) /\ Detached(h, g, mb, a, hi)
<1>1. /\ Words(h) /\ Layout(h, P) /\ mb \in Blocks(h) /\ mb \notin FreeBlocks(h)
      /\ n \in Blocks(h)
  BY DEF Sound, Held, FreeBlocks
<1>2. Bounds(h, n, hi)
  BY <1>1, BlockIs
<1>3. n \in Addr /\ n \in Int /\ hi \in Addr /\ hi \in Int /\ n < hi
  BY <1>2 DEF Bounds
<1>4. /\ Region(h, P, a, n) /\ Words(h1) /\ StaysWild(h, h1) /\ h1.cur = h.cur
      /\ \A b \in Addr : b < a \/ n <= b => h1.hdr[b] = h.hdr[b] /\ h1.foot[b] = h.foot[b]
      /\ h1.hdr[a] = Tag(n - a, FALSE, h.hdr[a].palloc)
      /\ a \in Int /\ a <= mb /\ mb < n
      /\ \A b \in Held(h) : b # mb => b < a \/ n <= b
  BY DEF Joined
<1>5. a \in Addr /\ mb \in Int /\ a < n /\ a \in Blocks(h)
  <2>1. a \in Addr /\ mb \in Addr /\ a \in Blocks(h)
    BY <1>1, <1>4 DEF Region, Blocks
  <2> QED
    BY <2>1, <1>3, <1>4 DEF Addr
<1>6. Region(h, P, a, hi)
  BY <1>1, <1>4, RegionJoin
<1>7. SameWords(h1, r) /\ StaysWild(h1, r) /\ r.cur = h1.cur
  BY <1>4, RemWords
<1>8. Words(r) /\ r.hdr = h1.hdr /\ r.foot = h1.foot
  BY <1>7 DEF SameWords
<1>9. len = hi - a
  BY <1>3, <1>4
<1>10. PICK tag \in HdrT : /\ tag = [r.hdr[a] EXCEPT !.sz = len]
                           /\ tag = Tag(hi - a, FALSE, h.hdr[a].palloc)
  <2>1. r.hdr[a] \in HdrT /\ r.hdr[a] = Tag(n - a, FALSE, h.hdr[a].palloc)
    BY <1>4, <1>5, <1>8 DEF Words
  <2>2. /\ [r.hdr[a] EXCEPT !.sz = len] = Tag(len, r.hdr[a].alloc, r.hdr[a].palloc)
        /\ Tag(len, r.hdr[a].alloc, r.hdr[a].palloc) \in HdrT
    BY <2>1, WithLen
  <2>3. r.hdr[a].alloc = FALSE /\ r.hdr[a].palloc = h.hdr[a].palloc
    BY <2>1 DEF Tag
  <2> QED
    BY <2>2, <2>3, <1>9
<1>11. Words(g) /\ SameLinks(r, g) /\ Wrote(r, g, a, hi, tag)
  BY <1>3, <1>5, <1>8, <1>10, SetFree
<1>12. ASSUME NEW b \in Addr, b < a \/ hi <= b
       PROVE  g.hdr[b] = h.hdr[b] /\ g.foot[b] = h.foot[b]
  <2>1. b # a /\ ~ (a < b /\ b < hi) /\ b # hi - 1 /\ ~ (a <= b /\ b < hi) /\ (b < a \/ n <= b)
    BY <1>3, <1>5, <1>12 DEF Addr
  <2>2. g.hdr[b] = r.hdr[b] /\ g.foot[b] = r.foot[b]
    BY <2>1, <1>11 DEF Wrote
  <2> QED
    BY <2>1, <2>2, <1>4, <1>8
<1>13. g.hdr[a] = Tag(hi - a, FALSE, h.hdr[a].palloc)
  BY <1>5, <1>10, <1>11 DEF Wrote
<1>14. ASSUME NEW b \in Addr, a < b /\ b < hi PROVE g.hdr[b].sz = 0
  <2>1. b # a
    BY <1>14, <1>4
  <2>2. g.hdr[b] = Garbage
    BY <2>1, <1>11, <1>14 DEF Wrote
  <2> QED
    BY <2>2 DEF Garbage
<1>15. g.foot[hi - 1] = hi - a
  <2>1. hi - 1 \in Addr
    BY <1>3, BlockAssumption DEF Addr
  <2> QED
    BY <2>1, <1>11 DEF Wrote
<1>16. ASSUME NEW b \in Blocks(h), b # n PROVE b \notin n .. hi - 1 /\ (b < n \/ hi <= b)
  BY <1>1, <1>16, NoneWithin
<1>17. ASSUME NEW b \in Held(h), b # mb PROVE b < a \/ hi <= b
  <2>1. b \in Blocks(h) /\ b # n
    BY DEF Held
  <2>2. b \in Int
    BY <2>1 DEF Blocks, Addr
  <2>3. (b < n \/ hi <= b) /\ (b < a \/ n <= b)
    BY <2>1, <1>4, <1>16, <1>17
  <2> QED
    BY <2>2, <2>3, <1>3
<1>18. Joined(h, g, P, mb, a, hi)
  <2>1. StaysWild(h, g) /\ g.cur = h.cur
    BY <1>4, <1>7, <1>11 DEF StaysWild, SameLinks
  <2>2. a <= mb /\ mb < hi
    BY <1>3, <1>4, <1>5
  <2> QED
    BY <1>4, <1>6, <1>11, <1>12, <1>13, <1>14, <1>15, <1>17, <2>1, <2>2 DEF Joined
<1>19. ASSUME Linked(h), g.wild = FALSE
       PROVE  /\ Circles(g, FreeNodes(h) \ (a .. hi - 1)) /\ Besides(h, g, FreeNodes(h))
              /\ (a # mb => g.nxt[a] = a /\ g.prv[a] = a)
  <2>0. PICK F : F = FreeNodes(h) \ (a .. n - 1)
    OBVIOUS
  <2>1. r.wild = FALSE /\ h1.wild = FALSE /\ g.nxt = r.nxt /\ g.prv = r.prv
    BY <1>7, <1>11, <1>19 DEF StaysWild, SameLinks
  <2>2. /\ Circles(h1, F) /\ Besides(h, h1, FreeNodes(h))
        /\ (a # mb => h1.nxt[a] = a /\ h1.prv[a] = a)
    BY <2>0, <2>1, <1>19 DEF Detached
  <2>3. n \in F /\ n # Head
    BY <2>0, <1>3, <1>4 DEF FreeNodes, Head, Addr
  <2>4. Circles(r, F \ {n}) /\ Besides(h1, r, F)
    <3>1. Removed(h1, r, F, n)
      BY <2>1, <2>2, <2>3, <1>4, CirclesRem
    <3> QED
      BY <3>1 DEF Removed
  <2>5. F \ {n} = FreeNodes(h) \ (a .. hi - 1)
    <3>1. ASSUME NEW b \in FreeNodes(h) PROVE b \in a .. n - 1 \/ b = n <=> b \in a .. hi - 1
      <4>1. CASE b = Head
        <5>1. b \notin a .. n - 1 /\ b # n /\ b \notin a .. hi - 1
          BY <4>1, <1>3, <1>5 DEF Head, Addr
        <5> QED
          BY <5>1
      <4>2. CASE b = n
        BY <4>2, <1>3, <1>4, <1>5
      <4>3. CASE b # Head /\ b # n
        <5>1. b \in Blocks(h)
          BY <4>3, <3>1 DEF FreeNodes, FreeBlocks
        <5>2. b \in Int
          BY <5>1 DEF Blocks, Addr
        <5>3. b < n \/ hi <= b
          BY <5>1, <4>3, <1>16
        <5> QED
          BY <5>2, <5>3, <4>3, <1>3, <1>4, <1>5
      <4> QED
        BY <4>1, <4>2, <4>3
    <3> QED
      BY <3>1, <2>0
  <2>6. Circles(g, FreeNodes(h) \ (a .. hi - 1))
    BY <2>1, <2>4, <2>5, SameCircles
  <2>7. Besides(h, g, FreeNodes(h))
    BY <2>0, <2>1, <2>2, <2>4 DEF Besides
  <2>8. a \in Node /\ a \notin F
    <3>1. a \in a .. n - 1
      BY <1>3, <1>4, <1>5
    <3> QED
      BY <3>1, <2>0, <1>5 DEF Node, Addr
  <2> QED
    BY <2>1, <2>2, <2>4, <2>6, <2>7, <2>8 DEF Besides
<1> QED
  BY <1>18, <1>19 DEF Detached

\* g is h with the block at mb free, in one block with its free neighbours from a up
\* to n.
Merged(h, g, P, mb, a, n) ==
  /\ a \in Addr /\ n \in Addr /\ a <= mb /\ mb < n /\ g.hdr[a].sz = n - a
  /\ Sound(g, P) /\ Held(g) = Held(h) \ {mb}
  /\ FreeNodes(g) = (FreeNodes(h) \ (a .. n - 1)) \cup {a}
  /\ Told(h) => Told(g)
  /\ StaysWild(h, g) /\ g.cur = h.cur

LEMMA JoinDone ==
  ASSUME NEW h, NEW P, NEW e \in 1 .. MemLen + 1, PoolsApart(P, e), Sound(h, P),
         NEW mb \in Held(h), NEW a, NEW n, NEW h1, Joined(h, h1, P, mb, a, n),
         NEW g, Words(g), SameLinks(h1, g), g.foot = h1.foot,
         \A b \in Addr : b # n => g.hdr[b] = h1.hdr[b],
         g.hdr[n].sz = h.hdr[n].sz, g.hdr[n].alloc = h.hdr[n].alloc,
         Told(h) => g.hdr[n].palloc = FALSE
  PROVE  Merged(h, g, P, mb, a, n)
<1>1. /\ Region(h, P, a, n) /\ Words(h1) /\ StaysWild(h, h1) /\ h1.cur = h.cur
      /\ \A b \in Addr : b < a \/ n <= b => h1.hdr[b] = h.hdr[b] /\ h1.foot[b] = h.foot[b]
      /\ h1.hdr[a] = Tag(n - a, FALSE, h.hdr[a].palloc)
      /\ \A b \in Addr : a < b /\ b < n => h1.hdr[b].sz = 0
      /\ h1.foot[n - 1] = n - a
      /\ a \in Int /\ a <= mb /\ mb < n
      /\ \A b \in Held(h) : b # mb => b < a \/ n <= b
  BY DEF Joined
<1>2. a \in Addr /\ a \in Int /\ n \in Addr /\ n \in Int /\ mb \in Int /\ a < n
  <2>1. a \in Addr /\ mb \in Addr /\ n \in Addr /\ a < n
    BY <1>1 DEF Region, Blocks, Held
  <2> QED
    BY <2>1 DEF Addr
<1>3. PICK al \in BOOLEAN : al = FALSE
  OBVIOUS
<1>4. g.hdr[a] = Tag(n - a, FALSE, h.hdr[a].palloc)
  <2>1. a # n
    BY <1>2
  <2> QED
    BY <2>1, <1>1, <1>2
<1>5. g.hdr[a].sz = n - a /\ g.hdr[a].alloc = FALSE /\ g.hdr[a].palloc = h.hdr[a].palloc
  BY <1>4 DEF Tag
<1>6. Recut(h, g, a, n, n, al)
  <2>1. ASSUME NEW b \in Addr, b < a \/ n < b PROVE g.hdr[b] = h.hdr[b]
    <3>1. b # n /\ (b < a \/ n <= b)
      BY <2>1, <1>2 DEF Addr
    <3> QED
      BY <3>1, <1>1
  <2>2. \A b \in Addr : b < a \/ n <= b => g.foot[b] = h.foot[b]
    BY <1>1
  <2>3. ASSUME NEW b \in Addr, a < b /\ b < n PROVE g.hdr[b].sz = 0
    <3>1. b # n
      BY <2>3, <1>2
    <3>2. g.hdr[b] = h1.hdr[b]
      BY <3>1
    <3> QED
      BY <3>2, <2>3, <1>1
  <2>4. ~ (n < n)
    BY <1>2
  <2> QED
    BY <1>1, <1>3, <1>5, <2>1, <2>2, <2>3, <2>4 DEF Recut
<1>7. n <= n
  BY <1>2
<1>8. /\ Sound(g, P) /\ Accounts(h, g, a, n, n, al)
      /\ Told(h) /\ Closed(g, n, n, al) => Told(g)
  BY <1>1, <1>2, <1>6, <1>7, RecutSound
<1>9. Told(h) => Closed(g, n, n, al)
  BY DEF Closed
<1>10. ~ (n < n)
  BY <1>2
<1>11. FreeBlocks(g) = (FreeBlocks(h) \ (a .. n - 1)) \cup {a}
  BY <1>3, <1>8, <1>10 DEF Accounts, FreeAfter
<1>12. Held(g) = Held(h) \ (a .. n - 1)
  BY <1>3, <1>8 DEF Accounts, HeldAfter
<1>13. Held(g) = Held(h) \ {mb}
  <2>1. mb \in a .. n - 1
    BY <1>1, <1>2
  <2>2. ASSUME NEW b \in Held(h), b # mb PROVE b \notin a .. n - 1
    <3>1. b \in Int
      BY DEF Held, Blocks, Addr
    <3> QED
      BY <3>1, <2>2, <1>1, <1>2
  <2> QED
    BY <2>1, <2>2, <1>12
<1>14. FreeNodes(g) = (FreeNodes(h) \ (a .. n - 1)) \cup {a}
  <2>1. Head \notin a .. n - 1
    BY <1>2 DEF Head, Addr
  <2> QED
    BY <2>1, <1>11 DEF FreeNodes
<1>15. StaysWild(h, g) /\ g.cur = h.cur
  BY <1>1 DEF StaysWild, SameLinks
<1> QED
  BY <1>1, <1>2, <1>5, <1>8, <1>9, <1>13, <1>14, <1>15 DEF Merged

\* coalesce up to the block that follows; a is coalesced_at(h, mb).
CoalesceBack(h, mb, a, len) ==
  LET t  == h.hdr[mb]
      h0 == set_free_mb(h, mb, t.sz, [t EXCEPT !.alloc = FALSE])
      r  == l_rem(h0, a)
  IN  IF t.palloc THEN h0 ELSE set_free_mb(r, a, len, [r.hdr[a] EXCEPT !.sz = len])

LEMMA BackIs ==
  ASSUME NEW h, NEW P, NEW e \in 1 .. MemLen + 1, PoolsApart(P, e), Sound(h, P),
         NEW mb \in Held(h), NEW n, n = mb + h.hdr[mb].sz,
         NEW a, a = coalesced_at(h, mb), NEW len, len = h.hdr[mb].sz + (mb - a),
         NEW h1, h1 = CoalesceBack(h, mb, a, len)
  PROVE  Joined(h, h1, P, mb, a, n) /\ Detached(h, h1, mb, a, n) /\ len \in Nat /\ a + len = n
<1>0. PICK t : t = h.hdr[mb]
  OBVIOUS
<1>1. mb \in Blocks(h) /\ Words(h)
  BY DEF Held, Sound
<1>2. Bounds(h, mb, n)
  BY <1>1, BlockIs
<1>3. mb \in Int /\ n \in Int /\ t.sz \in Nat /\ t.palloc \in BOOLEAN /\ mb < n /\ t.sz = n - mb
  BY <1>0, <1>2 DEF Bounds, HdrT
<1>8. PICK h0 : h0 = set_free_mb(h, mb, t.sz, [t EXCEPT !.alloc = FALSE])
  OBVIOUS
<1>9. PICK r : r = l_rem(h0, a)
  OBVIOUS
<1>4. Joined(h, h0, P, mb, mb, n) /\ Detached(h, h0, mb, mb, n)
  BY <1>0, <1>8, JoinOne
<1>5. CASE t.palloc = TRUE
  <2>1. a = mb /\ h1 = h0
    BY <1>0, <1>5, <1>8 DEF coalesced_at, CoalesceBack
  <2>2. len \in Nat /\ a + len = n
    BY <2>1, <1>0, <1>3
  <2> QED
    BY <2>1, <2>2, <1>4
<1>6. CASE t.palloc = FALSE
  <2>1. a = mb - h.foot[mb - 1]
    BY <1>0, <1>6 DEF coalesced_at
  <2>2. a \in FreeBlocks(h) /\ h.hdr[a].sz = h.foot[mb - 1]
    BY <2>1, <1>0, <1>1, <1>6, PrevFree
  <2>3. a \in Int /\ h.hdr[a].sz \in Nat
    <3>1. a \in Blocks(h)
      BY <2>2 DEF FreeBlocks
    <3>2. PICK k : k = a + h.hdr[a].sz
      OBVIOUS
    <3>3. Bounds(h, a, k)
      BY <3>1, <3>2, BlockIs
    <3> QED
      BY <3>3 DEF Bounds
  <2>4. a + h.hdr[a].sz = mb
    BY <2>1, <2>2, <2>3, <1>3
  <2>5. len \in Nat /\ a + len = n
    BY <2>3, <2>4, <1>0, <1>3
  <2>6. h1 = set_free_mb(r, a, len, [r.hdr[a] EXCEPT !.sz = len])
    BY <1>0, <1>6, <1>8, <1>9 DEF CoalesceBack
  <2>7. Joined(h, h1, P, mb, a, n) /\ Detached(h, h1, mb, a, n)
    <3>1. /\ a \in FreeBlocks(h) /\ a + h.hdr[a].sz = mb /\ len \in Nat /\ a + len = n
          /\ n = mb + h.hdr[mb].sz /\ r = l_rem(h0, a)
          /\ h1 = set_free_mb(r, a, len, [r.hdr[a] EXCEPT !.sz = len])
      BY <2>2, <2>4, <2>5, <2>6, <1>9
    <3> QED
      BY <3>1, <1>4, JoinBack
  <2> QED
    BY <2>5, <2>7
<1>7. t.palloc = TRUE \/ t.palloc = FALSE
  BY <1>3
<1> QED
  BY <1>5, <1>6, <1>7

LEMMA CoalesceIs ==
  ASSUME NEW h, NEW P, NEW e \in 1 .. MemLen + 1, PoolsApart(P, e), Sound(h, P),
         NEW mb \in Held(h), NEW a, a = coalesced_at(h, mb), NEW g, g = coalesce(h, mb)
  PROVE  \E hi : Merged(h, g, P, mb, a, hi) /\ Detached(h, g, mb, a, hi)
<1>1. PICK t, n : t = h.hdr[mb] /\ n = mb + h.hdr[mb].sz
  OBVIOUS
<1>2. PICK len : len = t.sz + (mb - a)
  OBVIOUS
<1>5. PICK h1 : h1 = CoalesceBack(h, mb, a, len)
  OBVIOUS
<1>6. Joined(h, h1, P, mb, a, n) /\ Detached(h, h1, mb, a, n) /\ len \in Nat /\ a + len = n
  BY <1>1, <1>2, <1>5, BackIs
<1>7. PICK r : r = l_rem(h1, n)
  OBVIOUS
<1>8. PICK len2 : len2 = len + h1.hdr[n].sz
  OBVIOUS
<1>9. g = IF h1.hdr[n].alloc THEN PrevCleared(h1, n)
          ELSE set_free_mb(r, a, len2, [r.hdr[a] EXCEPT !.sz = len2])
  BY <1>1, <1>2, <1>5, <1>6, <1>7, <1>8 DEF coalesce, CoalesceBack, PrevCleared
<1>10. Words(h) /\ mb \in Blocks(h)
  BY DEF Sound, Held
<1>11. Bounds(h, mb, n)
  BY <1>1, <1>10, BlockIs
<1>12. n \in Addr /\ n \in Int /\ h.hdr[n] \in HdrT
  BY <1>11 DEF Bounds
<1>13. h1.hdr[n] = h.hdr[n] /\ Words(h1)
  BY <1>6, <1>12 DEF Joined
<1>14. CASE h.hdr[n].alloc = TRUE
  <2>1. g = PrevCleared(h1, n)
    BY <1>9, <1>13, <1>14
  <2>2. /\ Words(g) /\ SameLinks(h1, g) /\ g.foot = h1.foot
        /\ WroteTag(h1, g, n, Tag(h1.hdr[n].sz, h1.hdr[n].alloc, FALSE))
    BY <2>1, <1>12, <1>13, ClearPrev
  <2>3. \A b \in Addr : b # n => g.hdr[b] = h1.hdr[b]
    BY <2>2 DEF WroteTag
  <2>4. g.hdr[n].sz = h.hdr[n].sz /\ g.hdr[n].alloc = h.hdr[n].alloc /\ g.hdr[n].palloc = FALSE
    <3>1. g.hdr[n] = Tag(h.hdr[n].sz, h.hdr[n].alloc, FALSE)
      BY <2>2, <1>12, <1>13 DEF WroteTag
    <3> QED
      BY <3>1 DEF Tag
  <2>5. Merged(h, g, P, mb, a, n)
    BY <2>2, <2>3, <2>4, <1>6, JoinDone
  <2>6. Detached(h, g, mb, a, n)
    <3>1. g.nxt = h1.nxt /\ g.prv = h1.prv /\ g.wild = h1.wild
      BY <2>2 DEF SameLinks
    <3> QED
      BY <3>1, <1>6 DEF Detached, Circles, Besides
  <2> QED
    BY <2>5, <2>6
<1>15. CASE h.hdr[n].alloc = FALSE
  <2>1. g = set_free_mb(r, a, len2, [r.hdr[a] EXCEPT !.sz = len2])
    BY <1>9, <1>13, <1>15
  <2>2. n \in FreeBlocks(h) /\ n \in Blocks(h)
    <3>1. ~ h.hdr[n].alloc
      BY <1>15
    <3> QED
      BY <3>1, <1>1, <1>10, NextFree
  <2>3. PICK hi : hi = n + h.hdr[n].sz
    OBVIOUS
  <2>4. Bounds(h, n, hi)
    BY <2>2, <2>3, BlockIs
  <2>5. len2 \in Nat /\ a + len2 = hi
    <3>1. h.hdr[n].sz \in Nat /\ a \in Int
      BY <2>4, <1>6 DEF Bounds, Joined
    <3> QED
      BY <3>1, <2>3, <1>6, <1>8, <1>12, <1>13
  <2>6. Joined(h, g, P, mb, a, hi) /\ Detached(h, g, mb, a, hi)
    BY <2>1, <2>2, <2>3, <2>5, <1>6, <1>7, JoinNext
  <2>7. Words(g) /\ SameLinks(g, g) /\ g.hdr[hi] = h.hdr[hi]
    <3>1. hi \in Addr /\ hi <= hi
      BY <2>4 DEF Bounds
    <3>2. Words(g) /\ \A b \in Addr : b < a \/ hi <= b => g.hdr[b] = h.hdr[b] /\ g.foot[b] = h.foot[b]
      BY <2>6 DEF Joined
    <3> QED
      BY <3>1, <3>2 DEF SameLinks
  <2>8. Told(h) => g.hdr[hi].palloc = FALSE
    <3>1. Told(h) => h.hdr[hi].palloc = FALSE
      BY <2>2, <2>3, <1>15 DEF Told
    <3> QED
      BY <3>1, <2>7
  <2>9. Merged(h, g, P, mb, a, hi)
    BY <2>6, <2>7, <2>8, JoinDone
  <2> QED
    BY <2>6, <2>9
<1> QED
  BY <1>12, <1>14, <1>15 DEF HdrT

\* g is h with the block the caller held at mb free.
Freed(h, g, P, mb) ==
  /\ Sound(g, P) /\ Held(g) = Held(h) \ {mb}
  /\ Told(h) => Told(g)
  /\ Linked(h) /\ g.wild = FALSE => Linked(g)
  /\ StaysWild(h, g)

LEMMA FreeIs ==
  ASSUME NEW h, NEW P, NEW e \in 1 .. MemLen + 1, PoolsApart(P, e), Sound(h, P),
         NEW mb \in Held(h), NEW g, g = free_block(h, mb)
  PROVE  Freed(h, g, P, mb)
<1>1. PICK a : a = coalesced_at(h, mb)
  OBVIOUS
<1>2. PICK h1 : h1 = coalesce(h, mb)
  OBVIOUS
<1>3. PICK n : Merged(h, h1, P, mb, a, n) /\ Detached(h, h1, mb, a, n)
  BY <1>1, <1>2, CoalesceIs
<1>4. /\ a \in Addr /\ n \in Addr /\ a <= mb /\ mb < n /\ h1.hdr[a].sz = n - a
      /\ Sound(h1, P) /\ Held(h1) = Held(h) \ {mb}
      /\ FreeNodes(h1) = (FreeNodes(h) \ (a .. n - 1)) \cup {a}
      /\ Told(h) => Told(h1)
      /\ StaysWild(h, h1) /\ h1.cur = h.cur
  BY <1>3 DEF Merged
<1>5. a \in Int /\ n \in Int /\ mb \in Int /\ mb \in Addr /\ Words(h1) /\ a + h1.hdr[a].sz = n
  BY <1>4 DEF Addr, Held, Blocks, Sound
<1>6. PICK h2 : h2 = IF a <= h1.cur /\ h1.cur < n THEN WithCur(h1, a) ELSE h1
  OBVIOUS
<1>7. g = l_ins(h2, h2.prv[h2.cur], a)
  BY <1>1, <1>2, <1>5, <1>6 DEF free_block, WithCur
<1>8. /\ SameWords(h1, h2) /\ h2.nxt = h1.nxt /\ h2.prv = h1.prv /\ h2.wild = h1.wild
      /\ (a <= h1.cur /\ h1.cur < n => h2.cur = a)
      /\ (~ (a <= h1.cur /\ h1.cur < n) => h2.cur = h.cur)
  BY <1>4, <1>5, <1>6, SetCur DEF SameWords
<1>9. Words(h2) /\ h2.hdr = h1.hdr /\ h2.foot = h1.foot
  BY <1>8 DEF SameWords
<1>10. SameWords(h2, g) /\ StaysWild(h2, g) /\ g.cur = h2.cur
  BY <1>7, <1>9, InsWords
<1>11. Words(g) /\ g.hdr = h1.hdr /\ g.foot = h1.foot
  BY <1>9, <1>10 DEF SameWords
<1>12. /\ Sound(g, P) /\ Held(g) = Held(h1) /\ FreeBlocks(g) = FreeBlocks(h1)
       /\ (Told(h1) => Told(g))
  <2>1. Blocks(g) = Blocks(h1) /\ FreeBlocks(g) = FreeBlocks(h1)
    BY <1>11 DEF Blocks, FreeBlocks
  <2>2. Layout(h1, P)
    BY <1>4 DEF Sound
  <2>3. Layout(g, P)
    BY <2>1, <2>2, <1>11 DEF Layout, Placed, Covered, Apart, Ended, Tags
  <2>4. Told(h1) => Told(g)
    BY <2>1, <1>11 DEF Told
  <2> QED
    BY <2>1, <2>3, <2>4, <1>11 DEF Sound, Held
<1>13. FreeNodes(g) = (FreeNodes(h) \ (a .. n - 1)) \cup {a}
  BY <1>4, <1>12 DEF FreeNodes
<1>14. StaysWild(h, g)
  BY <1>4, <1>8, <1>10 DEF StaysWild
<1>15. ASSUME Linked(h), g.wild = FALSE PROVE Linked(g)
  <2>1. PICK F : F = FreeNodes(h) \ (a .. n - 1)
    OBVIOUS
  <2>2. h2.wild = FALSE /\ h1.wild = FALSE
    BY <1>8, <1>10, <1>15 DEF StaysWild
  <2>3. /\ Circles(h2, F) /\ Besides(h, h2, FreeNodes(h))
        /\ a # mb => h2.nxt[a] = a /\ h2.prv[a] = a
    BY <2>1, <2>2, <1>3, <1>8, <1>15 DEF Detached, Circles, Besides
  <2>4. a \in Node /\ a \notin F
    <3>1. a \in a .. n - 1
      BY <1>4, <1>5
    <3> QED
      BY <3>1, <2>1, <1>4 DEF Node, Addr
  <2>5. ASSUME NEW b \in Held(h)
        PROVE  b \in Node /\ b \notin FreeNodes(h) /\ h2.prv[b] = Junk /\ h2.nxt[b] = Junk
    <3>1. b \in Node /\ b \notin FreeNodes(h)
      BY DEF Held, Blocks, FreeBlocks, FreeNodes, Addr, Node, Head
    <3>2. h.prv[b] = Junk /\ h.nxt[b] = Junk
      BY <1>15 DEF Linked, Bare
    <3> QED
      BY <3>1, <3>2, <2>3 DEF Besides
  <2>6. h2.prv[h2.cur] # Junk
    <3>0. SUFFICES ASSUME h2.prv[h2.cur] = Junk PROVE FALSE
      OBVIOUS
    <3>1. g = [h2 EXCEPT !.wild = TRUE]
      BY <3>0, <1>7 DEF l_ins
    <3>2. g.wild = TRUE
      BY <3>1, <1>9 DEF Words, Fields
    <3> QED
      BY <3>2, <1>15
  <2>7. \E p : Inserted(h2, g, F, p, a) /\ g.cur \in F \cup {a}
    <3>1. CASE a <= h1.cur /\ h1.cur < n
      <4>1. h2.cur = a
        BY <3>1, <1>8
      <4>2. a # mb
        BY <4>1, <2>5, <2>6
      <4>3. h2.nxt[a] = a /\ h2.prv[a] = a /\ g = l_ins(h2, a, a)
        BY <4>1, <4>2, <2>3, <1>7
      <4>4. Inserted(h2, g, F, a, a)
        BY <4>3, <2>3, <2>4, <1>9, <1>15, CirclesSelf
      <4>5. g.cur = a
        BY <4>1, <1>10
      <4> QED
        BY <4>4, <4>5
    <3>2. CASE ~ (a <= h1.cur /\ h1.cur < n)
      <4>1. h2.cur = h.cur /\ h1.cur = h.cur
        BY <3>2, <1>4, <1>8
      <4>2. h.cur \in FreeNodes(h) \cup Held(h)
        BY <1>15 DEF Linked
      <4>3. h.cur \notin Held(h)
        BY <4>1, <2>5, <2>6
      <4>4. h.cur \in F
        <5>1. h.cur \notin a .. n - 1
          BY <4>1, <3>2, <1>5
        <5> QED
          BY <5>1, <4>2, <4>3, <2>1
      <4>5. PICK p : p = h2.prv[h2.cur]
        OBVIOUS
      <4>6. p \in F
        BY <4>1, <4>4, <4>5, <2>3 DEF Circles
      <4>7. Inserted(h2, g, F, p, a)
        <5>1. /\ Words(h2) /\ Circles(h2, F) /\ p \in F /\ a \in Node /\ a \notin F
              /\ g = l_ins(h2, p, a) /\ g.wild = FALSE
          BY <4>5, <4>6, <2>3, <2>4, <1>7, <1>9, <1>15
        <5> QED
          BY <5>1, CirclesIns
      <4>8. g.cur \in F
        BY <4>1, <4>4, <1>10
      <4> QED
        BY <4>7, <4>8
    <3> QED
      BY <3>1, <3>2
  <2>8. Circles(g, F \cup {a}) /\ Besides(h2, g, F \cup {a}) /\ g.cur \in F \cup {a}
    BY <2>7 DEF Inserted
  <2>9. F \cup {a} = FreeNodes(g)
    BY <2>1, <1>13
  <2>10. ASSUME NEW b \in Held(g) PROVE g.nxt[b] = Junk /\ g.prv[b] = Junk
    <3>1. b \notin FreeNodes(g)
      BY DEF Held, Blocks, FreeBlocks, FreeNodes, Addr, Head
    <3>2. b \in Held(h) /\ b \notin F \cup {a}
      BY <3>1, <2>9, <1>4, <1>12
    <3> QED
      BY <3>2, <2>5, <2>8 DEF Besides
  <2> QED
    BY <2>8, <2>9, <2>10 DEF Linked, Bare
<1> QED
  BY <1>4, <1>12, <1>14, <1>15 DEF Freed

-----------------------------------------------------------------------------
(* Blocks resized where they are.                                            *)

\* g is h with some block the caller holds resized.  Its tags and links are less
\* sound than those of h, and g may be wild.
Reshaped(h, g, P) ==
  /\ g.wild \in BOOLEAN
  /\ g.wild = FALSE => Sound(g, P) /\ Held(g) = Held(h)

\* g is h with the block at mb cut at m and a free block from there up to hi.
Shortened(h, g, mb, m, hi) ==
  /\ \A b \in Addr : b < mb \/ hi <= b => g.hdr[b] = h.hdr[b] /\ g.foot[b] = h.foot[b]
  /\ g.hdr[mb] = Tag(m - mb, TRUE, h.hdr[mb].palloc)
  /\ \A b \in Addr : mb < b /\ b < m => g.hdr[b] = h.hdr[b]
  /\ g.hdr[m] = Tag(hi - m, FALSE, TRUE)
  /\ \A b \in Addr : m < b /\ b < hi => g.hdr[b].sz = 0
  /\ g.foot[hi - 1] = hi - m

LEMMA ShortenedIs ==
  ASSUME NEW h, NEW P, NEW e \in 1 .. MemLen + 1, PoolsApart(P, e), Sound(h, P),
         NEW mb \in Held(h), NEW n, n = mb + h.hdr[mb].sz, NEW m \in Int, mb < m, m < n,
         NEW hi \in Int, n <= hi, Region(h, P, mb, hi),
         \A b \in Held(h) : b # mb => b < mb \/ hi <= b,
         NEW g, Words(g), Shortened(h, g, mb, m, hi)
  PROVE  Sound(g, P) /\ Held(g) = Held(h)
<1>1. Words(h) /\ mb \in Blocks(h)
  BY DEF Sound, Held
<1>2. Bounds(h, mb, n)
  BY <1>1, BlockIs
<1>3. mb \in Addr /\ mb \in Int /\ n \in Int /\ n \in Addr /\ m \in Addr /\ hi \in Addr
  <2>1. mb \in Addr /\ mb \in Int /\ n \in Int /\ n \in Addr /\ hi \in Addr
    BY <1>2 DEF Bounds, Region
  <2> QED
    BY <2>1, BlockAssumption DEF Addr
<1>4. /\ \A b \in Addr : b < mb \/ hi <= b => g.hdr[b] = h.hdr[b] /\ g.foot[b] = h.foot[b]
      /\ g.hdr[mb] = Tag(m - mb, TRUE, h.hdr[mb].palloc)
      /\ \A b \in Addr : mb < b /\ b < m => g.hdr[b] = h.hdr[b]
      /\ g.hdr[m] = Tag(hi - m, FALSE, TRUE)
      /\ \A b \in Addr : m < b /\ b < hi => g.hdr[b].sz = 0
      /\ g.foot[hi - 1] = hi - m
  BY DEF Shortened
<1>5. PICK al \in BOOLEAN : al = TRUE
  OBVIOUS
<1>6. Recut(h, g, mb, m, hi, al)
  <2>1. ASSUME NEW b \in Addr, b < mb \/ hi < b PROVE g.hdr[b] = h.hdr[b]
    <3>1. b < mb \/ hi <= b
      BY <2>1 DEF Addr
    <3> QED
      BY <3>1, <1>4
  <2>2. \A b \in Addr : b < mb \/ hi <= b => g.foot[b] = h.foot[b]
    BY <1>4
  <2>3. g.hdr[mb].sz = m - mb /\ g.hdr[mb].alloc = al /\ g.hdr[mb].palloc = h.hdr[mb].palloc
    BY <1>4, <1>5 DEF Tag
  <2>4. g.hdr[m].sz = hi - m /\ g.hdr[m].alloc = FALSE /\ g.hdr[m].palloc = TRUE
    BY <1>4 DEF Tag
  <2>5. ASSUME NEW b \in Addr, mb < b /\ b < hi /\ b # m PROVE g.hdr[b].sz = 0
    <3>1. CASE b < m
      <4>1. b \notin Blocks(h)
        <5> SUFFICES ASSUME b \in Blocks(h) PROVE FALSE
          OBVIOUS
        <5>1. b # mb
          BY <2>5, <1>3
        <5>2. b < mb \/ n <= b
          BY <5>1, <1>1, NoneWithin
        <5> QED
          BY <5>2, <2>5, <3>1, <1>3 DEF Addr
      <4>2. h.hdr[b].sz \in Nat
        BY <1>1 DEF Words, HdrT
      <4>3. g.hdr[b] = h.hdr[b]
        BY <2>5, <3>1, <1>4
      <4> QED
        BY <4>1, <4>2, <4>3 DEF Blocks
    <3>2. CASE m < b
      BY <3>2, <2>5, <1>4
    <3> QED
      BY <3>1, <3>2, <2>5 DEF Addr
  <2>6. g.hdr[hi] = h.hdr[hi]
    <3>1. hi <= hi
      OBVIOUS
    <3> QED
      BY <3>1, <1>3, <1>4
  <2>7. m < hi
    BY <1>3
  <2> QED
    BY <1>4, <1>5, <2>1, <2>2, <2>3, <2>4, <2>5, <2>6, <2>7 DEF Recut
<1>7. m <= hi
  BY <1>3
<1>8. Sound(g, P) /\ Accounts(h, g, mb, m, hi, al)
  BY <1>6, <1>7, RecutSound
<1>9. Held(g) = (Held(h) \ (mb .. hi - 1)) \cup {mb}
  BY <1>5, <1>8 DEF Accounts, HeldAfter
<1>10. ASSUME NEW b \in Held(h), b # mb PROVE b \notin mb .. hi - 1
  <2>1. b \in Int
    BY DEF Held, Blocks, Addr
  <2> QED
    BY <2>1, <1>3, <1>10
<1> QED
  BY <1>8, <1>9, <1>10

LEMMA ShrinkIs ==
  ASSUME NEW h, NEW P, NEW e \in 1 .. MemLen + 1, PoolsApart(P, e), Sound(h, P),
         NEW mb \in Held(h), NEW sz \in Nat, sz > 0, sz <= h.hdr[mb].sz,
         NEW g, g = shrink_alloc_block(h, mb, sz)
  PROVE  Reshaped(h, g, P)
<1>1. Words(h) /\ mb \in Blocks(h) /\ mb \notin FreeBlocks(h) /\ MinNU \in Nat /\ MinNU > 0
  BY BlockAssumption DEF Sound, Held
<1>2. PICK n : n = mb + h.hdr[mb].sz
  OBVIOUS
<1>3. Bounds(h, mb, n) /\ Region(h, P, mb, n)
  BY <1>1, <1>2, BlockIs
<1>4. /\ mb \in Addr /\ mb \in Int /\ n \in Addr /\ n \in Int /\ mb < n
      /\ h.hdr[mb].sz \in Nat /\ h.hdr[mb].sz = n - mb /\ h.hdr[n] \in HdrT
      /\ h.hdr[mb] \in HdrT
  BY <1>3 DEF Bounds
<1>5. PICK joins \in BOOLEAN : joins = ~ h.hdr[n].alloc
  BY <1>4 DEF HdrT
<1>6. PICK nsz \in Nat : nsz = IF joins THEN h.hdr[n].sz ELSE 0
  BY <1>4 DEF HdrT
<1>7. PICK h1 : h1 = IF joins THEN l_rem(h, n) ELSE h
  OBVIOUS
<1>8. PICK m \in Int : m = mb + sz
  BY <1>4
<1>9. PICK nbsz \in Int : nbsz = h.hdr[mb].sz - sz + nsz
  BY <1>4
<1>10. PICK h2 : h2 = set_free_mb(h1, m, nbsz, Tag(nbsz, FALSE, TRUE))
  OBVIOUS
<1>11. PICK h3 : h3 = l_ins(h2, h2.cur, m)
  OBVIOUS
<1>12. g = h \/ (h.hdr[mb].sz - sz >= MinNU /\ g = WithSize(h3, mb, sz))
  <2>1. h.hdr[mb].sz - sz < MinNU \/ h.hdr[mb].sz - sz >= MinNU
    BY <1>1, <1>4
  <2> QED
    BY <2>1, <1>2, <1>5, <1>6, <1>7, <1>8, <1>9, <1>10, <1>11
       DEF shrink_alloc_block, WithSize
<1>13. CASE g = h
  <2>1. h.wild \in BOOLEAN
    BY <1>1 DEF Words
  <2> QED
    BY <2>1, <1>13 DEF Reshaped
<1>14. CASE h.hdr[mb].sz - sz >= MinNU /\ g = WithSize(h3, mb, sz)
  <2>1. PICK hi \in Int : hi = n + nsz
    BY <1>4
  <2>2. /\ mb < m /\ m < n /\ n <= hi /\ nbsz \in Nat /\ m + nbsz = hi /\ nbsz = hi - m
        /\ sz = m - mb
    BY <2>1, <1>1, <1>4, <1>8, <1>9, <1>14
  <2>3. /\ Region(h, P, mb, hi) /\ hi \in Addr
        /\ \A b \in Held(h) : b # mb => b < mb \/ hi <= b
    <3>1. ASSUME NEW b \in Blocks(h), b # mb PROVE (b < mb \/ n <= b) /\ b \in Int
      BY <3>1, <1>1, <1>2, NoneWithin
    <3>2. CASE joins = TRUE
      <4>1. n \in FreeBlocks(h) /\ n \in Blocks(h)
        BY <3>2, <1>1, <1>2, <1>5, NextFree
      <4>2. hi = n + h.hdr[n].sz
        BY <3>2, <2>1, <1>6
      <4>3. Region(h, P, mb, hi)
        BY <4>1, <4>2, <1>1, <1>3, RegionJoin DEF Sound
      <4>4. ASSUME NEW b \in Held(h), b # mb PROVE b < mb \/ hi <= b
        <5>1. b \in Blocks(h) /\ b # n
          BY <4>1 DEF Held
        <5>2. b < n \/ hi <= b
          BY <5>1, <4>1, <4>2, NoneWithin
        <5> QED
          BY <5>1, <5>2, <3>1, <4>4, <1>4
      <4> QED
        BY <4>3, <4>4 DEF Region
    <3>3. CASE joins = FALSE
      <4>1. hi = n
        BY <3>3, <2>1, <1>4, <1>6
      <4> QED
        BY <4>1, <3>1, <1>3, <1>4 DEF Held
    <3> QED
      BY <3>2, <3>3
  <2>4. Words(h1) /\ h1.hdr = h.hdr /\ h1.foot = h.foot
    <3>1. CASE joins = TRUE
      <4>1. SameWords(h, h1)
        BY <3>1, <1>1, <1>7, RemWords
      <4> QED
        BY <4>1 DEF SameWords
    <3>2. CASE joins = FALSE
      BY <3>2, <1>1, <1>7
    <3> QED
      BY <3>1, <3>2
  <2>5. PICK tag \in HdrT : tag = Tag(nbsz, FALSE, TRUE)
    BY <2>2, TagTyped
  <2>6. m \in Addr
    BY <2>2, <1>4, BlockAssumption DEF Addr
  <2>7. Words(h2) /\ Wrote(h1, h2, m, hi, tag)
    BY <2>2, <2>4, <2>5, <2>6, <1>10, SetFree
  <2>8. SameWords(h2, h3)
    BY <2>7, <1>11, InsWords
  <2>9. Words(h3) /\ h3.hdr = h2.hdr /\ h3.foot = h2.foot
    BY <2>8 DEF SameWords
  <2>10. /\ Words(g) /\ g.foot = h3.foot
         /\ WroteTag(h3, g, mb, Tag(sz, h3.hdr[mb].alloc, h3.hdr[mb].palloc))
    <3>1. Words(h3) /\ mb \in Addr /\ sz \in Nat /\ g = WithSize(h3, mb, sz)
      BY <2>9, <1>4, <1>14
    <3> QED
      BY <3>1, SetSize
  <2>11. ASSUME NEW b \in Addr, b < m \/ hi <= b
         PROVE  /\ h2.hdr[b] = h.hdr[b]
                /\ h2.foot[b] = h.foot[b]
    <3>1. b # m /\ ~ (m < b /\ b < hi) /\ b # hi - 1 /\ ~ (m <= b /\ b < hi)
      BY <2>11, <2>2, <2>6, <1>4 DEF Addr
    <3> QED
      BY <3>1, <2>4, <2>7 DEF Wrote
  <2>12. ASSUME NEW b \in Addr, b # mb PROVE g.hdr[b] = h2.hdr[b]
    BY <2>9, <2>10, <2>12 DEF WroteTag
  <2>13. g.hdr[mb] = Tag(m - mb, TRUE, h.hdr[mb].palloc)
    <3>1. h.hdr[mb].alloc = TRUE
      BY <1>1, <1>4 DEF FreeBlocks, HdrT
    <3>2. h2.hdr[mb] = h.hdr[mb]
      BY <2>2, <2>11, <1>4
    <3> QED
      BY <3>1, <3>2, <2>2, <2>9, <2>10, <1>4 DEF WroteTag
  <2>14. ASSUME NEW b \in Addr, b < mb \/ hi <= b
         PROVE  g.hdr[b] = h.hdr[b] /\ g.foot[b] = h.foot[b]
    <3>1. b # mb /\ (b < m \/ hi <= b)
      BY <2>14, <2>2, <1>4 DEF Addr
    <3> QED
      BY <3>1, <2>9, <2>10, <2>11, <2>12
  <2>15. ASSUME NEW b \in Addr, mb < b /\ b < m PROVE g.hdr[b] = h.hdr[b]
    <3>1. b # mb
      BY <2>15, <1>4
    <3> QED
      BY <3>1, <2>11, <2>12, <2>15
  <2>16. g.hdr[m] = Tag(hi - m, FALSE, TRUE)
    <3>1. m # mb /\ h2.hdr[m] = tag
      BY <2>2, <2>6, <2>7, <1>4 DEF Wrote
    <3> QED
      BY <3>1, <2>2, <2>5, <2>6, <2>12
  <2>17. ASSUME NEW b \in Addr, m < b /\ b < hi PROVE g.hdr[b].sz = 0
    <3>1. b # m /\ b # mb
      BY <2>2, <2>17, <1>4 DEF Addr
    <3>2. h2.hdr[b] = Garbage
      BY <3>1, <2>7, <2>17 DEF Wrote
    <3> QED
      BY <3>1, <3>2, <2>12 DEF Garbage
  <2>18. g.foot[hi - 1] = hi - m
    <3>1. hi - 1 \in Addr
      BY <2>2, <2>3, <1>4, BlockAssumption DEF Addr
    <3> QED
      BY <3>1, <2>7, <2>9, <2>10 DEF Wrote
  <2>19. Shortened(h, g, mb, m, hi)
    BY <2>13, <2>14, <2>15, <2>16, <2>17, <2>18 DEF Shortened
  <2>20. Sound(g, P) /\ Held(g) = Held(h)
    BY <2>2, <2>3, <2>10, <2>19, <1>2, ShortenedIs
  <2>21. g.wild \in BOOLEAN
    BY <2>10 DEF Words
  <2> QED
    BY <2>20, <2>21 DEF Reshaped
<1> QED
  BY <1>12, <1>13, <1>14

LEMMA GrowIs ==
  ASSUME NEW h, NEW P, NEW e \in 1 .. MemLen + 1, PoolsApart(P, e), Sound(h, P),
         NEW mb \in Held(h), NEW n, n = mb + h.hdr[mb].sz, ~ h.hdr[n].alloc,
         NEW newamt \in Nat, newamt <= h.hdr[mb].sz + h.hdr[n].sz,
         NEW g, g = grow_into_next(h, mb, newamt)
  PROVE  Reshaped(h, g, P)
<1>1. Words(h) /\ mb \in Blocks(h) /\ MinNU \in Nat
  BY BlockAssumption DEF Sound, Held
<1>2. n \in FreeBlocks(h) /\ n \in Blocks(h)
  BY <1>1, NextFree
<1>3. PICK hi : hi = n + h.hdr[n].sz
  OBVIOUS
<1>4. Bounds(h, mb, n) /\ Region(h, P, mb, n) /\ Bounds(h, n, hi)
  BY <1>1, <1>2, <1>3, BlockIs
<1>5. /\ mb \in Addr /\ mb \in Int /\ n \in Addr /\ n \in Int /\ mb < n /\ n < hi
      /\ h.hdr[mb].sz \in Nat /\ h.hdr[mb].sz = n - mb /\ h.hdr[n].sz \in Nat
      /\ h.hdr[n].sz = hi - n /\ hi \in Addr /\ hi \in Int
  BY <1>4 DEF Bounds
<1>6. Region(h, P, mb, hi)
  BY <1>1, <1>2, <1>3, <1>4, RegionJoin DEF Sound
<1>7. PICK delta \in Nat : delta = h.hdr[mb].sz + h.hdr[n].sz - newamt
  BY <1>5
<1>8. PICK h1 : h1 = IF h.hdr[n].sz > delta + MinNU THEN split_block(h, n, delta) ELSE h
  OBVIOUS
<1>9. PICK r : r = l_rem(h1, n)
  OBVIOUS
<1>10. g = IF h1.wild THEN h1 ELSE give(r, mb, h.hdr[mb].sz + h1.hdr[n].sz)
  BY <1>7, <1>8, <1>9 DEF grow_into_next
<1>11. ASSUME g.wild = FALSE PROVE Sound(g, P) /\ Held(g) = Held(h)
  <2>1. h.hdr[n].sz > delta + MinNU => delta >= MinNU
    <3> SUFFICES ASSUME h.hdr[n].sz > delta + MinNU, delta < MinNU PROVE FALSE
      BY <1>1
    <3>1. h1 = [h EXCEPT !.wild = TRUE]
      BY <1>8 DEF split_block
    <3>2. h1.wild = TRUE
      BY <3>1, <1>1 DEF Words, Fields
    <3> QED
      BY <3>2, <1>10, <1>11
  <2>2. PICK m \in Int : Cut(h, h1, n, m, hi)
    BY <2>1, <1>2, <1>3, <1>8, CutIs
  <2>3. n < m /\ m <= hi /\ Opened(h, h1, n, m, hi) /\ h1.hdr[n].sz = m - n
    BY <2>2 DEF Cut
  <2>4. Words(h1)
    BY <2>3 DEF Opened
  <2>5. g = give(r, mb, h.hdr[mb].sz + h1.hdr[n].sz)
    <3>1. ~ h1.wild
      BY <1>10, <1>11
    <3> QED
      BY <3>1, <1>10
  <2>6. SameWords(h1, r)
    BY <2>4, <1>9, RemWords
  <2>7. Words(r) /\ r.hdr = h1.hdr /\ r.foot = h1.foot
    BY <2>6 DEF SameWords
  <2>8. PICK len \in Nat : len = h.hdr[mb].sz + h1.hdr[n].sz /\ mb + len = m
    BY <2>3, <1>5
  <2>9. Words(g) /\ Allotted(r, g, mb, m)
    BY <2>5, <2>7, <2>8, <1>5, GiveIs
  <2>10. Opened(h, r, mb, m, hi)
    <3>1. ASSUME NEW b \in Addr, b < mb \/ hi <= b
          PROVE  r.hdr[b] = h.hdr[b] /\ r.foot[b] = h.foot[b]
      <4>1. b < n \/ hi <= b
        BY <3>1, <1>5 DEF Addr
      <4> QED
        BY <4>1, <2>3, <2>7 DEF Opened
    <3>2. r.hdr[mb].palloc = h.hdr[mb].palloc
      BY <2>3, <2>7, <1>5 DEF Opened
    <3> QED
      BY <3>1, <3>2, <2>3, <2>7 DEF Opened
  <2>11. mb < m
    BY <2>3, <1>5
  <2>12. Told(h) => h.hdr[hi].palloc = FALSE
    <3>1. h.hdr[n].alloc = FALSE
      <4>1. ~ h.hdr[n].alloc /\ h.hdr[n] \in HdrT
        BY <1>4 DEF Bounds
      <4> QED
        BY <4>1 DEF HdrT
    <3> QED
      BY <3>1, <1>2, <1>3 DEF Told
  <2>13. Given(h, g, P, mb, m, hi)
    <3>1. Told(h) /\ m < hi => h.hdr[hi].palloc = FALSE
      BY <2>12
    <3> QED
      BY <3>1, <2>3, <2>8, <2>9, <2>10, <2>11, <1>6, TakeIs
  <2>14. Sound(g, P) /\ Held(g) = (Held(h) \ (mb .. hi - 1)) \cup {mb}
    BY <2>13 DEF Given, Accounts, HeldAfter
  <2>15. ASSUME NEW b \in Held(h), b # mb PROVE b \notin mb .. hi - 1
    <3>1. b \in Blocks(h) /\ b # n
      BY <1>2 DEF Held
    <3>2. (b < mb \/ n <= b) /\ (b < n \/ hi <= b) /\ b \in Int
      BY <3>1, <2>15, <1>1, <1>2, <1>3, NoneWithin
    <3> QED
      BY <3>1, <3>2, <1>5
  <2> QED
    BY <2>14, <2>15
<1>12. g.wild \in BOOLEAN
  <2>1. CASE h.hdr[n].sz > delta + MinNU /\ delta < MinNU
    <3>1. h1 = [h EXCEPT !.wild = TRUE]
      BY <2>1, <1>8 DEF split_block
    <3>2. h1.wild = TRUE
      BY <3>1, <1>1 DEF Words, Fields
    <3> QED
      BY <3>2, <1>10
  <2>2. CASE h.hdr[n].sz > delta + MinNU => delta >= MinNU
    <3>1. PICK m \in Int : Cut(h, h1, n, m, hi)
      BY <2>2, <1>2, <1>3, <1>8, CutIs
    <3>2. Words(h1)
      BY <3>1 DEF Cut, Opened
    <3>3. SameWords(h1, r)
      BY <3>2, <1>9, RemWords
    <3>4. DOMAIN r = Fields /\ r.wild \in BOOLEAN /\ h1.wild \in BOOLEAN
      BY <3>2, <3>3 DEF SameWords, Words
    <3>5. PICK len : len = h.hdr[mb].sz + h1.hdr[n].sz
      OBVIOUS
    <3>6. give(r, mb, len).wild = r.wild
      BY <3>4 DEF give, set_alloc_mb, Fields
    <3> QED
      BY <3>4, <3>5, <3>6, <1>10
  <2>3. \/ h.hdr[n].sz > delta + MinNU /\ delta < MinNU
        \/ h.hdr[n].sz > delta + MinNU => delta >= MinNU
    BY <1>1, <1>7
  <2> QED
    BY <2>1, <2>2, <2>3
<1> QED
  BY <1>11, <1>12 DEF Reshaped

-----------------------------------------------------------------------------
(* Pools added.                                                              *)

\* Pool p lies from base up, as long as there is memory.
Fits(p, base, len) ==
  /\ p = PoolAt(base, len) /\ p.start \in Nat /\ p.ulen \in Nat /\ p.ulen >= MinNU
  /\ base < p.start /\ PoolHdr < p.start /\ p.start < PoolEnd(p) /\ PoolEnd(p) < base + len
  /\ p.start \in Addr /\ PoolEnd(p) \in Addr /\ PoolEnd(p) \in Int /\ p.start \in Int
  /\ base + len \in 1 .. MemLen + 1

LEMMA PoolFits ==
  ASSUME NEW base \in 1 .. MemLen + 1, NEW P, PoolsApart(P, base),
         NEW len \in Nat, len >= PoolHdr + MinNU + 1, base + len - 1 <= MemLen,
         NEW p, p = PoolAt(base, len)
  PROVE  Fits(p, base, len) /\ PoolsApart(P \cup {p}, base + len)
<1>1. /\ PoolHdr \in Nat /\ PoolHdr > 0 /\ MinNU \in Nat /\ MinNU > 0 /\ MemLen \in Nat
      /\ base \in Int /\ base >= 1
  BY BlockAssumption
<1>2. p = [start |-> base + PoolHdr, ulen |-> len - PoolHdr - 1]
  BY DEF PoolAt
<1>3. p.start = base + PoolHdr /\ p.ulen = len - PoolHdr - 1
  BY <1>2
<1>4. p.start \in Nat /\ p.ulen \in Nat /\ p.ulen >= MinNU /\ PoolEnd(p) = base + len - 1
  BY <1>1, <1>3 DEF PoolEnd
<1>5. Fits(p, base, len)
  BY <1>1, <1>3, <1>4 DEF Fits, Addr, PoolEnd
<1>6. p \in [start : Nat, ulen : Nat]
  BY <1>2, <1>3, <1>4
<1>7. ASSUME NEW q \in P
      PROVE  /\ q.ulen > 0 /\ PoolHdr < q.start /\ PoolEnd(q) < base + len /\ PoolEnd(q) < p.start
             /\ q \in [start : Nat, ulen : Nat]
  <2>1. q \in [start : Nat, ulen : Nat] /\ q.ulen > 0 /\ PoolHdr < q.start /\ PoolEnd(q) < base
    BY DEF PoolsApart
  <2>2. PoolEnd(q) \in Int
    BY <2>1 DEF PoolEnd
  <2> QED
    BY <2>1, <2>2, <1>1, <1>3
<1>8. \A q, r \in P : q # r => PoolEnd(q) < r.start \/ PoolEnd(r) < q.start
  BY DEF PoolsApart
<1>9. p.ulen > 0 /\ PoolHdr < p.start /\ PoolEnd(p) < base + len
  BY <1>1, <1>4, <1>5 DEF Fits
<1>10. PoolsApart(P \cup {p}, base + len)
  <2>1. P \cup {p} \subseteq [start : Nat, ulen : Nat]
    BY <1>6, <1>7
  <2>2. \A q \in P \cup {p} : q.ulen > 0 /\ PoolHdr < q.start /\ PoolEnd(q) < base + len
    BY <1>7, <1>9
  <2>3. \A q, r \in P \cup {p} : q # r => PoolEnd(q) < r.start \/ PoolEnd(r) < q.start
    BY <1>7, <1>8
  <2> QED
    BY <2>1, <2>2, <2>3 DEF PoolsApart
<1> QED
  BY <1>5, <1>10

\* g is h with one free block from a up to n, and a sentinel at n.
Fresh(h, g, a, n) ==
  /\ Words(g)
  /\ \A b \in Addr : b < a \/ n < b => g.hdr[b] = h.hdr[b]
  /\ \A b \in Addr : b < a \/ n <= b => g.foot[b] = h.foot[b]
  /\ g.hdr[a] = Tag(n - a, FALSE, TRUE) /\ g.hdr[n] = Tag(0, TRUE, FALSE)
  /\ \A b \in Addr : a < b /\ b < n => g.hdr[b].sz = 0
  /\ g.foot[n - 1] = n - a

LEMMA FreshSound ==
  ASSUME NEW h, NEW P, NEW base \in 1 .. MemLen + 1, PoolsApart(P, base), Sound(h, P),
         NEW len \in Nat, NEW p, Fits(p, base, len),
         NEW g, Fresh(h, g, p.start, PoolEnd(p))
  PROVE  /\ Sound(g, P \cup {p}) /\ Held(g) = Held(h) /\ (Told(h) => Told(g))
         /\ FreeBlocks(g) = FreeBlocks(h) \cup {p.start} /\ p.start \notin Blocks(h)
<1>1. PICK a \in Addr, n \in Addr : a = p.start /\ n = PoolEnd(p)
  BY DEF Fits
<1>2. /\ a \in Int /\ n \in Int /\ base < a /\ a < n /\ base \in Int /\ p.start \in Nat
      /\ p.ulen \in Nat
  BY <1>1 DEF Fits, Addr
<1>3. Words(h) /\ Layout(h, P)
  BY DEF Sound
<1>4. /\ Words(g)
      /\ \A b \in Addr : b < a \/ n < b => g.hdr[b] = h.hdr[b]
      /\ \A b \in Addr : b < a \/ n <= b => g.foot[b] = h.foot[b]
      /\ g.hdr[a] = Tag(n - a, FALSE, TRUE) /\ g.hdr[n] = Tag(0, TRUE, FALSE)
      /\ \A b \in Addr : a < b /\ b < n => g.hdr[b].sz = 0
      /\ g.foot[n - 1] = n - a
  BY <1>1 DEF Fresh
<1>5. /\ g.hdr[a].sz = n - a /\ g.hdr[a].alloc = FALSE /\ g.hdr[a].palloc = TRUE
      /\ g.hdr[n].sz = 0 /\ g.hdr[n].alloc = TRUE /\ g.hdr[n].palloc = FALSE
  BY <1>4 DEF Tag
<1>6. ASSUME NEW b \in Blocks(h)
      PROVE  /\ b \in Addr /\ b \in Int /\ h.hdr[b].sz \in Nat /\ h.hdr[b].sz > 0
             /\ b < a /\ b + h.hdr[b].sz < a /\ b + h.hdr[b].sz \in Addr
             /\ g.hdr[b] = h.hdr[b]
             /\ g.hdr[b + h.hdr[b].sz] = h.hdr[b + h.hdr[b].sz]
             /\ g.foot[b + h.hdr[b].sz - 1] = h.foot[b + h.hdr[b].sz - 1]
  <2>1. PICK k : k = b + h.hdr[b].sz
    OBVIOUS
  <2>2. Bounds(h, b, k)
    BY <2>1, BlockIs
  <2>3. b \in Addr /\ b \in Int /\ h.hdr[b].sz \in Nat /\ h.hdr[b].sz > 0 /\ k \in Addr /\ k \in Int
        /\ b < k
    BY <2>2 DEF Bounds
  <2>4. PICK q \in P : q.start <= b /\ k <= PoolEnd(q)
    BY <2>1, <1>3 DEF Layout, Placed
  <2>5. PoolEnd(q) < base /\ PoolEnd(q) \in Int
    BY DEF PoolsApart, PoolEnd
  <2>6. k < a /\ b < a
    BY <2>3, <2>4, <2>5, <1>2
  <2>7. k - 1 \in Addr /\ k - 1 < a
    BY <2>3, <2>6, <1>2, BlockAssumption DEF Addr
  <2>8. g.foot[k - 1] = h.foot[k - 1] /\ g.hdr[b] = h.hdr[b] /\ g.hdr[k] = h.hdr[k]
    BY <2>3, <2>6, <2>7, <1>4
  <2> QED
    BY <2>1, <2>3, <2>6, <2>8
<1>7. ASSUME NEW b PROVE b \in Blocks(g) <=> b \in Blocks(h) \/ b = a
  <2>1. CASE b = a
    BY <2>1, <1>2, <1>5 DEF Blocks
  <2>2. CASE b # a /\ b \in Addr
    <3>1. CASE b < a \/ n < b
      BY <3>1, <2>2, <1>4 DEF Blocks
    <3>2. CASE a < b /\ b < n
      <4>1. b \notin Blocks(h)
        BY <3>2, <2>2, <1>2, <1>6 DEF Addr
      <4> QED
        BY <4>1, <3>2, <2>2, <1>4 DEF Blocks
    <3>3. CASE b = n
      <4>1. b \notin Blocks(h)
        BY <3>3, <1>2, <1>6
      <4> QED
        BY <4>1, <3>3, <2>2, <1>5 DEF Blocks
    <3> QED
      BY <3>1, <3>2, <3>3, <2>2, <1>2 DEF Addr
  <2>3. CASE b \notin Addr
    BY <2>3, <1>1 DEF Blocks
  <2> QED
    BY <2>1, <2>2, <2>3
<1>8. a \notin Blocks(h)
  BY <1>2, <1>6
<1>9. FreeBlocks(g) = FreeBlocks(h) \cup {a}
  <2>1. ASSUME NEW b \in Blocks(h) PROVE b \in FreeBlocks(g) <=> b \in FreeBlocks(h)
    <3>1. g.hdr[b] = h.hdr[b] /\ b \in Blocks(g)
      BY <1>6, <1>7
    <3> QED
      BY <3>1 DEF FreeBlocks
  <2>2. a \in FreeBlocks(g)
    BY <1>5, <1>7 DEF FreeBlocks
  <2> QED
    BY <2>1, <2>2, <1>7 DEF FreeBlocks
<1>10. Held(g) = Held(h)
  BY <1>7, <1>8, <1>9 DEF Held, FreeBlocks
<1>11. ASSUME NEW q \in P
       PROVE  /\ q.start \in Nat /\ q.ulen \in Nat /\ q.start \in Addr /\ PoolEnd(q) \in Addr
              /\ q.start < a /\ PoolEnd(q) < a /\ PoolEnd(q) \in Int
  <2>1. q.start \in Nat /\ q.ulen \in Nat /\ q.ulen > 0 /\ PoolHdr < q.start /\ PoolEnd(q) < base
    BY DEF PoolsApart
  <2> QED
    BY <2>1, <1>2, BlockAssumption DEF PoolEnd, Addr
<1>12. PICK Q : Q = P \cup {p}
  OBVIOUS
<1>13. Placed(g, Q)
  <2> SUFFICES ASSUME NEW b \in Blocks(g)
               PROVE  \E q \in Q : q.start <= b /\ b + g.hdr[b].sz <= PoolEnd(q)
    BY DEF Placed
  <2>1. CASE b \in Blocks(h)
    <3>1. PICK q \in P : q.start <= b /\ b + h.hdr[b].sz <= PoolEnd(q)
      BY <2>1, <1>3 DEF Layout, Placed
    <3> QED
      BY <2>1, <3>1, <1>6, <1>12
  <2>2. CASE b = a
    <3>1. p.start <= b /\ b + g.hdr[b].sz <= PoolEnd(p)
      BY <2>2, <1>1, <1>2, <1>5
    <3> QED
      BY <3>1, <1>12
  <2> QED
    BY <2>1, <2>2, <1>7
<1>14. Covered(g, Q)
  <2> SUFFICES ASSUME NEW q \in Q, NEW u \in PoolUnits(q)
               PROVE  \E b \in Blocks(g) : b <= u /\ u < b + g.hdr[b].sz
    BY DEF Covered
  <2>1. CASE q \in P
    <3>1. PICK b \in Blocks(h) : b <= u /\ u < b + h.hdr[b].sz
      BY <2>1, <1>3 DEF Layout, Covered
    <3> QED
      BY <3>1, <1>6, <1>7
  <2>2. CASE q = p
    <3>1. u \in Int /\ a <= u /\ u < n
      BY <2>2, <1>1, <1>2 DEF PoolUnits, PoolEnd
    <3>2. u < a + g.hdr[a].sz
      BY <3>1, <1>2, <1>5
    <3> QED
      BY <3>1, <3>2, <1>7
  <2> QED
    BY <2>1, <2>2, <1>12
<1>15. Apart(g)
  <2> SUFFICES ASSUME NEW b \in Blocks(g), NEW c \in Blocks(g), b < c
               PROVE  b + g.hdr[b].sz <= c
    BY DEF Apart
  <2>1. CASE b \in Blocks(h) /\ c \in Blocks(h)
    BY <2>1, <1>3, <1>6 DEF Layout, Apart
  <2>2. CASE b \in Blocks(h) /\ c = a
    <3>1. b + h.hdr[b].sz < a /\ b + h.hdr[b].sz \in Addr /\ g.hdr[b] = h.hdr[b]
      BY <2>2, <1>6
    <3> QED
      BY <2>2, <3>1, <1>2 DEF Addr
  <2>3. CASE b = a
    <3>1. c \in Blocks(h) => c < a /\ c \in Int
      BY <1>6
    <3> QED
      BY <3>1, <2>3, <1>2, <1>7
  <2> QED
    BY <2>1, <2>2, <2>3, <1>7
<1>16. Ended(g, Q)
  <2> SUFFICES ASSUME NEW q \in Q
               PROVE  /\ g.hdr[PoolEnd(q)].sz = 0 /\ g.hdr[PoolEnd(q)].alloc = TRUE
                      /\ g.hdr[q.start].palloc = TRUE
    BY DEF Ended
  <2>1. CASE q \in P
    <3>1. /\ h.hdr[PoolEnd(q)].sz = 0 /\ h.hdr[PoolEnd(q)].alloc = TRUE
          /\ h.hdr[q.start].palloc = TRUE
      BY <2>1, <1>3 DEF Layout, Ended
    <3>2. g.hdr[PoolEnd(q)] = h.hdr[PoolEnd(q)] /\ g.hdr[q.start] = h.hdr[q.start]
      BY <2>1, <1>4, <1>11
    <3> QED
      BY <3>1, <3>2
  <2>2. CASE q = p
    BY <2>2, <1>1, <1>5
  <2> QED
    BY <2>1, <2>2, <1>12
<1>17. Tags(g)
  <2> SUFFICES ASSUME NEW b \in Blocks(g), g.hdr[b + g.hdr[b].sz].palloc = FALSE
               PROVE  g.hdr[b].alloc = FALSE /\ g.foot[b + g.hdr[b].sz - 1] = g.hdr[b].sz
    BY DEF Tags
  <2>1. CASE b \in Blocks(h)
    <3>1. h.hdr[b + h.hdr[b].sz].palloc = FALSE
      BY <2>1, <1>6
    <3>2. h.hdr[b].alloc = FALSE /\ h.foot[b + h.hdr[b].sz - 1] = h.hdr[b].sz
      BY <2>1, <3>1, <1>3 DEF Layout, Tags
    <3> QED
      BY <2>1, <3>2, <1>6
  <2>2. CASE b = a
    <3>1. b + g.hdr[b].sz - 1 = n - 1
      BY <2>2, <1>2, <1>5
    <3> QED
      BY <2>2, <3>1, <1>4, <1>5
  <2> QED
    BY <2>1, <2>2, <1>7
<1>18. ASSUME Told(h) PROVE Told(g)
  <2> SUFFICES ASSUME NEW b \in Blocks(g), g.hdr[b].alloc = FALSE
               PROVE  g.hdr[b + g.hdr[b].sz].palloc = FALSE
    BY DEF Told
  <2>1. CASE b \in Blocks(h)
    <3>1. h.hdr[b + h.hdr[b].sz].palloc = FALSE
      BY <2>1, <1>6, <1>18 DEF Told
    <3> QED
      BY <2>1, <3>1, <1>6
  <2>2. CASE b = a
    <3>1. b + g.hdr[b].sz = n
      BY <2>2, <1>2, <1>5
    <3> QED
      BY <3>1, <1>5
  <2> QED
    BY <2>1, <2>2, <1>7
<1>19. Layout(g, Q)
  BY <1>13, <1>14, <1>15, <1>16, <1>17 DEF Layout
<1> QED
  BY <1>1, <1>4, <1>8, <1>9, <1>10, <1>12, <1>18, <1>19 DEF Sound

EndTag == Tag(0, TRUE, FALSE)
NewTag(len) == Tag(len, FALSE, TRUE)

\* The heap when a new pool is coalesced, before its block is inserted.
LEMMA FreshIs ==
  ASSUME NEW h, Words(h), NEW base \in 1 .. MemLen + 1, NEW len \in Nat,
         NEW p, Fits(p, base, len), NEW a, a = p.start, NEW n, n = PoolEnd(p),
         NEW hn, hn = WithTag(h, n, EndTag), NEW ha, ha = WithTag(hn, a, NewTag(p.ulen)),
         NEW g, g = coalesce(ha, a)
  PROVE  /\ Fresh(h, g, a, n) /\ SameLinks(h, g) /\ coalesced_at(ha, a) = a
<1>1. /\ a \in Addr /\ a \in Int /\ n \in Addr /\ n \in Int /\ a < n /\ p.ulen \in Nat
      /\ p.ulen > 0 /\ a + p.ulen = n /\ p.ulen = n - a
  BY BlockAssumption DEF Fits, PoolEnd
<1>2. PICK tn \in HdrT : tn = Tag(0, TRUE, FALSE) /\ tn = EndTag
  BY TagTyped DEF EndTag
<1>3. PICK ta \in HdrT : /\ ta = Tag(p.ulen, FALSE, TRUE) /\ ta.sz = p.ulen /\ ta.palloc = TRUE
                         /\ ta.alloc = FALSE /\ ta = NewTag(p.ulen)
  BY <1>1, TagTyped DEF NewTag
<1>4. Words(hn) /\ SameLinks(h, hn) /\ hn.foot = h.foot /\ WroteTag(h, hn, n, tn)
  <2>1. hn = WithTag(h, n, tn) /\ n \in Addr /\ Words(h) /\ tn \in HdrT
    BY <1>1, <1>2
  <2> QED
    BY ONLY <2>1, SetTag
<1>5. Words(ha) /\ SameLinks(hn, ha) /\ ha.foot = hn.foot /\ WroteTag(hn, ha, a, ta)
  <2>1. ha = WithTag(hn, a, ta) /\ a \in Addr /\ Words(hn) /\ ta \in HdrT
    BY <1>1, <1>3, <1>4
  <2> QED
    BY ONLY <2>1, SetTag
<1>24. a # n /\ a \in Addr /\ n \in Addr
  BY <1>1
<1>6. ha.hdr[a] = ta
  BY <1>5, <1>24 DEF WroteTag
<1>7. coalesced_at(ha, a) = a
  BY <1>3, <1>6 DEF coalesced_at
<1>8. [ta EXCEPT !.alloc = FALSE] = ta
  <2>1. [ta EXCEPT !.alloc = FALSE] = Tag(ta.sz, FALSE, ta.palloc)
    BY WithAlloc
  <2> QED
    BY <2>1, <1>3
<1>9. PICK h0 : h0 = set_free_mb(ha, a, p.ulen, ta)
  OBVIOUS
<1>10. Words(h0) /\ SameLinks(ha, h0) /\ Wrote(ha, h0, a, n, ta)
  BY <1>1, <1>5, <1>9, SetFree
<1>11. h0.hdr[n] = tn
  <2>1. n # a /\ ~ (a < n /\ n < n)
    BY <1>1
  <2>2. h0.hdr[n] = ha.hdr[n]
    BY <2>1, <1>1, <1>10 DEF Wrote
  <2> QED
    BY <2>1, <2>2, <1>1, <1>4, <1>5 DEF WroteTag
<1>12. tn.sz = 0 /\ tn.alloc = TRUE /\ tn.palloc = FALSE
  BY <1>2 DEF Tag
<1>13. g = PrevCleared(h0, n)
  <2>1. p.ulen + (a - a) = p.ulen
    BY <1>1
  <2>2. /\ ha.hdr[a].palloc = TRUE /\ ha.hdr[a].sz = p.ulen
        /\ h0 = set_free_mb(ha, a, ha.hdr[a].sz, [ha.hdr[a] EXCEPT !.alloc = FALSE])
    BY <1>3, <1>6, <1>8, <1>9
  <2>3. h0.hdr[n].alloc = TRUE
    BY <1>11, <1>12
  <2>4. a + (p.ulen + (a - a)) = n
    BY <2>1, <1>1
  <2>5. CoalesceBack(ha, a, a, p.ulen + (a - a)) = h0
    BY <2>2 DEF CoalesceBack
  <2>6. PICK o, k : o = CoalesceBack(ha, a, a, p.ulen + (a - a)) /\ k = a + (p.ulen + (a - a))
    OBVIOUS
  <2>7. o.hdr[k].alloc => coalesce(ha, a) = [o EXCEPT !.hdr[k].palloc = FALSE]
    BY <2>2, <2>6, <1>7 DEF coalesce, CoalesceBack
  <2>8. o = h0 /\ k = n
    BY <2>4, <2>5, <2>6
  <2>9. coalesce(ha, a) = [h0 EXCEPT !.hdr[n].palloc = FALSE]
    BY <2>3, <2>7, <2>8
  <2> QED
    BY <2>9, <1>7 DEF PrevCleared
<1>14. /\ Words(g) /\ SameLinks(h0, g) /\ g.foot = h0.foot
       /\ WroteTag(h0, g, n, Tag(h0.hdr[n].sz, h0.hdr[n].alloc, FALSE))
  BY <1>1, <1>10, <1>13, ClearPrev
<1>15. g.hdr[n] = Tag(0, TRUE, FALSE)
  BY <1>1, <1>11, <1>12, <1>14 DEF WroteTag
<1>16. ASSUME NEW b \in Addr, b # n PROVE g.hdr[b] = h0.hdr[b]
  BY <1>14, <1>16 DEF WroteTag
<1>17. ASSUME NEW b \in Addr, b < a \/ n < b PROVE g.hdr[b] = h.hdr[b]
  <2>1. b # a /\ b # n /\ ~ (a < b /\ b < n)
    BY <1>1, <1>17 DEF Addr
  <2>2. h0.hdr[b] = ha.hdr[b] /\ ha.hdr[b] = hn.hdr[b] /\ hn.hdr[b] = h.hdr[b]
    BY <2>1, <1>4, <1>5, <1>10 DEF Wrote, WroteTag
  <2> QED
    BY <2>1, <2>2, <1>16
<1>18. ASSUME NEW b \in Addr, b < a \/ n <= b PROVE g.foot[b] = h.foot[b]
  <2>1. b # n - 1 /\ ~ (a <= b /\ b < n)
    BY <1>1, <1>18 DEF Addr
  <2>2. h0.foot[b] = ha.foot[b]
    BY <2>1, <1>10 DEF Wrote
  <2> QED
    BY <2>2, <1>4, <1>5, <1>14
<1>19. g.hdr[a] = Tag(n - a, FALSE, TRUE)
  <2>1. g.hdr[a] = h0.hdr[a]
    BY <1>16, <1>24
  <2>2. h0.hdr[a] = ta
    BY <1>10, <1>24 DEF Wrote
  <2> QED
    BY <2>1, <2>2, <1>1, <1>3
<1>20. ASSUME NEW b \in Addr, a < b /\ b < n PROVE g.hdr[b].sz = 0
  <2>1. b # a /\ b # n
    BY <1>1, <1>20 DEF Addr
  <2>2. h0.hdr[b] = Garbage
    BY <2>1, <1>10, <1>20 DEF Wrote
  <2>3. g.hdr[b] = Garbage
    BY <2>1, <2>2, <1>16
  <2>4. Garbage.sz = 0
    BY DEF Garbage
  <2> QED
    BY ONLY <2>3, <2>4
<1>21. g.foot[n - 1] = n - a
  <2>1. n - 1 \in Addr
    BY <1>1, BlockAssumption DEF Addr
  <2> QED
    BY <2>1, <1>10, <1>14 DEF Wrote
<1>22. Fresh(h, g, a, n)
  BY <1>14, <1>15, <1>17, <1>18, <1>19, <1>20, <1>21 DEF Fresh
<1>23. SameLinks(h, g)
  BY <1>4, <1>5, <1>10, <1>14 DEF SameLinks
<1> QED
  BY <1>7, <1>22, <1>23

\* g is h with another pool, whose only block is free.
PoolAdded(h, g, P, p) ==
  /\ Sound(g, P \cup {p}) /\ Held(g) = Held(h)
  /\ Told(h) => Told(g)
  /\ Linked(h) /\ g.wild = FALSE => Linked(g)
  /\ StaysWild(h, g)

LEMMA AddPoolIs ==
  ASSUME NEW h, NEW P, NEW base \in 1 .. MemLen + 1, PoolsApart(P, base), Sound(h, P),
         NEW len \in Nat, len >= PoolHdr + MinNU + 1, base + len - 1 <= MemLen,
         NEW p, p = PoolAt(base, len), NEW g, g = add_pool_blocks(h, base, len)
  PROVE  PoolAdded(h, g, P, p)
<1>1. Fits(p, base, len) /\ Words(h)
  BY PoolFits DEF Sound
<1>2. PICK a, n : a = p.start /\ n = PoolEnd(p)
  OBVIOUS
<1>3. a \in Addr /\ a \in Int /\ n \in Int /\ a < n
  BY <1>1, <1>2 DEF Fits
<1>4. PICK hn : hn = WithTag(h, n, EndTag)
  OBVIOUS
<1>5. PICK ha : ha = WithTag(hn, a, NewTag(p.ulen))
  OBVIOUS
<1>6. g = free_block(ha, a)
  <2>1. ha = [h EXCEPT !.hdr[p.start + p.ulen] = Tag(0, TRUE, FALSE),
                       !.hdr[p.start] = Tag(p.ulen, FALSE, TRUE)]
    BY <1>2, <1>4, <1>5 DEF WithTag, PoolEnd, EndTag, NewTag
  <2> QED
    BY <2>1, <1>2 DEF add_pool_blocks
<1>7. PICK h1 : h1 = coalesce(ha, a)
  OBVIOUS
<1>8. Fresh(h, h1, a, n) /\ SameLinks(h, h1) /\ coalesced_at(ha, a) = a
  <2>1. /\ Words(h) /\ Fits(p, base, len) /\ a = p.start /\ n = PoolEnd(p)
        /\ hn = WithTag(h, n, EndTag) /\ ha = WithTag(hn, a, NewTag(p.ulen))
        /\ h1 = coalesce(ha, a) /\ base \in 1 .. MemLen + 1 /\ len \in Nat
    BY <1>1, <1>2, <1>4, <1>5, <1>7
  <2> QED
    BY ONLY <2>1, FreshIs
<1>9. /\ Sound(h1, P \cup {p}) /\ Held(h1) = Held(h) /\ (Told(h) => Told(h1))
      /\ FreeBlocks(h1) = FreeBlocks(h) \cup {a} /\ a \notin Blocks(h)
  <2>1. Fits(p, base, len) /\ Fresh(h, h1, p.start, PoolEnd(p))
    BY <1>1, <1>2, <1>8
  <2>2. /\ Sound(h1, P \cup {p}) /\ Held(h1) = Held(h) /\ (Told(h) => Told(h1))
        /\ FreeBlocks(h1) = FreeBlocks(h) \cup {p.start} /\ p.start \notin Blocks(h)
    BY <2>1, FreshSound
  <2> QED
    BY <2>2, <1>2
<1>10. Words(h1) /\ h1.hdr[a].sz = n - a
  BY <1>8 DEF Fresh, Tag
<1>11. PICK h2 : h2 = IF a <= h1.cur /\ h1.cur < n THEN WithCur(h1, a) ELSE h1
  OBVIOUS
<1>12. g = l_ins(h2, h2.prv[h2.cur], a)
  <2>1. a + h1.hdr[a].sz = n
    BY <1>3, <1>10
  <2> QED
    BY <2>1, <1>6, <1>7, <1>8, <1>11 DEF free_block, WithCur
<1>13. /\ SameWords(h1, h2) /\ h2.nxt = h1.nxt /\ h2.prv = h1.prv /\ h2.wild = h1.wild
       /\ (~ (a <= h1.cur /\ h1.cur < n) => h2.cur = h1.cur)
  BY <1>10, <1>11, SetCur DEF SameWords
<1>14. Words(h2) /\ h2.hdr = h1.hdr /\ h2.foot = h1.foot
  BY <1>13 DEF SameWords
<1>15. SameWords(h2, g) /\ StaysWild(h2, g) /\ g.cur = h2.cur
  BY <1>12, <1>14, InsWords
<1>16. Words(g) /\ g.hdr = h1.hdr /\ g.foot = h1.foot
  BY <1>14, <1>15 DEF SameWords
<1>17. /\ Sound(g, P \cup {p}) /\ Held(g) = Held(h1) /\ FreeBlocks(g) = FreeBlocks(h1)
       /\ (Told(h1) => Told(g))
  <2>1. Blocks(g) = Blocks(h1) /\ FreeBlocks(g) = FreeBlocks(h1)
    BY <1>16 DEF Blocks, FreeBlocks
  <2>2. Layout(h1, P \cup {p})
    BY <1>9 DEF Sound
  <2>3. Layout(g, P \cup {p})
    BY <2>1, <2>2, <1>16 DEF Layout, Placed, Covered, Apart, Ended, Tags
  <2>4. Told(h1) => Told(g)
    BY <2>1, <1>16 DEF Told
  <2> QED
    BY <2>1, <2>3, <2>4, <1>16 DEF Sound, Held
<1>18. StaysWild(h, g)
  BY <1>8, <1>13, <1>15 DEF StaysWild, SameLinks
<1>19. ASSUME Linked(h), g.wild = FALSE PROVE Linked(g)
  <2>1. PICK F : F = FreeNodes(h)
    OBVIOUS
  <2>2. h2.nxt = h.nxt /\ h2.prv = h.prv /\ h1.cur = h.cur
    BY <1>8, <1>13 DEF SameLinks
  <2>3. Circles(h2, F) /\ h.cur \in F \cup Held(h)
    BY <2>1, <2>2, <1>19, SameCircles DEF Linked
  <2>4. a \in Node /\ a \notin F
    BY <2>1, <1>3, <1>9 DEF Node, Addr, FreeNodes, FreeBlocks, Head
  <2>5. h2.cur = h.cur
    <3>1. CASE h.cur = Head
      BY <3>1, <2>2, <1>3, <1>13 DEF Head, Addr
    <3>2. CASE h.cur \in Blocks(h)
      <4>1. h.cur \in Blocks(h1) /\ h.cur # a /\ a \in Blocks(h1)
        BY <3>2, <1>9 DEF Held, FreeBlocks
      <4>2. h.cur < a \/ n <= h.cur
        <5>1. PICK e : e = base + len
          OBVIOUS
        <5>2. e \in 1 .. MemLen + 1 /\ PoolsApart(P \cup {p}, e)
          BY <5>1, <1>1, PoolFits DEF Fits
        <5>3. n = a + h1.hdr[a].sz
          BY <1>3, <1>10
        <5> QED
          BY <4>1, <5>2, <5>3, <1>9, NoneWithin
      <4>3. h.cur \in Int
        BY <3>2 DEF Blocks, Addr
      <4> QED
        BY <4>2, <4>3, <2>2, <1>3, <1>13
    <3> QED
      BY <3>1, <3>2, <2>1, <2>3 DEF FreeNodes, FreeBlocks, Held
  <2>6. h2.prv[h2.cur] # Junk
    <3>0. SUFFICES ASSUME h2.prv[h2.cur] = Junk PROVE FALSE
      OBVIOUS
    <3>1. g = [h2 EXCEPT !.wild = TRUE]
      BY <3>0, <1>12 DEF l_ins
    <3>2. g.wild = TRUE
      BY <3>1, <1>14 DEF Words, Fields
    <3> QED
      BY <3>2, <1>19
  <2>7. h.cur \in F
    <3>1. h.cur \notin Held(h)
      BY <2>2, <2>5, <2>6, <1>19 DEF Linked, Bare
    <3> QED
      BY <3>1, <2>3
  <2>8. PICK q : q = h2.prv[h2.cur]
    OBVIOUS
  <2>9. q \in F
    BY <2>3, <2>5, <2>7, <2>8 DEF Circles
  <2>10. Inserted(h2, g, F, q, a)
    <3>1. /\ Words(h2) /\ Circles(h2, F) /\ q \in F /\ a \in Node /\ a \notin F
          /\ g = l_ins(h2, q, a) /\ g.wild = FALSE
      BY <2>3, <2>4, <2>8, <2>9, <1>12, <1>14, <1>19
    <3> QED
      BY <3>1, CirclesIns
  <2>11. Circles(g, F \cup {a}) /\ Besides(h2, g, F \cup {a})
    BY <2>10 DEF Inserted
  <2>12. F \cup {a} = FreeNodes(g)
    BY <2>1, <1>9, <1>17 DEF FreeNodes
  <2>13. ASSUME NEW b \in Held(g) PROVE g.nxt[b] = Junk /\ g.prv[b] = Junk
    <3>1. b \notin FreeNodes(g) /\ b \in Node
      BY DEF Held, Blocks, FreeBlocks, FreeNodes, Addr, Head, Node
    <3>2. b \in Held(h)
      BY <1>9, <1>17
    <3>3. h.nxt[b] = Junk /\ h.prv[b] = Junk
      BY <3>2, <1>19 DEF Linked, Bare
    <3> QED
      BY <3>1, <3>3, <2>2, <2>11, <2>12 DEF Besides
  <2>14. g.cur \in FreeNodes(g)
    BY <2>5, <2>7, <2>12, <1>15
  <2> QED
    BY <2>11, <2>12, <2>13, <2>14 DEF Linked, Bare
<1> QED
  BY <1>9, <1>17, <1>18, <1>19 DEF PoolAdded

-----------------------------------------------------------------------------
(* The search.                                                               *)

\* A set of numbers has a least element.
LEMMA Least ==
  ASSUME NEW T \in SUBSET Nat, T # {}
  PROVE  \E n \in T : \A k \in T : n <= k
<1> DEFINE R == { p \in Nat \X Nat : p[1] < p[2] }
<1>1. IsWellFoundedOn(R, Nat)
  BY NatLessThanWellFounded DEF OpToRel
<1>2. PICK n \in T : \A k \in T : ~ (<< k, n >> \in R)
  BY <1>1, WFMin
<1>3. ASSUME NEW k \in T PROVE n <= k
  <2>1. k \in Nat /\ n \in Nat
    OBVIOUS
  <2>2. ~ (k < n)
    BY <1>2, <2>1
  <2> QED
    BY <2>1, <2>2
<1> QED
  BY <1>3

\* What the search stops at is a free block that is long enough, or the head.
LEMMA FitIs ==
  ASSUME NEW h, searchable(h), NEW amt, NEW a, a = first_fit(h, amt), a # Head
  PROVE  a \in FreeBlocks(h) /\ h.hdr[a].sz >= amt
<1>1. PICK v : v = visited(h)
  OBVIOUS
<1>2. \A k \in DOMAIN v : v[k] = Head \/ (v[k] # Junk /\ v[k] \in FreeBlocks(h))
  BY <1>1 DEF searchable
<1>3. PICK fits : fits = { k \in DOMAIN v : v[k] # Head /\ h.hdr[v[k]].sz >= amt }
  OBVIOUS
<1>4. a = IF fits = {} THEN Head ELSE v[Min(fits)]
  BY <1>1, <1>3 DEF first_fit
<1>5. fits # {} /\ a = v[Min(fits)]
  BY <1>4
<1>6. fits \in SUBSET Nat
  <2>1. DOMAIN v \in SUBSET Nat
    BY <1>1 DEF visited
  <2> QED
    BY <2>1, <1>3
<1>7. PICK n \in fits : \A k \in fits : n <= k
  BY <1>5, <1>6, Least
<1>8. Min(fits) \in fits
  BY <1>7 DEF Min
<1> QED
  BY <1>2, <1>3, <1>5, <1>8

-----------------------------------------------------------------------------
(* The inductive invariant.                                                  *)

\* Until a block is resized where it is the tags and the links tell all there is.
Known(h, rs) == rs = FALSE => Told(h) /\ Linked(h)

\* Until the heap is wild it is sound and the caller holds its allocated blocks.
Calm(h, P, own, rs) ==
  h.wild = FALSE => Sound(h, P) /\ DOMAIN own = Held(h) /\ Known(h, rs)

\* A dynmem_malloc that waits for memory asks for a block with room for the links.
Waiting(c, own) ==
  c # Idle => c.amt \in Nat /\ c.amt >= MinNU /\ c.old \in DOMAIN own \cup {0}

IInv ==
  /\ top \in 1 .. MemLen + 1 /\ PoolsApart(pools, top)
  /\ resized \in BOOLEAN /\ heap.wild \in BOOLEAN
  /\ Calm(heap, pools, live, resized)
  /\ Waiting(call, live)

\* What Grant does once a block is taken, and to whom it gives which blocks.
Moved(h, old) == IF old = 0 \/ h.wild THEN h ELSE free_block(h, old)
Handed(own, old, a, want) ==
  [b \in (DOMAIN own \ {old}) \cup {a} |-> IF b = a THEN want ELSE own[b]]

LEMMA GrantIs ==
  ASSUME NEW h, NEW P, NEW e \in 1 .. MemLen + 1, PoolsApart(P, e), Sound(h, P),
         NEW own, DOMAIN own = Held(h), NEW rs, Known(h, rs),
         searchable(h), NEW amt \in Nat, amt >= MinNU,
         NEW a, a = first_fit(h, amt), a # Head, NEW old \in DOMAIN own \cup {0}, NEW want,
         NEW h1, h1 = take(h, a, amt),
         NEW g, g = Moved(h1, old), NEW new, new = Handed(own, old, a, want)
  PROVE  g.wild \in BOOLEAN /\ Calm(g, P, new, rs)
<1>1. a \in FreeBlocks(h) /\ h.hdr[a].sz >= amt
  BY FitIs
<1>2. h.hdr[a].sz \in Nat
  BY <1>1 DEF Sound, Words, HdrT, FreeBlocks, Blocks
<1>3. amt <= h.hdr[a].sz
  BY <1>1, <1>2
<1>4. Granted(h, h1, P, a)
  BY <1>1, <1>3, TakeDone
<1>5. /\ Sound(h1, P) /\ Held(h1) = Held(h) \cup {a} /\ a \notin Held(h)
      /\ Told(h) => Told(h1)
      /\ Linked(h) /\ h1.wild = FALSE => Linked(h1)
  BY <1>4 DEF Granted
<1>6. h1.wild \in BOOLEAN
  BY <1>5 DEF Sound, Words
<1>7. 0 \notin Held(h) /\ a # 0
  BY <1>1 DEF Held, FreeBlocks, Blocks, Addr
<1>8. DOMAIN new = (Held(h) \ {old}) \cup {a}
  BY DEF Handed
<1>9. CASE h1.wild = TRUE
  <2>1. g = h1
    BY <1>9 DEF Moved
  <2> QED
    BY <2>1, <1>9 DEF Calm
<1>10. CASE h1.wild = FALSE /\ old = 0
  <2>1. g = h1 /\ DOMAIN new = Held(h1)
    BY <1>5, <1>7, <1>8, <1>10 DEF Moved
  <2>2. Known(g, rs)
    BY <2>1, <1>5, <1>10 DEF Known
  <2> QED
    BY <2>1, <2>2, <1>5, <1>10 DEF Calm
<1>11. CASE h1.wild = FALSE /\ old # 0
  <2>1. g = free_block(h1, old)
    BY <1>11 DEF Moved
  <2>2. old \in Held(h) /\ old \in Held(h1) /\ old # a
    BY <1>5, <1>11
  <2>3. Freed(h1, g, P, old)
    BY <2>1, <2>2, <1>5, FreeIs
  <2>4. /\ Sound(g, P) /\ Held(g) = Held(h1) \ {old}
        /\ Told(h1) => Told(g)
        /\ Linked(h1) /\ g.wild = FALSE => Linked(g)
    BY <2>3 DEF Freed
  <2>5. g.wild \in BOOLEAN
    BY <2>4 DEF Sound, Words
  <2>6. DOMAIN new = Held(g)
    BY <2>2, <2>4, <1>5, <1>8
  <2>7. g.wild = FALSE => Known(g, rs)
    BY <2>4, <1>5, <1>11 DEF Known
  <2> QED
    BY <2>4, <2>5, <2>6, <2>7 DEF Calm
<1> QED
  BY <1>6, <1>9, <1>10, <1>11

\* A call that is done leaves the invariant if the heap it leaves is calm.
LEMMA Settled ==
  ASSUME top' \in 1 .. MemLen + 1, PoolsApart(pools', top'), resized' \in BOOLEAN,
         NEW g, g = heap', g.wild \in BOOLEAN, NEW own, own = live',
         NEW P, P = pools', NEW rs, rs = resized',
         Calm(g, P, own, rs), Waiting(call', live')
  PROVE  IInv'
<1>1. heap'.wild \in BOOLEAN /\ Calm(heap', pools', live', resized')
  OBVIOUS
<1> QED
  BY <1>1 DEF IInv

LEMMA NotWaiting ==
  ASSUME call' = Idle
  PROVE  Waiting(call', live')
BY DEF Waiting

\* Grant ends the call that it serves.
LEMMA GrantKeeps ==
  ASSUME NEW h, NEW P, NEW e \in 1 .. MemLen + 1, PoolsApart(P, e), Sound(h, P),
         DOMAIN live = Held(h), resized \in BOOLEAN,
         Known(h, resized),
         searchable(h), NEW amt \in Nat, amt >= MinNU, first_fit(h, amt) # Head,
         NEW old \in DOMAIN live \cup {0}, NEW want, Grant(h, amt, old, want),
         pools' = P, top' = e, resized' = resized
  PROVE  IInv'
<1>1. PICK a, h1, g, new :
        /\ a = first_fit(h, amt) /\ h1 = take(h, a, amt)
        /\ g = Moved(h1, old) /\ new = Handed(live, old, a, want)
        /\ heap' = g /\ live' = new /\ call' = Idle
  BY DEF Grant, Moved, Handed
<1>2. PICK own : own = live
  OBVIOUS
<1>3. /\ DOMAIN own = Held(h) /\ old \in DOMAIN own \cup {0} /\ a # Head
      /\ new = Handed(own, old, a, want)
  BY <1>1, <1>2
<1>4. g.wild \in BOOLEAN /\ Calm(g, P, new, resized)
  <2>1. PICK rs : rs = resized
    OBVIOUS
  <2>2. /\ e \in 1 .. MemLen + 1 /\ PoolsApart(P, e) /\ Sound(h, P) /\ DOMAIN own = Held(h)
        /\ Known(h, rs)
        /\ searchable(h) /\ amt \in Nat /\ amt >= MinNU
        /\ a = first_fit(h, amt) /\ a # Head /\ old \in DOMAIN own \cup {0}
        /\ h1 = take(h, a, amt)
        /\ g = Moved(h1, old) /\ new = Handed(own, old, a, want)
    BY <1>1, <1>3, <2>1
  <2>3. g.wild \in BOOLEAN /\ Calm(g, P, new, rs)
    BY ONLY <2>2, GrantIs
  <2> QED
    BY <2>1, <2>3
<1>5. Waiting(call', live')
  BY <1>1, NotWaiting
<1> QED
  BY <1>1, <1>4, <1>5, Settled

\* A search that leaves the free blocks makes the heap wild.
LEMMA StrayKeeps ==
  ASSUME IInv, NEW h, DOMAIN h = Fields, Stray(h), top' \in 1 .. MemLen + 1,
         PoolsApart(pools', top'), resized' = resized
  PROVE  IInv'
<1>1. PICK g : g = heap' /\ g = [h EXCEPT !.wild = TRUE]
  BY DEF Stray
<1>2. g.wild = TRUE
  BY <1>1 DEF Fields
<1>3. live' = live /\ call' = call
  BY DEF Stray
<1>4. Waiting(call', live')
  BY <1>3 DEF IInv
<1>5. Calm(g, pools', live', resized') /\ g.wild \in BOOLEAN
  BY <1>2 DEF Calm
<1>6. resized' \in BOOLEAN
  BY DEF IInv
<1> QED
  BY <1>1, <1>4, <1>5, <1>6, Settled

-----------------------------------------------------------------------------
(* The calls keep the invariant.                                             *)

\* What the invariant says of a heap that is not wild.
LEMMA Steady ==
  ASSUME IInv, ~ heap.wild
  PROVE  /\ top \in 1 .. MemLen + 1 /\ PoolsApart(pools, top) /\ resized \in BOOLEAN
         /\ Sound(heap, pools) /\ DOMAIN live = Held(heap) /\ Known(heap, resized)
         /\ heap.wild = FALSE /\ DOMAIN heap = Fields
<1>1. heap.wild = FALSE
  BY DEF IInv
<1>2. Sound(heap, pools) /\ DOMAIN live = Held(heap) /\ Known(heap, resized)
  BY <1>1 DEF IInv, Calm
<1>3. DOMAIN heap = Fields
  BY <1>2 DEF Sound, Words
<1> QED
  BY <1>1, <1>2, <1>3 DEF IInv

\* A step that leaves the heap, its pools and the caller's blocks alone.
LEMMA KeptKeeps ==
  ASSUME IInv, UNCHANGED << heap, pools, top, live, resized >>, Waiting(call', live')
  PROVE  IInv'
BY DEF IInv

LEMMA AllocateKeeps ==
  ASSUME IInv, ~ heap.wild, NEW size \in Nat, NEW old \in DOMAIN live \cup {0}, NEW want,
         Allocate(size, old, want)
  PROVE  IInv'
<1>1. /\ top \in 1 .. MemLen + 1 /\ PoolsApart(pools, top) /\ resized \in BOOLEAN
      /\ Sound(heap, pools) /\ DOMAIN live = Held(heap) /\ Known(heap, resized)
      /\ heap.wild = FALSE /\ DOMAIN heap = Fields
  BY Steady
<1>2. pools' = pools /\ top' = top /\ resized' = resized
  BY DEF Allocate
<1>3. PICK amt \in Nat : amt = block_units(size) /\ amt >= MinNU
  BY BlockAssumption DEF block_units
<1>4. \/ Refuse(size) /\ heap' = heap
      \/ Stray(heap)
      \/ searchable(heap) /\ first_fit(heap, amt) # Head /\ Grant(heap, amt, old, want)
      \/ /\ call' = [amt |-> amt, old |-> old, want |-> want, again |-> FALSE]
         /\ heap' = heap /\ live' = live
  BY <1>3 DEF Allocate
<1>5. CASE Refuse(size) /\ heap' = heap
  <2>1. call' = Idle /\ live' = live
    BY <1>5 DEF Refuse
  <2>2. Waiting(call', live')
    BY <2>1, NotWaiting
  <2> QED
    BY <2>1, <2>2, <1>2, <1>5, KeptKeeps
<1>6. CASE Stray(heap)
  BY <1>1, <1>2, <1>6, StrayKeeps
<1>7. CASE searchable(heap) /\ first_fit(heap, amt) # Head /\ Grant(heap, amt, old, want)
  BY <1>1, <1>2, <1>3, <1>7, GrantKeeps
<1>8. CASE /\ call' = [amt |-> amt, old |-> old, want |-> want, again |-> FALSE]
           /\ heap' = heap /\ live' = live
  <2>1. call'.amt = amt /\ call'.old = old
    BY <1>8
  <2>2. Waiting(call', live')
    BY <2>1, <1>3, <1>8 DEF Waiting
  <2> QED
    BY <2>2, <1>2, <1>8, KeptKeeps
<1> QED
  BY <1>4, <1>5, <1>6, <1>7, <1>8

\* What a new pool is to the invariant.
LEMMA PoolDone ==
  ASSUME IInv, ~ heap.wild, NEW len \in Nat, len >= PoolHdr + MinNU + 1,
         top + len - 1 <= MemLen, NEW p, p = PoolAt(top, len),
         NEW g, g = add_pool_blocks(heap, top, len)
  PROVE  /\ top + len \in 1 .. MemLen + 1 /\ PoolsApart(pools \cup {p}, top + len)
         /\ Words(g) /\ g.wild \in BOOLEAN
         /\ Calm(g, pools \cup {p}, live, resized)
<1>1. /\ top \in 1 .. MemLen + 1 /\ PoolsApart(pools, top) /\ resized \in BOOLEAN
      /\ Sound(heap, pools) /\ DOMAIN live = Held(heap) /\ Known(heap, resized)
  BY Steady
<1>2. Fits(p, top, len) /\ PoolsApart(pools \cup {p}, top + len)
  BY <1>1, PoolFits
<1>3. PoolAdded(heap, g, pools, p)
  BY <1>1, AddPoolIs
<1>4. /\ Sound(g, pools \cup {p}) /\ Held(g) = Held(heap)
      /\ Told(heap) => Told(g)
      /\ Linked(heap) /\ g.wild = FALSE => Linked(g)
  BY <1>3 DEF PoolAdded
<1>5. Words(g) /\ g.wild \in BOOLEAN
  BY <1>4 DEF Sound, Words
<1>6. g.wild = FALSE => Known(g, resized)
  BY <1>1, <1>4 DEF Known
<1> QED
  BY <1>1, <1>2, <1>4, <1>5, <1>6 DEF Calm, Fits

LEMMA AddPoolKeeps ==
  ASSUME IInv, NEW len \in PoolLens, AddPool(len)
  PROVE  IInv'
<1>1. /\ call' = Idle /\ ~ heap.wild /\ top + len - 1 <= MemLen
      /\ heap' = add_pool_blocks(heap, top, len) /\ pools' = pools \cup {PoolAt(top, len)}
      /\ top' = top + len /\ live' = live /\ resized' = resized
  BY DEF AddPool, Ready
<1>2. len \in Nat /\ len >= PoolHdr + MinNU + 1
  BY ClientAssumption, BlockAssumption
<1>3. PICK p, g : p = PoolAt(top, len) /\ g = add_pool_blocks(heap, top, len)
  OBVIOUS
<1>4. /\ top + len \in 1 .. MemLen + 1 /\ PoolsApart(pools \cup {p}, top + len)
      /\ g.wild \in BOOLEAN /\ Calm(g, pools \cup {p}, live, resized)
  BY <1>1, <1>2, <1>3, PoolDone
<1>5. Waiting(call', live')
  BY <1>1, NotWaiting
<1>6. resized \in BOOLEAN
  BY DEF IInv
<1> QED
  BY <1>1, <1>3, <1>4, <1>5, <1>6, Settled

LEMMA MoreMemKeeps ==
  ASSUME IInv, MoreMem
  PROVE  IInv'
<1>1. PICK len, h :
        /\ len = more_amt(call.amt) /\ h = add_pool_blocks(heap, top, len)
        /\ call # Idle /\ ~ heap.wild /\ resized' = resized /\ top + len - 1 <= MemLen
        /\ pools' = pools \cup {PoolAt(top, len)} /\ top' = top + len
        /\ \/ Stray(h)
           \/ /\ ~ h.wild /\ searchable(h) /\ first_fit(h, call.amt) # Head
              /\ Grant(h, call.amt, call.old, call.want)
           \/ heap' = h /\ call' = [call EXCEPT !.again = TRUE] /\ live' = live
  BY DEF MoreMem
<1>2. call.amt \in Nat /\ call.amt >= MinNU /\ call.old \in DOMAIN live \cup {0}
  BY <1>1 DEF IInv, Waiting
<1>3. len \in Nat /\ len >= PoolHdr + MinNU + 1
  BY <1>1, <1>2, BlockAssumption DEF more_amt
<1>4. PICK p : p = PoolAt(top, len)
  OBVIOUS
<1>5. /\ top + len \in 1 .. MemLen + 1 /\ PoolsApart(pools \cup {p}, top + len)
      /\ Words(h) /\ h.wild \in BOOLEAN /\ Calm(h, pools \cup {p}, live, resized)
  BY <1>1, <1>3, <1>4, PoolDone
<1>6. PICK e \in 1 .. MemLen + 1 : e = top + len
  BY <1>5
<1>7. PICK Q : Q = pools \cup {p}
  OBVIOUS
<1>8. resized \in BOOLEAN
  BY DEF IInv
<1>9. CASE Stray(h)
  <2>1. DOMAIN h = Fields
    BY <1>5 DEF Words
  <2> QED
    BY <2>1, <1>1, <1>4, <1>5, <1>9, StrayKeeps
<1>10. CASE /\ ~ h.wild /\ searchable(h) /\ first_fit(h, call.amt) # Head
            /\ Grant(h, call.amt, call.old, call.want)
  <2>1. h.wild = FALSE
    BY <1>5, <1>10
  <2>2. Sound(h, Q) /\ DOMAIN live = Held(h) /\ Known(h, resized)
    BY <2>1, <1>5, <1>6, <1>7 DEF Calm
  <2>3. PICK amt \in Nat, old \in DOMAIN live \cup {0} :
          amt = call.amt /\ old = call.old /\ amt >= MinNU
    BY <1>2
  <2>4. PICK want : want = call.want
    OBVIOUS
  <2>5. /\ first_fit(h, amt) # Head /\ searchable(h) /\ Grant(h, amt, old, want)
        /\ pools' = Q /\ top' = e /\ resized' = resized /\ PoolsApart(Q, e)
    BY <2>3, <2>4, <1>1, <1>4, <1>5, <1>6, <1>7, <1>10
  <2> QED
    BY <2>2, <2>3, <2>5, <1>8, GrantKeeps
<1>11. CASE heap' = h /\ call' = [call EXCEPT !.again = TRUE] /\ live' = live
  <2>1. call'.amt = call.amt /\ call'.old = call.old
    BY <1>11
  <2>2. Waiting(call', live')
    BY <2>1, <1>2, <1>11 DEF Waiting
  <2> QED
    BY <2>2, <1>1, <1>4, <1>5, <1>8, <1>11, Settled
<1> QED
  BY <1>1, <1>9, <1>10, <1>11

LEMMA NoMoreMemKeeps ==
  ASSUME IInv, NoMoreMem
  PROVE  IInv'
<1>1. /\ call' = Idle /\ live' = live /\ heap' = heap /\ pools' = pools
      /\ top' = top /\ resized' = resized
  BY DEF NoMoreMem, Refuse
<1>2. Waiting(call', live')
  BY <1>1, NotWaiting
<1> QED
  BY <1>1, <1>2, KeptKeeps

LEMMA FreeKeeps ==
  ASSUME IInv, NEW b \in DOMAIN live, Free(b)
  PROVE  IInv'
<1>1. /\ call' = Idle /\ ~ heap.wild /\ heap' = free_block(heap, b)
      /\ pools' = pools /\ top' = top /\ resized' = resized
  BY DEF Free, Ready
<1>2. /\ top \in 1 .. MemLen + 1 /\ PoolsApart(pools, top) /\ resized \in BOOLEAN
      /\ Sound(heap, pools) /\ DOMAIN live = Held(heap) /\ Known(heap, resized)
  BY <1>1, Steady
<1>3. PICK g : g = heap' /\ g = free_block(heap, b)
  BY <1>1
<1>4. Freed(heap, g, pools, b)
  BY <1>2, <1>3, FreeIs
<1>5. /\ Sound(g, pools) /\ Held(g) = Held(heap) \ {b}
      /\ Told(heap) => Told(g)
      /\ Linked(heap) /\ g.wild = FALSE => Linked(g)
  BY <1>4 DEF Freed
<1>6. PICK own : own = live' /\ DOMAIN own = DOMAIN live \ {b}
  BY DEF Free
<1>7. g.wild \in BOOLEAN
  BY <1>5 DEF Sound, Words
<1>8. g.wild = FALSE => Known(g, resized)
  BY <1>2, <1>5 DEF Known
<1>9. Calm(g, pools, own, resized)
  BY <1>2, <1>5, <1>6, <1>8 DEF Calm
<1>10. Waiting(call', live')
  BY <1>1, NotWaiting
<1> QED
  BY <1>1, <1>2, <1>3, <1>6, <1>7, <1>9, <1>10, Settled

\* A block resized where it is.
LEMMA ResizedKeeps ==
  ASSUME IInv, ~ heap.wild, call = Idle, NEW b, NEW size,
         NEW g, g = heap', Reshaped(heap, g, pools), live' = [live EXCEPT ![b] = size],
         resized' = TRUE, pools' = pools, top' = top, call' = call
  PROVE  IInv'
<1>1. /\ top \in 1 .. MemLen + 1 /\ PoolsApart(pools, top) /\ DOMAIN live = Held(heap)
  BY Steady
<1>2. g.wild \in BOOLEAN /\ (g.wild = FALSE => Sound(g, pools) /\ Held(g) = Held(heap))
  BY DEF Reshaped
<1>3. PICK own : own = live' /\ DOMAIN own = DOMAIN live
  OBVIOUS
<1>4. Known(g, TRUE)
  BY DEF Known
<1>5. Calm(g, pools, own, TRUE)
  BY <1>1, <1>2, <1>3, <1>4 DEF Calm
<1>6. Waiting(call', live')
  BY NotWaiting
<1> QED
  BY <1>1, <1>2, <1>3, <1>5, <1>6, Settled

LEMMA ReallocKeeps ==
  ASSUME IInv, NEW b \in DOMAIN live, NEW size \in ReallocSizes, Realloc(b, size)
  PROVE  IInv'
<1>1. PICK sz, n, newamt :
        /\ newamt = size + 1 /\ sz = heap.hdr[b].sz /\ n = b + heap.hdr[b].sz
        /\ call = Idle /\ ~ heap.wild
        /\ \/ /\ Refuse(size) /\ heap' = heap /\ pools' = pools /\ top' = top
              /\ resized' = resized
           \/ /\ sz >= newamt /\ heap' = shrink_alloc_block(heap, b, newamt)
              /\ live' = [live EXCEPT ![b] = size]
              /\ resized' = TRUE /\ pools' = pools /\ top' = top /\ call' = call
           \/ /\ ~ heap.hdr[n].alloc /\ sz + heap.hdr[n].sz >= newamt
              /\ heap' = grow_into_next(heap, b, newamt)
              /\ live' = [live EXCEPT ![b] = size]
              /\ resized' = TRUE /\ pools' = pools /\ top' = top /\ call' = call
           \/ Allocate(newamt, b, size)
  BY DEF Realloc, Ready
<1>2. /\ top \in 1 .. MemLen + 1 /\ PoolsApart(pools, top) /\ Sound(heap, pools)
      /\ DOMAIN live = Held(heap)
  BY <1>1, Steady
<1>3. newamt \in Nat /\ newamt > 0
  BY <1>1, ClientAssumption, BlockAssumption
<1>4. b \in Held(heap) /\ sz \in Nat
  <2>1. b \in Held(heap) /\ b \in Addr
    BY <1>2 DEF Held, Blocks
  <2> QED
    BY <2>1, <1>1, <1>2 DEF Sound, Words, HdrT
<1>5. CASE /\ Refuse(size) /\ heap' = heap /\ pools' = pools /\ top' = top
           /\ resized' = resized
  <2>1. call' = Idle /\ live' = live
    BY <1>5 DEF Refuse
  <2>2. Waiting(call', live')
    BY <2>1, NotWaiting
  <2> QED
    BY <2>1, <2>2, <1>5, KeptKeeps
<1>6. CASE /\ sz >= newamt /\ heap' = shrink_alloc_block(heap, b, newamt)
           /\ live' = [live EXCEPT ![b] = size]
           /\ resized' = TRUE /\ pools' = pools /\ top' = top /\ call' = call
  <2>1. PICK g : g = heap' /\ g = shrink_alloc_block(heap, b, newamt)
    BY <1>6
  <2>2. newamt <= heap.hdr[b].sz
    BY <1>1, <1>3, <1>4, <1>6
  <2>3. Reshaped(heap, g, pools)
    BY <2>1, <2>2, <1>2, <1>3, <1>4, ShrinkIs
  <2> QED
    BY <2>1, <2>3, <1>1, <1>6, ResizedKeeps
<1>7. CASE /\ ~ heap.hdr[n].alloc /\ sz + heap.hdr[n].sz >= newamt
           /\ heap' = grow_into_next(heap, b, newamt)
           /\ live' = [live EXCEPT ![b] = size]
           /\ resized' = TRUE /\ pools' = pools /\ top' = top /\ call' = call
  <2>1. PICK g : g = heap' /\ g = grow_into_next(heap, b, newamt)
    BY <1>7
  <2>2. heap.hdr[n].sz \in Nat
    <3>1. Words(heap) /\ b \in Blocks(heap)
      BY <1>2, <1>4 DEF Sound, Held
    <3>2. Bounds(heap, b, n)
      BY <3>1, <1>1, <1>2, BlockIs
    <3> QED
      BY <3>2 DEF Bounds, HdrT
  <2>3. newamt <= heap.hdr[b].sz + heap.hdr[n].sz
    BY <2>2, <1>1, <1>3, <1>4, <1>7
  <2>4. Reshaped(heap, g, pools)
    BY <2>1, <2>3, <1>1, <1>2, <1>3, <1>4, <1>7, GrowIs
  <2> QED
    BY <2>1, <2>4, <1>1, <1>7, ResizedKeeps
<1>8. CASE Allocate(newamt, b, size)
  BY <1>1, <1>3, <1>8, AllocateKeeps
<1> QED
  BY <1>1, <1>5, <1>6, <1>7, <1>8

LEMMA InitIInv == Init => IInv
<1> SUFFICES ASSUME Init PROVE IInv
  OBVIOUS
<1>1. /\ heap = [hdr |-> [a \in Addr |-> Garbage], foot |-> [a \in Addr |-> 0],
                 nxt |-> [a \in Node |-> IF a = Head THEN Head ELSE Junk],
                 prv |-> [a \in Node |-> IF a = Head THEN Head ELSE Junk],
                 cur |-> Head, wild |-> FALSE]
      /\ pools = {} /\ top = 1 /\ live = << >> /\ call = Idle /\ resized = FALSE
  BY DEF Init
<1>2. Garbage \in HdrT /\ Garbage.sz = 0
  BY DEF Garbage, HdrT
<1>3. Words(heap) /\ heap.wild = FALSE /\ heap.cur = Head
  <2>1. [a \in Addr |-> Garbage] \in [Addr -> HdrT] /\ [a \in Addr |-> 0] \in [Addr -> Nat]
    BY <1>2
  <2> QED
    BY <2>1, <1>1 DEF Words, Fields
<1>4. Blocks(heap) = {}
  <2>1. \A a \in Addr : heap.hdr[a].sz = 0
    BY <1>1, <1>2
  <2> QED
    BY <2>1 DEF Blocks
<1>5. FreeBlocks(heap) = {} /\ Held(heap) = {}
  BY <1>4 DEF FreeBlocks, Held
<1>6. Layout(heap, pools) /\ Told(heap)
  BY <1>1, <1>4 DEF Layout, Placed, Covered, Apart, Ended, Tags, Told
<1>7. Linked(heap)
  <2>1. FreeNodes(heap) = {Head} /\ Head \in Node /\ MemLen \in Nat
    BY <1>5, BlockAssumption DEF FreeNodes, Node, Head
  <2>2. heap.nxt[Head] = Head /\ heap.prv[Head] = Head
    BY <2>1, <1>1
  <2>3. \A a \in Node : (IF a = Head THEN Head ELSE Junk) \in Int
    BY DEF Head, Junk
  <2>4. heap.nxt \in [Node -> Int] /\ heap.prv \in [Node -> Int]
    BY <2>3, <1>1
  <2>5. Circles(heap, FreeNodes(heap))
    BY <2>1, <2>2, <2>4 DEF Circles
  <2>6. Bare(heap)
    BY <1>5 DEF Bare
  <2> QED
    BY <2>1, <2>5, <2>6, <1>3 DEF Linked
<1>8. Known(heap, resized)
  BY <1>6, <1>7 DEF Known
<1>9. DOMAIN live = Held(heap)
  BY <1>1, <1>5
<1>10. Calm(heap, pools, live, resized)
  BY <1>3, <1>6, <1>8, <1>9 DEF Calm, Sound
<1>11. top \in 1 .. MemLen + 1 /\ PoolsApart(pools, top)
  BY <1>1, BlockAssumption DEF PoolsApart
<1>12. Waiting(call, live)
  BY <1>1 DEF Waiting
<1> QED
  BY <1>1, <1>3, <1>10, <1>11, <1>12 DEF IInv

LEMMA NextIInv == IInv /\ [Next]_vars => IInv'
<1> SUFFICES ASSUME IInv, [Next]_vars PROVE IInv'
  OBVIOUS
<1>1. CASE UNCHANGED vars
  BY <1>1 DEF IInv, vars
<1>2. CASE \E len \in PoolLens : AddPool(len)
  BY <1>2, AddPoolKeeps
<1>3. CASE \E size \in MallocSizes : Malloc(size)
  <2>1. PICK size \in MallocSizes : Malloc(size)
    BY <1>3
  <2>2. size \in Nat
    BY ClientAssumption, BlockAssumption
  <2>3. ~ heap.wild /\ Allocate(size, 0, size)
    BY <2>1 DEF Malloc, Ready
  <2>4. 0 \in DOMAIN live \cup {0}
    OBVIOUS
  <2> QED
    BY <2>2, <2>3, <2>4, AllocateKeeps
<1>4. CASE MoreMem
  BY <1>4, MoreMemKeeps
<1>5. CASE NoMoreMem
  BY <1>5, NoMoreMemKeeps
<1>6. CASE \E b \in DOMAIN live : Free(b)
  BY <1>6, FreeKeeps
<1>7. CASE \E b \in DOMAIN live : \E size \in ReallocSizes : Realloc(b, size)
  BY <1>7, ReallocKeeps
<1> QED
  BY <1>1, <1>2, <1>3, <1>4, <1>5, <1>6, <1>7 DEF Next

-----------------------------------------------------------------------------
(* Theorems.                                                                 *)

\* IInv holds in every state: after any sequence of dynmem_add_pool, dynmem_malloc,
\* dynmem_realloc and dynmem_free, also while a dynmem_malloc waits for add_mem_func.
THEOREM Invariance == Spec => []IInv
<1>1. Init => IInv
  BY InitIInv
<1>2. IInv /\ [Next]_vars => IInv'
  BY NextIInv
<1> QED
  BY <1>1, <1>2, PTL DEF Spec

LEMMA IInvBlocks == IInv => BlocksSound
<1> SUFFICES ASSUME IInv, ~ heap.wild PROVE BlocksSound
  BY DEF BlocksSound
<1>1. /\ top \in 1 .. MemLen + 1 /\ PoolsApart(pools, top) /\ Sound(heap, pools)
      /\ DOMAIN live = Held(heap) /\ Known(heap, resized) /\ resized \in BOOLEAN
  BY Steady
<1>2. Words(heap) /\ Layout(heap, pools)
  BY <1>1 DEF Sound
<1>3. ASSUME NEW a \in Blocks(heap) PROVE a \in Int /\ heap.hdr[a].sz \in Nat
  <2>1. a \in Addr /\ heap.hdr[a] \in HdrT
    BY <1>2 DEF Words, Blocks
  <2> QED
    BY <2>1 DEF HdrT, Addr
<1>4. \A p \in pools : heap.hdr[p.start + p.ulen].sz = 0 /\ heap.hdr[p.start + p.ulen].alloc
  BY <1>2 DEF Layout, Ended, PoolEnd
<1>5. UNION { Units(heap, a) : a \in Blocks(heap) } = UNION { PoolUnits(p) : p \in pools }
  <2>1. ASSUME NEW a \in Blocks(heap), NEW u \in Units(heap, a)
        PROVE  \E p \in pools : u \in PoolUnits(p)
    <3>1. PICK p \in pools : p.start <= a /\ a + heap.hdr[a].sz <= PoolEnd(p)
      BY <1>2 DEF Layout, Placed
    <3>2. p.start \in Nat /\ p.ulen \in Nat
      BY <1>1 DEF PoolsApart
    <3>3. a \in Int /\ heap.hdr[a].sz \in Nat
      BY <1>3
    <3>4. u \in Int /\ a <= u /\ u <= a + heap.hdr[a].sz - 1
      BY <3>3 DEF Units
    <3>5. u \in PoolUnits(p)
      BY <3>1, <3>2, <3>3, <3>4 DEF PoolUnits, PoolEnd
    <3> QED
      BY <3>5
  <2>2. ASSUME NEW p \in pools, NEW u \in PoolUnits(p)
        PROVE  \E a \in Blocks(heap) : u \in Units(heap, a)
    <3>1. PICK a \in Blocks(heap) : a <= u /\ u < a + heap.hdr[a].sz
      BY <1>2 DEF Layout, Covered
    <3>2. a \in Int /\ heap.hdr[a].sz \in Nat
      BY <1>3
    <3>3. u \in Int
      <4>1. p.start \in Nat /\ p.ulen \in Nat
        BY <1>1 DEF PoolsApart
      <4> QED
        BY <4>1 DEF PoolUnits
    <3>4. u \in Units(heap, a)
      BY <3>1, <3>2, <3>3 DEF Units
    <3> QED
      BY <3>4
  <2> QED
    BY <2>1, <2>2
<1>6. HeapTiled(heap, pools)
  BY <1>2, <1>4, <1>5 DEF HeapTiled, Layout, Apart
<1>7. ASSUME ~ resized PROVE HeapTagged(heap)
  <2>1. Told(heap) /\ Tags(heap)
    BY <1>1, <1>2, <1>7 DEF Known, Layout
  <2> SUFFICES ASSUME NEW a \in Blocks(heap)
               PROVE  LET n == a + heap.hdr[a].sz IN
                      /\ heap.hdr[n].palloc = heap.hdr[a].alloc
                      /\ ~ heap.hdr[a].alloc => heap.foot[n - 1] = heap.hdr[a].sz
    BY DEF HeapTagged
  <2>2. PICK n : n = a + heap.hdr[a].sz
    OBVIOUS
  <2>3. Bounds(heap, a, n)
    BY <2>2, <1>1, <1>2, BlockIs
  <2>4. heap.hdr[n] \in HdrT /\ heap.hdr[a] \in HdrT
    BY <2>3 DEF Bounds
  <2>5. heap.hdr[n].palloc \in BOOLEAN /\ heap.hdr[a].alloc \in BOOLEAN
    BY <2>4 DEF HdrT
  <2>6. heap.hdr[a].alloc = FALSE => heap.hdr[n].palloc = FALSE
    BY <2>1, <2>2 DEF Told
  <2>7. heap.hdr[n].palloc = FALSE =>
          heap.hdr[a].alloc = FALSE /\ heap.foot[n - 1] = heap.hdr[a].sz
    <3>1. heap.hdr[a + heap.hdr[a].sz].palloc = FALSE =>
            heap.hdr[a].alloc = FALSE /\ heap.foot[a + heap.hdr[a].sz - 1] = heap.hdr[a].sz
      BY <2>1, Zenon DEF Tags
    <3>2. n - 1 = a + heap.hdr[a].sz - 1
      BY <2>2, <1>3
    <3> QED
      BY <3>1, <3>2, <2>2
  <2> QED
    BY <2>2, <2>5, <2>6, <2>7
<1> QED
  BY <1>1, <1>6, <1>7 DEF BlocksSound, Held

\* The blocks of a pool tile it and the caller holds the allocated ones, and until a
\* block is resized where it is, the tags by which dynmem_free finds the neighbours
\* of a block are true.
THEOREM BlocksSoundTheorem == Spec => []BlocksSound
<1>1. IInv => BlocksSound
  BY IInvBlocks
<1> QED
  BY <1>1, Invariance, PTL

LEMMA IInvLinks == IInv => LinksAgree
<1> SUFFICES ASSUME IInv, ~ heap.wild, ~ resized PROVE LinksAgree
  BY DEF LinksAgree
<1>1. Known(heap, resized) /\ resized = FALSE
  BY Steady
<1>2. Circles(heap, FreeNodes(heap))
  BY <1>1 DEF Known, Linked
<1> QED
  BY <1>2 DEF Circles, FreeNodes, LinksAgree

\* Until a block is resized where it is, the links of the free blocks and of the head
\* are those of circular lists of free blocks, through every split, merge and move of
\* dm_current.
THEOREM LinksAgreeTheorem == Spec => []LinksAgree
<1>1. IInv => LinksAgree
  BY IInvLinks
<1> QED
  BY <1>1, Invariance, PTL

=============================================================================
