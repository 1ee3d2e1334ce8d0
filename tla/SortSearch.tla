----------------------------- MODULE SortSearch -----------------------------
(***************************************************************************)
(* Sorting arrays, src/sort.c, and searching strings, src/match.c.         *)
(***************************************************************************)
EXTENDS Integers, Sequences, FiniteSets

CONSTANTS Thresh,   \* ISORT_THRESH
          Many,     \* above so many elements the pivot is a median of nine: 64
          MaxDepth  \* QS_MAXDEPTH

(* Sorts.  An array is a function of indices from 0 to integers, which     *)
(* stand for elements as cmp orders them.  Each sort works on the n        *)
(* elements from index b on.                                               *)

SWAP(a, i, j) == [a EXCEPT ![i] = a[j], ![j] = a[i]]

(* p2 sinks until the element before it is not greater *)
RECURSIVE sunk(_, _, _)
sunk(a, b, p2) == IF p2 > b /\ a[p2 - 1] > a[p2] THEN sunk(SWAP(a, p2 - 1, p2), b, p2 - 1)
                  ELSE a

RECURSIVE isort_from(_, _, _, _)
isort_from(a, b, n, p1) == IF p1 >= b + n THEN a ELSE isort_from(sunk(a, b, p1), b, n, p1 + 1)

isort_i(a, b, n) == isort_from(a, b, n, b + 1)

(* the first of the smallest elements from p on *)
smallest(a, p, end) ==
    CHOOSE m \in p..end-1 : /\ \A q \in p..end-1 : a[m] <= a[q]
                            /\ \A q \in p..m-1 : a[m] < a[q]

RECURSIVE ssort_from(_, _, _)
ssort_from(a, p1, end) ==
    IF p1 >= end - 1 THEN a ELSE ssort_from(SWAP(a, p1, smallest(a, p1, end)), p1 + 1, end)

ssort_i(a, b, n) == ssort_from(a, b, b + n)

RECURSIVE reheap_down(_, _, _, _)
reheap_down(a, b, n, pos) ==
    LET left == 2 * pos + 1
        cld  == IF left + 1 < n /\ a[b + left + 1] > a[b + left] THEN left + 1 ELSE left
    IN  IF pos >= n \/ left >= n THEN a
        ELSE IF a[b + pos] < a[b + cld] THEN reheap_down(SWAP(a, b + pos, b + cld), b, n, cld)
        ELSE a

RECURSIVE heaped(_, _, _, _)
heaped(a, b, n, i) ==
    LET h == reheap_down(a, b, n, i) IN IF i = 0 THEN h ELSE heaped(h, b, n, i - 1)

(* the greatest goes behind the heap, which shrinks by one *)
RECURSIVE unheaped(_, _, _)
unheaped(a, b, n) ==
    IF n <= 1 THEN a
    ELSE unheaped(reheap_down(SWAP(a, b, b + n - 1), b, n - 1, 0), b, n - 1)

hsort_i(a, b, n) == unheaped(heaped(a, b, n, n \div 2), b, n)

--------------------------------------------------------------------------
(* The quicksort that gives up and heap sorts beyond a depth               *)

median3(a, m1, m2, m3) ==
    IF a[m1] < a[m2]
    THEN IF a[m2] < a[m3] THEN m2 ELSE IF a[m1] < a[m3] THEN m3 ELSE m1
    ELSE IF a[m1] < a[m3] THEN m1 ELSE IF a[m2] < a[m3] THEN m3 ELSE m2

pivot(a, b, n) ==
    LET m == b + n \div 2
        e == b + n - 1
        w == n \div 9
    IN  IF n <= Many THEN median3(a, b, m, e)
        ELSE median3(a, median3(a, b, b + w, b + 2 * w),
                        median3(a, m - w, m, m + w),
                        median3(a, e - 2 * w, e - w, e))

(* lo and hi approach each other past what is on its side of a[b]          *)
RECURSIVE partition(_, _, _, _, _)
partition(a, b, lo, hi, side) ==
    CASE side = "lo" /\ a[b] >= a[lo] ->
            IF lo = hi THEN [a |-> a, lo |-> lo, hi |-> hi + 1]
            ELSE partition(a, b, lo + 1, hi, "lo")
      [] side = "lo" /\ a[b] < a[lo] -> partition(a, b, lo, hi, "hi")
      [] side = "hi" /\ a[b] < a[hi] ->
            IF lo = hi THEN [a |-> a, lo |-> lo - 1, hi |-> hi]
            ELSE partition(a, b, lo, hi - 1, "hi")
      [] side = "hi" /\ a[b] >= a[hi] ->
            IF lo + 1 = hi THEN [a |-> SWAP(a, lo, hi), lo |-> lo, hi |-> hi]
            ELSE partition(SWAP(a, lo, hi), b, lo + 1, hi - 1, "lo")

RECURSIVE log2(_)
log2(n) == IF n <= 1 THEN 0 ELSE 1 + log2(n \div 2)

bailout(n) == IF 2 * log2(n) > MaxDepth - 3 THEN MaxDepth - 3 ELSE 2 * log2(n)

(* the part from b on, and the parts that wait on the stack.  most is the  *)
(* greatest number of those there has been                                 *)
RECURSIVE qsort_from(_, _, _, _, _, _, _)
qsort_from(a, b, n, depth, bail, stack, most) ==
    LET pop(c) == IF stack = <<>> THEN [a |-> c, most |-> most]
                  ELSE LET t == Head(stack)
                       IN  qsort_from(c, t.start, t.nelem, t.qdepth, bail, Tail(stack), most)
        at   == pivot(a, b, n)
        r    == partition(SWAP(a, b, at), b, b + 1, b + n - 1, "lo")
        c    == SWAP(r.a, b, r.lo)
        nhi  == b + n - r.hi
        nlo  == r.lo - b
        push == <<[start |-> b, nelem |-> nlo, qdepth |-> depth + 1]>> \o stack
    IN  IF depth > bail THEN pop(hsort_i(a, b, n))
        ELSE IF nhi > Thresh
        THEN IF nlo > Thresh
             THEN qsort_from(c, r.hi, nhi, depth + 1, bail, push,
                             IF Len(push) > most THEN Len(push) ELSE most)
             ELSE qsort_from(isort_i(c, b, nlo), r.hi, nhi, depth + 1, bail, stack, most)
        ELSE LET d == isort_i(c, r.hi, nhi)
             IN  IF nlo > Thresh THEN qsort_from(d, b, nlo, depth + 1, bail, stack, most)
                 ELSE pop(isort_i(d, b, nlo))

qsort_array(a, n) ==
    IF n <= Thresh THEN [a |-> isort_i(a, 0, n), most |-> 0]
    ELSE qsort_from(a, 0, n, 1, bailout(n), <<>>, 0)

--------------------------------------------------------------------------
(* permute_array: the element at index i is to be the one that was at      *)
(* varr[i].  Each cycle is walked once, and varr is left as no movement    *)

(* Fault: varr is left as it was *)
RECURSIVE CycleKeepsMap(_, _, _, _, _)
CycleKeepsMap(a, varr, hi, last, hold) ==
    LET to == varr[last]
    IN  IF to = hi THEN [a |-> [a EXCEPT ![last] = hold], v |-> varr]
        ELSE CycleKeepsMap([a EXCEPT ![last] = a[to]], varr, hi, to, hold)

RECURSIVE cycle(_, _, _, _, _)
cycle(a, varr, hi, last, hold) ==
    LET to == varr[last]
        v  == [varr EXCEPT ![last] = last]
    IN  IF to = hi THEN [a |-> [a EXCEPT ![last] = hold], v |-> v]
        ELSE cycle([a EXCEPT ![last] = a[to]], v, hi, to, hold)

RECURSIVE permuted(_, _, _, _)
permuted(a, varr, hi, n) ==
    IF hi = n THEN a
    ELSE IF varr[hi] = hi THEN permuted(a, varr, hi + 1, n)
    ELSE LET r == cycle(a, varr, hi, hi, a[hi]) IN permuted(r.a, r.v, hi + 1, n)

permute_array(a, varr, n) == IF n < 2 THEN a ELSE permuted(a, varr, 0, n)

--------------------------------------------------------------------------
(* Search: Knuth-Morris-Pratt, Boyer-Moore and the suffix tree.  A string  *)
(* is a sequence of characters, and at(s, i) is its i-th from 0.  An       *)
(* answer is a place in the string, or NoMatch.                            *)

NoMatch == -1

at(s, i) == s[i + 1]

--------------------------------------------------------------------------
(* Knuth-Morris-Pratt.  skips[q] is the length of the longest start of the *)
(* pattern that ends at q                                                  *)

(* Fault: only one shorter start of the pattern is tried *)
FallsOnce(p, skips, q, c) == IF q > 0 /\ at(p, q) # c THEN skips[q - 1] ELSE q

RECURSIVE fallback(_, _, _, _)
fallback(p, skips, q, c) ==
    IF q > 0 /\ at(p, q) # c THEN fallback(p, skips, skips[q - 1], c) ELSE q

longer(p, skips, q, c) ==
    LET k == fallback(p, skips, q, c) IN IF at(p, k) = c THEN k + 1 ELSE k

RECURSIVE kmp_skips(_, _, _)
kmp_skips(p, skips, q) ==
    IF q = Len(p) THEN skips
    ELSE LET k == longer(p, skips, skips[q - 1], at(p, q))
         IN  kmp_skips(p, [i \in 0..q |-> IF i = q THEN k ELSE skips[i]], q + 1)

kmp_pinit(p) == kmp_skips(p, [i \in {0} |-> 0], 1)

RECURSIVE kmp_scan(_, _, _, _, _)
kmp_scan(s, p, skips, i, q) ==
    IF i = Len(s) THEN NoMatch
    ELSE LET n == longer(p, skips, q, at(s, i))
         IN  IF n = Len(p) THEN i - n + 1 ELSE kmp_scan(s, p, skips, i + 1, n)

kmp_match(s, p) == kmp_scan(s, p, kmp_pinit(p), 0, 0)

--------------------------------------------------------------------------
(* Boyer-Moore.  last[c] is one more than c's last place in the pattern;   *)
(* skips[j - 1] how far to go when all from j on matched                   *)

bm_last(p, c) ==
    LET places == {i \in DOMAIN p : p[i] = c}
    IN  IF places = {} THEN 0 ELSE CHOOSE i \in places : \A k \in places : k <= i

(* from border to border of what follows j, until one can be preceded so   *)
RECURSIVE borders(_, _, _, _, _)
borders(p, skips, scratch, i, j) ==
    IF i < Len(p) /\ at(p, i) # at(p, j)
    THEN borders(p, IF skips[i] = 0 THEN [skips EXCEPT ![i] = i - j] ELSE skips,
                 scratch, scratch[i] - 1, j)
    ELSE [skips |-> skips, i |-> i - 1]

RECURSIVE bm_backwards(_, _, _, _, _)
bm_backwards(p, skips, scratch, i, j) ==
    LET sc == [scratch EXCEPT ![j] = i + 1]
        r  == borders(p, skips, sc, i, j)
    IN  IF j = 0 THEN [skips |-> r.skips, scratch |-> sc, i |-> r.i]
        ELSE bm_backwards(p, r.skips, sc, r.i, j - 1)

RECURSIVE bm_forwards(_, _, _, _)
bm_forwards(skips, scratch, i, j) ==
    IF j \notin DOMAIN skips THEN skips
    ELSE bm_forwards(IF skips[j] = 0 THEN [skips EXCEPT ![j] = i + 1] ELSE skips,
                     scratch, IF i = j THEN scratch[j] - 1 ELSE i, j + 1)

bm_pinit(p) ==
    LET none == [j \in 0..Len(p)-1 |-> 0]
        r    == bm_backwards(p, none, none, Len(p), Len(p) - 1)
    IN  IF Len(p) = 0 THEN none ELSE bm_forwards(r.skips, r.scratch, r.i, 0)

(* the pattern's end that agrees with the text at i leaves j characters *)
RECURSIVE disagree(_, _, _, _)
disagree(s, p, i, j) ==
    IF j > 0 /\ at(p, j - 1) = at(s, i + j - 1) THEN disagree(s, p, i, j - 1) ELSE j

RECURSIVE bm_scan(_, _, _, _)
bm_scan(s, p, skips, i) ==
    LET j    == disagree(s, p, i, Len(p))
        last == bm_last(p, at(s, i + j - 1))
        skip == IF last < j THEN j - last ELSE 1
    IN  IF i > Len(s) - Len(p) THEN NoMatch
        ELSE IF j = 0 THEN i
        ELSE bm_scan(s, p, skips, i + IF skip < skips[j - 1] THEN skips[j - 1] ELSE skip)

(* a text shorter than the pattern is read past its end: not called so *)
bm_match(s, p) == bm_scan(s, p, bm_pinit(p), 0)

--------------------------------------------------------------------------
(* The suffix tree.  edges maps <<node, character>> to [node, start, end], *)
(* the text on the edge; sptr a node to that of the suffix after its own.  *)
(* Nodes are numbered as they are made, SRoot is 0.  There is memory for   *)
(* room nodes; failed: one was asked for and there was none.               *)

SRoot  == 0
NoNode == -1

getedge(t, n, c) == t.edges[<<n, c>>]
hasedge(t, n, c) == <<n, c>> \in DOMAIN t.edges

edged(t, n, c, e) == [t EXCEPT !.edges = [k \in DOMAIN @ \cup {<<n, c>>} |->
                                            IF k = <<n, c>> THEN e ELSE @[k]]]

newnode(t) ==
    IF t.nodes > t.room THEN [t EXCEPT !.failed = TRUE]
    ELSE [t EXCEPT !.sptr = [n \in 0..t.nodes |-> IF n < t.nodes THEN @[n] ELSE NoNode],
                   !.nodes = @ + 1]

(* the edge is made first, and leads nowhere if there is no leaf for it    *)
leaf(t, text, n, i) ==
    LET u == newnode(t)
    IN  edged(u, n, at(text, i), [node |-> IF u.failed THEN NoNode ELSE t.nodes,
                                  start |-> i, end |-> Len(text) - 1])

(* edge k gets a new node off characters down, with a new leaf for index i *)
split(t, text, k, off, i) ==
    LET e   == t.edges[k]
        new == t.nodes
        u   == [newnode(t) EXCEPT !.sptr[new] = k[1],
                  !.edges[k] = [node |-> new, start |-> e.start, end |-> e.start + off - 1]]
        v   == edged(u, new, at(text, e.start + off), [e EXCEPT !.start = @ + off])
    IN  IF newnode(t).failed THEN newnode(t) ELSE leaf(v, text, new, i)

isexplicit(a) == a.end < a.start

(* down whole edges as long as the suffix covers them *)
RECURSIVE canonical(_, _, _)
canonical(t, text, a) ==
    LET e    == getedge(t, a.node, at(text, a.start))
        span == e.end - e.start + 1
    IN  IF isexplicit(a) THEN a
        ELSE IF span > a.end - a.start + 1 THEN a
        ELSE canonical(t, text, [a EXCEPT !.start = @ + span, !.node = e.node])

linked(t, from, to) ==
    IF from \in {NoNode, SRoot} THEN t ELSE [t EXCEPT !.sptr[from] = to]

(* every suffix from the active one on gets character i, until one has it *)
RECURSIVE extended(_, _, _, _, _)
extended(t, text, i, a, lastpar) ==
    LET c     == at(text, i)
        k     == <<a.node, at(text, a.start)>>
        span  == a.end - a.start + 1
        there == IF isexplicit(a) THEN hasedge(t, a.node, c)
                 ELSE at(text, t.edges[k].start + span) = c
        u     == IF isexplicit(a) THEN leaf(t, text, a.node, i)
                 ELSE split(t, text, k, span, i)
        cur   == IF isexplicit(a) THEN a.node ELSE t.nodes
        v     == linked(u, lastpar, cur)
        b     == IF a.node = SRoot THEN [a EXCEPT !.start = @ + 1]
                 ELSE [a EXCEPT !.node = v.sptr[a.node]]
    IN  IF there THEN [t |-> linked(t, lastpar, a.node), a |-> a]
        ELSE IF u.failed THEN [t |-> u, a |-> a]
        ELSE extended(v, text, i, canonical(v, text, b), cur)

RECURSIVE sfx_build(_, _, _, _)
sfx_build(t, text, i, a) ==
    IF i = Len(text) THEN t
    ELSE LET r == extended(t, text, i, a, NoNode)
         IN  IF r.t.failed THEN r.t
             ELSE sfx_build(r.t, text, i + 1,
                            canonical(r.t, text, [r.a EXCEPT !.end = @ + 1]))

(* A text has a character: without one ht_init's assertion of a bucket     *)
(* ends the program.  An edge has its memory: newedge writes to it without *)
(* a look.                                                                 *)
sfx_init(text, room) ==
    sfx_build([edges |-> [k \in {} |-> NoNode], sptr |-> [n \in {SRoot} |-> NoNode],
               nodes |-> 1, room |-> room, failed |-> FALSE],
              text, 0, [node |-> SRoot, start |-> 0, end |-> -1])

(* down the edges from character i of the pattern *)
RECURSIVE descend(_, _, _, _, _)
descend(t, text, p, n, i) ==
    LET e    == getedge(t, n, at(p, i))
        full == e.end - e.start + 1
        len  == IF Len(p) - i < full THEN Len(p) - i ELSE full
    IN  IF ~hasedge(t, n, at(p, i)) THEN NoMatch
        ELSE IF SubSeq(text, e.start + 1, e.start + len) # SubSeq(p, i + 1, i + len) THEN NoMatch
        ELSE IF i + len = Len(p) THEN e.start + len - Len(p)
        ELSE descend(t, text, p, e.node, i + len)

sfx_match(t, text, p) == IF Len(p) = 0 THEN 0 ELSE descend(t, text, p, SRoot, 0)

(* sfx_clear frees each edge and the node it leads to, if any *)
sfx_freed(t) == [k \in {k \in DOMAIN t.edges : t.edges[k].node # NoNode} |-> t.edges[k].node]

--------------------------------------------------------------------------
(* What is searched for *)

Places(s, p) == {i \in 0..Len(s)-Len(p) : SubSeq(s, i + 1, i + Len(p)) = p}

FirstPlace(s, p) == IF Places(s, p) = {} THEN NoMatch
                    ELSE CHOOSE i \in Places(s, p) : \A k \in Places(s, p) : i <= k
=============================================================================
