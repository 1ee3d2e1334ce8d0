------------------------------- MODULE StdObjs -------------------------------
(***************************************************************************)
(* One object of the library and one client of it: a pair of lists, a      *)
(* clist (src/stduse.c), a heap, a ring buffer, a dynamic buffer, an array *)
(* memory manager, a pair of bit sets or a graph.  The client keeps to the *)
(* calls that work: what a guard leaves out is said at the guard.          *)
(*   kind.obj  which object                                                *)
(*   s         its state                                                   *)
(*   want      what the client has put into it (it is only compared)       *)
(***************************************************************************)
EXTENDS Links, Heap, Buffers, Graph, TLC

CONSTANTS ObjKinds,     \* records [obj |-> ...], with the size of a heap's or ring's or
                        \* region's memory, or a graph's most nodes and edges
          Elem,         \* elements of lists
          HeapElem,     \* and of heaps
          HeadA, HeadB, \* the two lists' heads; all are in Cell
          Chunk,        \* the bytes a client writes at once: sequences of numbers
          Piece,        \* the same, for a dynamic buffer
          MaxRing,      \* a ring and a dynamic buffer grow to this size only
          NbitsA, NbitsB \* the two bit sets' sizes

VARIABLES kind, s, want
vars == <<kind, s, want>>

is(obj) == kind.obj = obj

Pair(a, b) == [A |-> a, B |-> b]
Two == {"A", "B"}
head == Pair(HeadA, HeadB)

(* the smallest of a set of addresses: what malloc answers *)
Lowest(set) == CHOOSE n \in set : \A m \in set : n <= m

becomes(t, w) == s' = t /\ want' = w /\ UNCHANGED kind

KeysOf(seq) == [i \in DOMAIN seq |-> KeyOf[seq[i]]]
Sorted(seq) == SortSeq(seq, <)

--------------------------------------------------------------------------
(* Two lists.  want: their keys in order                                   *)

on(h) == l_apply(s, head[h])
Off == {e \in Elem : s.next[e] = e}

Enter == \E e \in Off, h \in Two :
         LET seq == on(h) key == KeyOf[e] IN
            \/ becomes(l_enq(s, head[h], e), [want EXCEPT ![h] = Append(@, key)])
            \/ becomes(l_push(s, head[h], e), [want EXCEPT ![h] = <<key>> \o @])
            \/ \E i \in DOMAIN seq :
                  becomes(l_ins(s, seq[i], e),
                          [want EXCEPT ![h] = SubSeq(@, 1, i) \o <<key>> \o SubSeq(@, i+1, Len(@))])

Leave == \E h \in Two :
         LET seq == on(h) IN
            \/ \E i \in DOMAIN seq :
                  becomes(l_rem(s, seq[i]),
                          [want EXCEPT ![h] = SubSeq(@, 1, i-1) \o SubSeq(@, i+1, Len(@))])
            \/ seq # <<>> /\ becomes(l_deq(s, head[h]).l, [want EXCEPT ![h] = Tail(@)])

Move == /\ on("A") = <<>> /\ on("B") # <<>>
        /\ becomes(l_move(s, HeadA, HeadB), Pair(want.B, <<>>))

Cut == /\ on("B") = <<>>
       /\ \E i, j \in DOMAIN on("A") :
            /\ i <= j
            /\ becomes(l_cut(s, HeadB, on("A")[i], on("A")[j]),
                       Pair(SubSeq(want.A, 1, i-1) \o SubSeq(want.A, j+1, Len(want.A)),
                            SubSeq(want.A, i, j)))

Splice == \/ becomes(l_append(s, HeadA, HeadB), Pair(want.A \o want.B, <<>>))
          \/ \E i \in DOMAIN on("A") :
               becomes(l_splice(s, on("A")[i], HeadB),
                       Pair(SubSeq(want.A, 1, i) \o want.B
                              \o SubSeq(want.A, i+1, Len(want.A)), <<>>))

Merge == /\ \A h \in Two : want[h] = Sorted(want[h])
         /\ on("A") # <<>> \/ on("B") # <<>>
         /\ becomes(l_merge(s, HeadA, HeadB), Pair(Sorted(want.A \o want.B), <<>>))

Sort == /\ on("A") # <<>>
        /\ becomes(l_sort(s, HeadA), [want EXCEPT !.A = Sorted(@)])

ListNext == is("list") /\ (Enter \/ Leave \/ Move \/ Cut \/ Splice \/ Merge \/ Sort)

--------------------------------------------------------------------------
(* A clist: s.owner[n] is node->list, s.mem what is allocated              *)

cl_new == [l |-> Unlinked, fill |-> 0, owner |-> [n \in Elem |-> FALSE],
           data |-> [n \in Elem |-> 0], mem |-> {HeadA}]

cl_ins(c, prev, n, v) ==
    [l |-> l_ins(c.l, prev, n), fill |-> c.fill + 1, owner |-> [c.owner EXCEPT ![n] = TRUE],
     data |-> [c.data EXCEPT ![n] = v], mem |-> c.mem \cup {n}]

cl_del(c, n) ==
    LET u == IF c.owner[n] THEN [c EXCEPT !.l = l_rem(@, n), !.fill = @ - 1, !.owner[n] = FALSE]
             ELSE c
    IN  [u EXCEPT !.mem = @ \ {n}]

cl_first(c) == l_head(c.l, HeadA)
cl_last(c)  == l_tail(c.l, HeadA)

RECURSIVE cl_free(_)
cl_free(c) == IF c.fill = 0 THEN [c EXCEPT !.mem = @ \ {HeadA}]
              ELSE cl_free(cl_del(c, cl_first(c)))

kept == l_apply(s.l, HeadA)

NewClist == s.mem = {} /\ becomes(cl_new, <<>>)

(* a node that could not be allocated changes nothing, or ends the program *)
Add == /\ HeadA \in s.mem /\ Elem \ s.mem # {}
       /\ \E v \in 1..2 : LET n == Lowest(Elem \ s.mem) IN
            \/ becomes(cl_ins(s, HeadA, n, v), <<v>> \o want)
            \/ becomes(cl_ins(s, cl_last(s), n, v), Append(want, v))
            \/ \E i \in DOMAIN kept :
                 becomes(cl_ins(s, kept[i], n, v),
                         SubSeq(want, 1, i) \o <<v>> \o SubSeq(want, i + 1, Len(want)))

Drop == /\ HeadA \in s.mem /\ s.fill # 0
        /\ \/ becomes(cl_del(s, cl_first(s)), Tail(want))
           \/ \E i \in DOMAIN kept :
                becomes(cl_del(s, kept[i]),
                        SubSeq(want, 1, i - 1) \o SubSeq(want, i + 1, Len(want)))

FreeClist == HeadA \in s.mem /\ becomes(cl_free(s), <<>>)

ClistNext == is("clist") /\ (NewClist \/ Add \/ Drop \/ FreeClist)

--------------------------------------------------------------------------
(* A heap that grows (size 0) or not.  want: the elements in it            *)

Grows == kind.size = 0

AddElem == \E e \in HeapElem \ want : \E got \in BOOLEAN :
             LET r == hp_add(s, e, Grows, got)
             IN  becomes(r.hp, IF r.pos = -1 THEN want ELSE want \cup {e})

Extract == /\ want # {}
           /\ LET r == hp_extract(s) IN becomes(r.hp, want \ {r.e})

Remove == \E i \in 0..s.fill-1 :
             LET r == hp_rem(s, i) IN becomes(r.hp, want \ {s.elem[i]})

HeapNext == is("heap") /\ (AddElem \/ Extract \/ Remove)

--------------------------------------------------------------------------
(* A ring buffer.  want: its bytes in order.  Left out: a put that fills   *)
(* the whole ring over bytes that are there, where an assertion ends the   *)
(* program                                                                 *)

Lasts(seq, n) == IF Len(seq) <= n THEN seq ELSE SubSeq(seq, Len(seq) - n + 1, Len(seq))

Upto(seq, n) == SubSeq(seq, 1, least(n, Len(seq)))

RingPut == \E in \in Chunk, overwrite \in BOOLEAN :
              LET r == ring_put_bytes(s, in, overwrite)
              IN  /\ overwrite => CanPut(s, in)
                  /\ becomes(r.r, Lasts(want \o SubSeq(in, 1, r.n), s.alloc))

RingGet == \E n \in 1..s.alloc+1 :
              LET r == ring_get_bytes(s, n)
              IN  becomes(r.r, SubSeq(want, Len(r.out) + 1, Len(want)))

RingReset == becomes(ring_reset(s), <<>>)

(* The bytes lie at the start of the memory, as ring_alloc needs them, and *)
(* the text and its end fit.  Left out: a text that does not, which is     *)
(* written a second time without its last character                        *)
RingFmt == \E text \in Chunk :
              /\ s.start = 0 /\ Len(text) < ring_avail(s)
              /\ becomes(ring_fmt(s, text), want \o text)

(* The ring is not full and grows, or its bytes lie or are moved to the    *)
(* start in one piece.  Left out: a full ring; bytes in two pieces with    *)
(* room for n more, which are moved as if they lay in one, past the end of *)
(* the memory; bytes elsewhere than at the start with room behind them,    *)
(* where the index answered is not that behind the last; and a request for *)
(* more than CAT_MAXGROW, which ends the program                           *)
RingAlloc == \E in \in Chunk :
    LET n == Len(in)
        r == ring_alloc(s, n)
    IN  /\ s.len < s.alloc /\ r.at # Ended
        /\ \/ ring_avail(s) < n /\ 2 * s.alloc <= MaxRing
           \/ ring_avail(s) >= n /\ s.start = 0
           \/ ring_avail(s) >= n /\ s.start < ring_last(s) /\ n > s.alloc - ring_last(s)
        /\ becomes([r.r EXCEPT !.data = written(@, r.at, in), !.len = @ + n], want \o in)

RingNext == is("ring") /\ (RingPut \/ RingGet \/ RingReset \/ RingFmt \/ RingAlloc)

--------------------------------------------------------------------------
(* A dynamic buffer.  want.bytes: its bytes; want.refused: which functions *)
(* have refused what buffer.h says they do: dyb_cat and dyb_set take what  *)
(* there is room for, the others what there is or can be allocated room    *)
(* for                                                                     *)

holds(b, w) == becomes(b, [want EXCEPT !.bytes = w])

stores(fn, r, w, promised) ==
    becomes(r.b, [bytes   |-> IF r.ok THEN w ELSE want.bytes,
                  refused |-> want.refused \cup IF promised /\ ~r.ok THEN {fn} ELSE {}])

(* Left out: a dyb_set_a past the end of ulong, which is not refused *)
Store == \E in \in Piece, got \in BOOLEAN :
    LET room(n) == n <= s.size \/ (got /\ n <= SizeMax)
        both == want.bytes \o in
        last == s.off + Len(both)
    IN  \/ stores("dyb_cat", dyb_cat(s, in), both, last <= s.size)
        \/ s.size < MaxRing /\ stores("dyb_cat_a", dyb_cat_a(s, in, got), both, room(last))
        \/ \E off \in 0..s.size :
              LET end == off + Len(in)
              IN  \/ stores("dyb_set", dyb_set(s, off, in), in, end <= s.size)
                  \/ end <= SizeMax /\ stores("dyb_set_a", dyb_set_a(s, off, in, got), in, room(end))

Reserve == \E sz \in 1..MaxRing, got \in BOOLEAN :
    stores("dyb_resv", dyb_resv(s, sz, got), want.bytes, sz <= s.size \/ got)

Discard == \/ holds(dyb_clear(s), <<>>)
           \/ holds(dyb_release(s).b, <<>>)
           \/ holds(dyb_empty(s), <<>>)

(* From another buffer, whose bytes this one has the memory for.  Left     *)
(* out: one that has not, for which none is allocated (buffer.h says it    *)
(* is) and whose bytes are written all the same                            *)
Copy == \E off \in 0..2, in \in Piece :
          LET sb == dyb_set(dyb_resv(dyb_init, MaxRing, TRUE).b, off, in).b
          IN  /\ off + Len(in) <= s.size
              /\ holds(dyb_copy(s, sb), in)

DynNext == is("dynbuf") /\ (Store \/ Reserve \/ Discard \/ Copy)

--------------------------------------------------------------------------
(* An array memory manager.  want: the blocks handed out.  Left out: a     *)
(* length that rounded up to units is more than a size_t, which is given a *)
(* block of no units                                                       *)

Request == \E len \in 1..SizeMax :
             LET r == mem_get(s, len)
             IN  /\ len + s.unit - 1 <= SizeMax
                 /\ becomes(r.a, IF r.p = -1 THEN want ELSE want \cup {[at |-> r.p, len |-> len]})

Reset == becomes(amm_reset(s), {})

ArenaNext == is("arena") /\ (Request \/ Reset)

--------------------------------------------------------------------------
(* Two bit sets.  want: the numbers in each.  Left out: the number nbits,  *)
(* which is no member but is taken, where the words end with the one       *)
(* before it                                                               *)

Bit == \E h \in Two : \E i \in sbs_takes(s[h]) :
    LET n == s[h].nbits
        set(b, w) == /\ i < Bits * bset_len(n)
                     /\ becomes([s EXCEPT ![h] = b], [want EXCEPT ![h] = w \cap 0..n-1])
    IN  \/ set(bset_set_to(s[h], i, TRUE), want[h] \cup {i})
        \/ set(bset_set_to(s[h], i, FALSE), want[h] \ {i})
        \/ set(bset_flip(s[h], i), IF i \in want[h] THEN want[h] \ {i} ELSE want[h] \cup {i})

AllBits == \E h \in Two : LET n == s[h].nbits IN
    \/ becomes([s EXCEPT ![h] = bset_zero(n)], [want EXCEPT ![h] = {}])
    \/ becomes([s EXCEPT ![h] = bset_fill(n)], [want EXCEPT ![h] = 0..n-1])

CopyBits == \E d \in Two : LET o == IF d = "A" THEN "B" ELSE "A" IN
    becomes([s EXCEPT ![d] = sbs_copy(@, s[o])],
            [want EXCEPT ![d] = {i \in 0..s[d].nbits-1 :
                                   i \in IF i < s[o].nbits THEN want[o] ELSE want[d]}])

BitsNext == is("bitset") /\ (Bit \/ AllBits \/ CopyBits)

--------------------------------------------------------------------------
(* A graph.  want: the edges as the client asked for them                  *)

(* an edge was freed while it is on the graph's list *)
Dangling(g) == \E e \in g.edges : <<"edge", e>> \notin g.mem

Whole == <<"graph">> \in s.mem /\ ~Dangling(s)

NewGraph == /\ s.mem = {}
            /\ \E isbi \in BOOLEAN : becomes(gr_new(isbi), want)

AddNode == /\ Whole /\ Cardinality(s.nodes) < kind.size
           /\ \E fail \in 0..(IF s.isbi THEN 2 ELSE 3) :
                becomes(gr_add_node(s, Lowest(Vertex \ s.nodes), fail), want)

AddEdge == /\ Whole /\ Cardinality(s.edges) < kind.edges
           /\ \E from, to \in s.nodes, fail \in 0..3 :
                LET e == Lowest(Edge \ s.edges)
                    g == gr_add_edge(s, e, from, to, fail)
                IN  becomes(g, IF <<"edge", e>> \in g.mem
                               THEN [want EXCEPT ![e] = {<<from, to>>}] ELSE want)

DelEdge == /\ Whole
           /\ \E e \in s.edges : becomes(gr_del_edge(s, e), [want EXCEPT ![e] = {}])

DelNode == /\ Whole
           /\ \E n \in s.nodes :
                becomes(gr_del_node(s, n),
                        [e \in Edge |-> {p \in want[e] : n \notin {p[1], p[2]}}])

FreeGraph == Whole /\ becomes(gr_free(s), [e \in Edge |-> {}])

GraphNext == is("graph") /\ (NewGraph \/ AddNode \/ AddEdge \/ DelEdge \/ DelNode \/ FreeGraph)

--------------------------------------------------------------------------

(* hp_init on an array in every order of the elements *)
HeapArrays(n) == {a \in [0..n-1 -> HeapElem] : \A i, j \in 0..n-1 : a[i] = a[j] => i = j}

Start == CASE is("list")   -> {<<Unlinked, Pair(<<>>, <<>>)>>}
           [] is("clist")  -> {<<[cl_new EXCEPT !.mem = {}], <<>>>>}
           [] is("heap")   -> {<<hp_init(a, kind.size, kind.size),
                                 {a[i] : i \in DOMAIN a}>> : a \in HeapArrays(kind.size)}
           [] is("ring")   -> {<<ring_init(kind.size), <<>>>>}
           [] is("dynbuf") -> {<<dyb_init, [bytes |-> <<>>, refused |-> {}]>>}
           [] is("arena")  -> {<<amm_init(kind.size, u, up), {}>> : u \in {1, 2}, up \in BOOLEAN}
           [] is("bitset") -> {<<Pair(bset_zero(NbitsA), bset_zero(NbitsB)), Pair({}, {})>>}
           [] is("graph")  -> {<<[gr_new(FALSE) EXCEPT !.mem = {}], [e \in Edge |-> {}]>>}

Init == /\ kind \in ObjKinds
        /\ \E p \in Start : s = p[1] /\ want = p[2]

Next == ListNext \/ ClistNext \/ HeapNext \/ RingNext
        \/ DynNext \/ ArenaNext \/ BitsNext \/ GraphNext

Spec == Init /\ [][Next]_vars

--------------------------------------------------------------------------

(* What the code relies on: links agree in both directions, no heap        *)
(* element is above a smaller one, lengths and offsets lie inside their    *)
(* memory, a graph's arrays hold exactly its nodes' edges, once each.      *)
ObjSound ==
    CASE is("list")   -> LinksAgree(s)
      [] is("clist")  -> LinksAgree(s.l) /\ (HeadA \in s.mem => s.fill = Len(kept))
      [] is("heap")   -> HeapSound(s)
      [] is("ring")   -> s.start < s.alloc /\ s.len <= s.alloc /\ (s.len = 0 => want = <<>>)
      [] is("dynbuf") -> dyb_sanity(s)
      [] is("arena")  -> s.fill <= s.mlen
      [] is("bitset") -> \A h \in Two : DOMAIN s[h].set = 0..bset_len(s[h].nbits)-1
      [] is("graph")  -> ~Dangling(s) => GraphSound(s)

(* What comes out is what was put in: contents and order of lists, the     *)
(* smallest element of a heap and each element where it is looked for, the *)
(* ring's and the buffers' bytes over the wraps, moves and growths that    *)
(* the actions leave in, the bits, the edges between two nodes; blocks     *)
(* never overlap; and only dyb_set_a refuses what it should not            *)
(* (BufferPromises).                                                       *)
ObjFaithful ==
    CASE is("list")   -> \A h \in Two : KeysOf(on(h)) = want[h]
      [] is("clist")  -> HeadA \in s.mem => [i \in DOMAIN kept |-> s.data[kept[i]]] = want
      [] is("heap")   ->
           /\ elements(s) = want /\ s.fill = Cardinality(want)
           /\ want # {} => \A e \in want : ~exceeds(hp_extract(s).e, e)
           /\ \A e \in HeapElem :
                /\ LET i == hp_find(s, e)
                   IN  IF i = -1 THEN \A f \in want : PriorityOf[f] # PriorityOf[e]
                       ELSE PriorityOf[s.elem[i]] = PriorityOf[e]
                /\ LET r == hp_add(s, e, Grows, TRUE)
                   IN  r.pos # -1 => r.hp.elem[r.pos] = e
      [] is("ring")   -> copied(s, s.len) = want
      [] is("dynbuf") -> bytes(s) = want.bytes /\ want.refused \subseteq {"dyb_set_a"}
      [] is("arena")  ->
           LET overlap(b, c) == b.at < c.at + c.len /\ c.at < b.at + b.len
           IN  \A b \in want : /\ b.at % s.unit = 0 /\ b.at >= 0
                               /\ b.at + b.len <= s.mlen * s.unit
                               /\ \A c \in want \ {b} : ~overlap(b, c)
      [] is("bitset") -> \A h \in Two : want[h] = {i \in 0..s[h].nbits-1 : bset_test(s[h], i)}
      [] is("graph")  ->
           LET joined(n, m) == {e \in Edge : \/ <<n, m>> \in want[e]
                                             \/ s.isbi /\ <<m, n>> \in want[e]}
           IN  Whole => \A n, m \in s.nodes : (n = m => ~s.isbi) =>
                 LET e == gr_find_edge(s, n, m)
                 IN  IF joined(n, m) = {} THEN e = NoEdge
                     ELSE e \in joined(n, m) /\ gr_edge_dst(s, n, e) = m

(* What is allocated is what is in the clist or graph: nothing leaks when  *)
(* a later allocation of a call fails, and freeing the whole frees all.    *)
ObjMemory ==
    CASE is("clist") -> s.mem = IF HeadA \in s.mem
                                THEN {HeadA} \cup {kept[i] : i \in DOMAIN kept} ELSE {}
      [] is("graph") -> s.mem = IF <<"graph">> \in s.mem
                                THEN {<<"graph">>} \cup UNION {nodemem(s, n) : n \in s.nodes}
                                     \cup {<<"edge", e>> : e \in {e \in Edge : want[e] # {}}}
                                ELSE {}
      [] OTHER -> TRUE

(* A dynamic buffer refuses nothing that it has or gets the memory for, as *)
(* buffer.h says of each function.                                         *)
BufferPromises == is("dynbuf") => want.refused = {}
==============================================================================
