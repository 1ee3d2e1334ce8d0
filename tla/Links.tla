------------------------------- MODULE Links -------------------------------
(***************************************************************************)
(* Doubly linked rings, include/cat/list.h.  A list is a ring through its  *)
(* head; head and elements are the same struct, a cell.  A state of all    *)
(* cells is a record [next, prev : [Cell -> Cell]].  The lists that        *)
(* l_merge and l_sort keep on their stack are the cells Mlist and arr(i).  *)
(***************************************************************************)
EXTENDS Integers, Sequences

CONSTANTS Cell,     \* integers, the heads and elements of the client
          KeyOf,    \* what an element is compared by
          Slots     \* array_length(arr)

Mlist  == -1
arr(i) == -2 - i    \* i in 0..Slots-1
Temps  == {Mlist} \cup {arr(i) : i \in 0..Slots-1}

Cells == Cell \cup Temps

Unlinked == [next |-> [c \in Cells |-> c], prev |-> [c \in Cells |-> c]]

l_init(l, h) == [l EXCEPT !.next[h] = h, !.prev[h] = h]

(* the assertion in l_ins and the two in l_rem, in this order *)
CanIns(l, p) == l.prev[l.next[p]] = p
CanRem(l, e) == l.prev[l.next[e]] = e /\ l.next[l.prev[e]] = e

l_ins(l, p, e) ==
    LET n == l.next[p]
        u == [l EXCEPT !.next[e] = n, !.prev[e] = p]
    IN  [[u EXCEPT !.next[p] = e] EXCEPT !.prev[n] = e]

l_rem(l, e) ==
    LET n == l.next[e]
        p == l.prev[e]
        u == [[l EXCEPT !.next[p] = n] EXCEPT !.prev[n] = p]
    IN  [u EXCEPT !.next[e] = e, !.prev[e] = e]

l_head(l, h) == l.next[h]
l_tail(l, h) == l.prev[h]

l_enq(l, h, e)  == l_ins(l, l.prev[h], e)
l_push(l, h, e) == l_ins(l, h, e)

l_isempty(l, h) == l.next[h] = h

(* l_deq and l_pop take the same element; h itself stands for NULL *)
l_deq(l, h) == LET e == l.next[h]
               IN  [l |-> IF e = h THEN l ELSE l_rem(l, e), e |-> e]
l_pop(l, h) == l_deq(l, h)

(* the elements as l_apply visits them, one by one until the head *)
RECURSIVE onwards(_, _, _)
onwards(l, h, c) == IF c = h THEN <<>> ELSE <<c>> \o onwards(l, h, l.next[c])

l_apply(l, h)  == onwards(l, h, l.next[h])
l_length(l, h) == Len(l_apply(l, h))

(* the elements of src become dst's.  From an empty src, dst->prev is left *)
(* pointing to src                                                         *)
l_move(l, dst, src) ==
    LET u == [l EXCEPT !.next[dst] = l.next[src], !.prev[dst] = l.prev[src]]
        v == [u EXCEPT !.prev[u.next[src]] = dst]
        w == [v EXCEPT !.next[v.prev[src]] = dst]
    IN  l_init(w, src)

(* dst, empty, becomes the list of the elements from first to last *)
l_cut(l, dst, first, last) ==
    LET before == l.prev[first]
        after  == l.next[last]
        u == [l EXCEPT !.next[dst] = first, !.prev[dst] = last]
        v == [[u EXCEPT !.prev[first] = dst] EXCEPT !.next[last] = dst]
    IN  [[v EXCEPT !.next[before] = after] EXCEPT !.prev[after] = before]

(* the elements of list2 are put after p *)
l_splice(l, p, list2) ==
    LET after == l.next[p]
        first == l.next[list2]
        last  == l.prev[list2]
        u == [[l EXCEPT !.prev[first] = p] EXCEPT !.next[p] = first]
        v == [[u EXCEPT !.next[last] = after] EXCEPT !.prev[after] = last]
    IN  IF l_isempty(l, list2) THEN l ELSE l_init(v, list2)

l_append(l, list1, list2) == l_splice(l, l_tail(l, list1), list2)

before(a, b) == KeyOf[a] < KeyOf[b]

(* the head of a list goes to the end of mlist *)
taken(l, h) == LET t == l_head(l, h) u == l_rem(l, t) IN l_ins(u, l_tail(u, Mlist), t)

RECURSIVE merged(_, _, _)
merged(l, l1, l2) ==
    IF ~l_isempty(l, l1) /\ ~l_isempty(l, l2)
    THEN merged(taken(l, IF before(l_head(l, l1), l_head(l, l2)) THEN l1 ELSE l2), l1, l2)
    ELSE LET rest == IF l_isempty(l, l1) THEN l2 ELSE l1
         IN  IF l_isempty(l, rest) THEN l ELSE merged(taken(l, rest), l1, l2)

l_merge(l, l1, l2) == l_move(merged(l_init(l, Mlist), l1, l2), l1, Mlist)

--------------------------------------------------------------------------
(* Sorting.  arr[i] holds nothing or a sorted run; a full one is merged    *)
(* into the next, as a carry                                               *)

RECURSIVE carried(_, _, _)
carried(l, i, wasempty) ==
    IF i = Slots \/ wasempty THEN l
    ELSE IF l_isempty(l, arr(i)) THEN l_move(l, arr(i), arr(i - 1))
    ELSE carried(l_merge(l, arr(i), arr(i - 1)), i + 1, FALSE)

placed(l, e) ==
    LET u == l_rem(l, e)
        h == l_head(u, arr(0))
    IN  IF l_isempty(u, arr(0)) THEN l_ins(u, arr(0), e)
        ELSE carried(l_ins(u, IF before(e, h) THEN arr(0) ELSE h, e), 1, FALSE)

RECURSIVE spread(_, _)
spread(l, h) == IF l_isempty(l, h) THEN l ELSE spread(placed(l, l_head(l, h)), h)

RECURSIVE collected(_, _, _)
collected(l, i, last) ==
    IF i = Slots THEN [l |-> l, last |-> last]
    ELSE IF l_isempty(l, arr(i)) THEN collected(l, i + 1, last)
    ELSE collected(l_merge(l, arr(i), arr(last)), i + 1, i)

RECURSIVE cleared(_, _)
cleared(l, i) == IF i = Slots THEN l ELSE cleared(l_init(l, arr(i)), i + 1)

l_sort(l, h) ==
    LET r == collected(spread(cleared(l, 0), h), 1, 0)
    IN  l_move(r.l, h, arr(r.last))

--------------------------------------------------------------------------

(* links forward and back agree, everywhere *)
LinksAgree(l) == \A c \in Cell : l.prev[l.next[c]] = c /\ l.next[l.prev[c]] = c
============================================================================
