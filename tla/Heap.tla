-------------------------------- MODULE Heap --------------------------------
(***************************************************************************)
(* Binary heaps in an array, include/cat/heap.h.  A heap is a record       *)
(* [elem, size, fill]: elem is [0..size-1 -> elements], of which the first *)
(* fill are in the heap.                                                   *)
(***************************************************************************)
EXTENDS Integers, Sequences

CONSTANTS PriorityOf,   \* [element -> Int], what cmp compares
          First,        \* the size of a heap that grows from nothing: 32
          IntMax        \* INT_MAX

Junk == 0           \* an array cell not written yet
NoElem == -1        \* NULL

exceeds(e, f) == PriorityOf[e] > PriorityOf[f]

swapped(hp, i, j) == [hp EXCEPT !.elem[i] = hp.elem[j], !.elem[j] = hp.elem[i]]

RECURSIVE reheapup(_, _)
reheapup(hp, pos) ==
    LET ppos == (pos - 1) \div 2
    IN  IF pos >= hp.fill THEN [hp |-> hp, pos |-> 0]
        ELSE IF pos > 0 /\ exceeds(hp.elem[ppos], hp.elem[pos])
             THEN reheapup(swapped(hp, pos, ppos), ppos)
        ELSE [hp |-> hp, pos |-> pos]

RECURSIVE reheapdown(_, _)
reheapdown(hp, pos) ==
    LET left == 2 * pos + 1
        cld  == IF left + 1 < hp.fill /\ exceeds(hp.elem[left], hp.elem[left + 1])
                THEN left + 1 ELSE left
    IN  IF pos >= hp.fill \/ left >= hp.fill THEN hp
        ELSE IF exceeds(hp.elem[pos], hp.elem[cld])
             THEN reheapdown(swapped(hp, pos, cld), cld)
        ELSE hp

RECURSIVE heapified(_, _)
heapified(hp, i) == IF i < 0 THEN hp ELSE heapified(reheapdown(hp, i), i - 1)

hp_init(elem, size, fill) ==
    LET hp == [elem |-> elem, size |-> size, fill |-> IF fill > size THEN size ELSE fill]
    IN  IF fill = 0 THEN hp ELSE heapified(hp, hp.fill \div 2)

(* an int that is too large is a negative one *)
int(n) == IF n > IntMax THEN n - 2 * (IntMax + 1) ELSE n

(* twice the cells, those there already kept *)
more(hp) == IF hp.size = 0 THEN First ELSE int(2 * hp.size)
grown(hp) ==
    [hp EXCEPT !.size = more(hp),
               !.elem = [i \in 0..more(hp)-1 |-> IF i < hp.size THEN hp.elem[i] ELSE Junk]]

(* mm: the heap may resize its array; got: the resize has memory *)
hp_add(hp, e, mm, got) ==
    LET full == hp.fill = hp.size
        u    == IF full THEN grown(hp) ELSE hp
        r    == reheapup([u EXCEPT !.elem[hp.fill] = e, !.fill = @ + 1], hp.fill)
    IN  IF full /\ ~(mm /\ got /\ more(hp) >= hp.size) THEN [hp |-> hp, pos |-> -1] ELSE r

(* the first position whose element compares equal, or -1 *)
RECURSIVE findfrom(_, _, _)
findfrom(hp, e, i) == IF i >= hp.fill THEN -1
                      ELSE IF PriorityOf[hp.elem[i]] = PriorityOf[e] THEN i
                      ELSE findfrom(hp, e, i + 1)

hp_find(hp, e) == findfrom(hp, e, 0)

hp_extract(hp) ==
    LET last == hp.fill - 1
    IN  IF hp.fill = 0 THEN [hp |-> hp, e |-> NoElem]
        ELSE [hp |-> reheapdown([swapped(hp, 0, last) EXCEPT !.fill = last], 0),
              e |-> hp.elem[0]]

(* Fault: the element that fills the gap only sinks *)
RemOnlyDown(hp, i) ==
    LET last == hp.fill - 1
        u    == reheapdown([swapped(hp, i, last) EXCEPT !.fill = last], i)
    IN  IF i >= hp.fill THEN [hp |-> hp, e |-> NoElem] ELSE [hp |-> u, e |-> u.elem[last]]

hp_rem(hp, i) ==
    LET last == hp.fill - 1
        r    == reheapup([swapped(hp, i, last) EXCEPT !.fill = last], i)
        u    == IF r.pos = i THEN reheapdown(r.hp, i) ELSE r.hp
    IN  IF i >= hp.fill THEN [hp |-> hp, e |-> NoElem]
        ELSE [hp |-> u, e |-> u.elem[last]]

--------------------------------------------------------------------------

(* no element is smaller than the one above it *)
HeapSound(hp) ==
    /\ hp.fill <= hp.size
    /\ \A i \in 1..hp.fill-1 : ~exceeds(hp.elem[(i - 1) \div 2], hp.elem[i])

elements(hp) == {hp.elem[i] : i \in 0..hp.fill-1}
=============================================================================
