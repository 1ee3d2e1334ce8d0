-------------------------------- MODULE Ring --------------------------------
(***************************************************************************)
(* The ring buffer of src/ring.c, as netpipe uses it: the client moves the *)
(* bytes in and out of the data itself and tells the ring how many.  data  *)
(* has the indices 0 .. alloc - 1, as in C.                                *)
(***************************************************************************)
EXTENDS Integers

least(a, b) == IF a <= b THEN a ELSE b

ring_init(l) == [alloc |-> l, data |-> [i \in 0 .. (l - 1) |-> 0], start |-> 0, len |-> 0]

ring_avail(r) == r.alloc - r.len

\* The index behind the last byte.
ring_last(r) ==
  LET toend == r.alloc - r.start
  IN  IF r.len < toend THEN r.start + r.len ELSE r.len - toend

\* ring_put without bytes: n of the bytes behind the last are in.
ring_put(r, n) == [r EXCEPT !.len = @ + least(n, ring_avail(r))]

\* ring_get without bytes: the first n are out.  An empty ring starts over.
ring_get(r, n) ==
  LET len   == least(n, r.len)
      toend == r.alloc - r.start
      past  == IF toend < len THEN len - toend
               ELSE IF toend = len THEN 0 ELSE r.start + len
  IN  [r EXCEPT !.len = @ - len, !.start = IF r.len = len THEN 0 ELSE past]

\* The index of the k-th byte, from 0.
index(r, k) == IF r.start + k < r.alloc THEN r.start + k ELSE r.start + k - r.alloc
=============================================================================
