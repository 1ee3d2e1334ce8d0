-------------------------------- MODULE Hash --------------------------------
(***************************************************************************)
(* Hash tables, include/cat/hash.h.  A node's prevp is the address of the  *)
(* pointer that points to it: of a bucket, or of another node's next.  So  *)
(* next has the buckets in its domain beside the nodes, and prevp holds    *)
(* either.  h & po2mask and h % nbkts are the same number where both are   *)
(* used.                                                                   *)
(***************************************************************************)
EXTENDS Integers, Sequences

CONSTANTS Node,     \* positive integers, the nodes' addresses
          KeyOf,    \* [Node -> key]
          HashOf,   \* [key -> Nat]: what t->hash answers
          Nbkts     \* the number of buckets

Nil == -1       \* NULL

bkt(i) == -2 - i

Buckets == {bkt(i) : i \in 0..Nbkts-1}

ht_init == [next  |-> [c \in Node \cup Buckets |-> Nil],
            prevp |-> [n \in Node |-> Nil]]

ht_ninit(t, n) == [t EXCEPT !.next[n] = Nil, !.prevp[n] = Nil]

bucket(h) == bkt(h % Nbkts)

(* the nodes from a cell on, in order *)
RECURSIVE chain(_, _)
chain(t, c) == IF t.next[c] = Nil THEN <<>>
               ELSE <<t.next[c]>> \o chain(t, t.next[c])

(* the first node of the bucket with the key, or Nil, and the key's hash *)
ht_lkup(t, key) ==
    LET h    == HashOf[key]
        same == SelectSeq(chain(t, bucket(h)), LAMBDA n : KeyOf[n] = key)
    IN  [n |-> IF same = <<>> THEN Nil ELSE Head(same), h |-> h]

(* Fault: the node that was first keeps its prevp *)
InsKeepsPrevp(t, n, h) ==
    LET c == bucket(h)
    IN  [t EXCEPT !.prevp[n] = c, !.next[n] = t.next[c], !.next[c] = n]

ht_ins(t, n, h) ==
    LET c   == bucket(h)
        old == t.next[c]
        u   == IF old = Nil THEN t ELSE [t EXCEPT !.prevp[old] = n]
    IN  [u EXCEPT !.prevp[n] = c, !.next[n] = old, !.next[c] = n]

ht_ins_h(t, n) == ht_ins(t, n, HashOf[KeyOf[n]])

ht_rem(t, n) ==
    LET c    == t.prevp[n]
        succ == t.next[n]
        u    == IF succ = Nil THEN t ELSE [t EXCEPT !.prevp[succ] = c]
    IN  ht_ninit(IF c = Nil THEN t ELSE [u EXCEPT !.next[c] = succ], n)

RECURSIVE chains(_, _)
chains(t, i) == IF i = Nbkts THEN <<>> ELSE chain(t, bkt(i)) \o chains(t, i + 1)

ht_apply(t) == chains(t, 0)

(* each pointer's target points back, and each node hangs where its key says *)
HashSound(t) ==
    /\ \A c \in DOMAIN t.next : t.next[c] # Nil => t.prevp[t.next[c]] = c
    /\ \A i \in 0..Nbkts-1 : LET s == chain(t, bkt(i)) IN
           \A j \in DOMAIN s : bucket(HashOf[KeyOf[s[j]]]) = bkt(i)
=============================================================================
