------------------------------- MODULE StdMaps -------------------------------
(***************************************************************************)
(* The maps of src/stduse.c: hash table, AVL, red-black and splay tree,    *)
(* with their nodes' memory.  One map of one kind is used by one client,   *)
(* which creates it, puts, gets and deletes, replaces nodes through the    *)
(* tree's own insert function, and frees the map.  Every malloc may fail.  *)
(*   kind    which of the four maps, and how its nodes keep their keys     *)
(*   s.t     the tree or table;  s.data  the data of each node             *)
(*   s.mem   the allocations held                                          *)
(*   s.skew  an AVL node that was not balanced has been replaced: what the *)
(*           tree does from there on is left open                          *)
(*   want    what the client has put under each key (it is only compared)  *)
(***************************************************************************)
EXTENDS Avl, RbTree, FiniteSets

CONSTANTS Kinds,    \* records [map, key]: map is "avl", "rb", "splay" or "hash";
                    \* key is "skey", keys are copied, or "rkey" or "pkey"
          Keys,     \* [Kinds -> set of keys]; the node with address k has key k
          Twin,     \* node k + Twin has key k too
          Twins,    \* keys that have a second node
          Values,   \* [key -> set of positive integers]
          HashOf, Nbkts

VARIABLES kind, s, want
vars == <<kind, s, want>>

H == INSTANCE Hash

Tab == <<"table", 0>>
NoData == 0         \* NULL

Key == Keys[kind]

--------------------------------------------------------------------------
(* Nodes and their memory.  fail is the number of the malloc that fails.   *)

pieces(n) == (IF kind.key = "skey" THEN {<<"key", n>>} ELSE {}) \cup {<<"node", n>>}

(* Fault: without memory for the node the copied key is kept *)
AllocKeepsKey(mem, n, fail) ==
    LET first == IF kind.key = "skey" THEN mem \cup {<<"key", n>>} ELSE mem
    IN  IF fail = 0 THEN [ok |-> TRUE, mem |-> first \cup {<<"node", n>>}]
        ELSE [ok |-> FALSE, mem |-> IF fail = 1 THEN mem ELSE first]

cht_node_alloc(mem, n, fail) ==
    LET first == IF kind.key = "skey" THEN mem \cup {<<"key", n>>} ELSE mem
    IN  IF fail = 0 THEN [ok |-> TRUE, mem |-> first \cup {<<"node", n>>}]
        ELSE IF fail = 1 THEN [ok |-> FALSE, mem |-> mem]
        ELSE [ok |-> FALSE, mem |-> first \ {<<"key", n>>}]

cht_node_free(mem, n) == mem \ pieces(n)

cavl_node_alloc(mem, n, fail) == cht_node_alloc(mem, n, fail)
crb_node_alloc(mem, n, fail)  == cht_node_alloc(mem, n, fail)
cst_node_alloc(mem, n, fail)  == cht_node_alloc(mem, n, fail)

Fails == IF kind.key = "skey" THEN 0..2 ELSE 0..1

--------------------------------------------------------------------------
(* Each map's operations on the client's record.  put answers 1 for a key  *)
(* that was there, 0 for a new one, -1 without memory.                     *)

new(init) == [t |-> init, data |-> [n \in Node |-> NoData],
              mem |-> {Tab}, skew |-> FALSE]

cht_new  == new(H!ht_init)
cavl_new == new(avl_init)
crb_new  == new(rb_init)
cst_new  == new(st_init)

datum(m, n) == IF n = Nil THEN NoData ELSE m.data[n]

(* a lookup leaves the record changed in m and the node in n *)
found(m, at) == [m |-> m, n |-> IF at.dir = None THEN at.n ELSE Nil]

cht_get(m, k)  == [m |-> m, n |-> H!ht_lkup(m.t, k).n]
cavl_get(m, k) == found(m, avl_lkup(m.t, k))
crb_get(m, k)  == found(m, rb_lkup(m.t, k))
cst_get(m, k)  == LET r == st_lkup(m.t, k)
                  IN  [m |-> [m EXCEPT !.t = r.t], n |-> r.n]

overwrite(m, n, v) == [m |-> [m EXCEPT !.data[n] = v], res |-> 1]

added(m, got, t, n, v) ==
    IF got.ok THEN [m |-> [m EXCEPT !.t = t, !.mem = got.mem, !.data[n] = v], res |-> 0]
    ELSE [m |-> [m EXCEPT !.mem = got.mem], res |-> -1]

cht_put(m, k, v, fail) ==
    LET r == H!ht_lkup(m.t, k)
    IN  IF r.n # Nil THEN overwrite(m, r.n, v)
        ELSE added(m, cht_node_alloc(m.mem, k, fail),
                   H!ht_ins(H!ht_ninit(m.t, k), k, r.h), k, v)

cavl_put(m, k, v, fail) ==
    LET at == avl_lkup(m.t, k)
    IN  IF at.dir = None THEN overwrite(m, at.n, v)
        ELSE added(m, cavl_node_alloc(m.mem, k, fail),
                   avl_ins(avl_ninit(m.t, k), k, at), k, v)

crb_put(m, k, v, fail) ==
    LET at == rb_lkup(m.t, k)
    IN  IF at.dir = None THEN overwrite(m, at.n, v)
        ELSE added(m, crb_node_alloc(m.mem, k, fail),
                   rb_ins(rb_ninit(m.t, k), k, at), k, v)

cst_put(m, k, v, fail) ==
    LET r == cst_get(m, k)
    IN  IF r.n # Nil THEN overwrite(r.m, r.n, v)
        ELSE added(r.m, cst_node_alloc(m.mem, k, fail),
                   st_ins(st_ninit(r.m.t, k), k), k, v)

(* node n leaves the map and is freed *)
dropped(m, t, n) ==
    [m EXCEPT !.t = t, !.data[n] = NoData, !.mem = cht_node_free(m.mem, n)]

deleted(r, t) == IF r.n = Nil THEN r.m ELSE dropped(r.m, t, r.n)

cht_del(m, k)  == LET r == cht_get(m, k)  IN deleted(r, H!ht_rem(r.m.t, r.n))
cavl_del(m, k) == LET r == cavl_get(m, k) IN deleted(r, avl_rem(r.m.t, r.n))
crb_del(m, k)  == LET r == crb_get(m, k)  IN deleted(r, rb_rem(r.m.t, r.n))
cst_del(m, k)  == LET r == cst_get(m, k)  IN deleted(r, st_rem(r.m.t, r.n))

(* freeing empties the table bucket by bucket, a tree from its root *)
RECURSIVE cht_free(_)
cht_free(m) ==
    LET all == H!ht_apply(m.t)
    IN  IF all = <<>> THEN [m EXCEPT !.mem = @ \ {Tab}]
        ELSE cht_free(dropped(m, H!ht_rem(m.t, Head(all)), Head(all)))

RECURSIVE cavl_free(_)
cavl_free(m) ==
    LET n == getroot(m.t)
    IN  IF n = Nil THEN [m EXCEPT !.mem = @ \ {Tab}]
        ELSE cavl_free(dropped(m, avl_rem(m.t, n), n))

RECURSIVE crb_free(_)
crb_free(m) ==
    LET n == getroot(m.t)
    IN  IF n = Nil THEN [m EXCEPT !.mem = @ \ {Tab}]
        ELSE crb_free(dropped(m, rb_rem(m.t, n), n))

RECURSIVE cst_free(_)
cst_free(m) ==
    LET n == getroot(m.t)
    IN  IF n = Nil THEN [m EXCEPT !.mem = @ \ {Tab}]
        ELSE cst_free(dropped(m, st_rem(m.t, n), n))

(* the nodes in the order the apply functions call back *)
cht_apply(m)  == H!ht_apply(m.t)
cavl_apply(m) == avl_apply(m.t)
crb_apply(m)  == rb_apply(m.t)
cst_apply(m)  == st_apply(m.t)

--------------------------------------------------------------------------
(* The operation of this kind *)

Pick(avl, rb, splay, hash) ==
    CASE kind.map = "avl" -> avl [] kind.map = "rb" -> rb
      [] kind.map = "splay" -> splay [] kind.map = "hash" -> hash

Fresh     == Pick(cavl_new, crb_new, cst_new, cht_new)
Got(m, k) == Pick(cavl_get(m, k), crb_get(m, k), cst_get(m, k), cht_get(m, k))
Visited(m) == Pick(cavl_apply(m), crb_apply(m), cst_apply(m), cht_apply(m))

Gone == [t |-> <<>>, data |-> <<>>, mem |-> {}, skew |-> FALSE]

Live == Tab \in s.mem /\ ~s.skew

Nothing == [k \in Key |-> NoData]

Init == /\ kind \in Kinds
        /\ s = Gone
        /\ want = Nothing

New == /\ Tab \notin s.mem
       /\ s' = Fresh        \* a malloc that fails leaves no map: no step
       /\ UNCHANGED <<kind, want>>

Put == /\ Live
       /\ \E k \in Key : \E v \in Values[k], fail \in Fails :
            LET r == Pick(cavl_put(s, k, v, fail), crb_put(s, k, v, fail),
                          cst_put(s, k, v, fail), cht_put(s, k, v, fail))
            IN  /\ s' = r.m
                /\ want' = IF r.res = -1 THEN want ELSE [want EXCEPT ![k] = v]
       /\ UNCHANGED kind

Get == /\ Live
       /\ \E k \in Key : s' = Got(s, k).m
       /\ UNCHANGED <<kind, want>>

Del == /\ Live
       /\ \E k \in Key :
            /\ s' = Pick(cavl_del(s, k), crb_del(s, k), cst_del(s, k), cht_del(s, k))
            /\ want' = [want EXCEPT ![k] = NoData]
       /\ UNCHANGED kind

(* a client of the tree itself inserts its second node with a key that is  *)
(* there, and frees the one that comes back                                *)
Swap == /\ Live /\ kind.map # "hash"
        /\ \E k \in Twins \cap Key : \E v \in Values[k] :
             LET r   == Got(s, k)
                 old == r.n
                 n   == IF old = k THEN k + Twin ELSE k
                 at  == findloc(s.t, k)
                 t   == Pick(avl_ins(avl_ninit(s.t, n), n, at),
                             rb_ins(rb_ninit(s.t, n), n, at),
                             st_ins(st_ninit(s.t, n), n), s.t)
                 m   == dropped(s, t, old)
             IN  /\ old # Nil
                 /\ s' = [m EXCEPT !.data[n] = v,
                                   !.mem = cht_node_alloc(@, n, 0).mem,
                                   !.skew = kind.map = "avl" /\ s.t.b[old] # 0]
                 /\ want' = [want EXCEPT ![k] = v]
        /\ UNCHANGED kind

Free == /\ Live
        /\ s' = [Gone EXCEPT !.mem =
                   Pick(cavl_free(s), crb_free(s), cst_free(s), cht_free(s)).mem]
        /\ want' = Nothing
        /\ UNCHANGED kind

Next == New \/ Put \/ Get \/ Del \/ Swap \/ Free

Spec == Init /\ [][Next]_vars

--------------------------------------------------------------------------

(* The shape each structure relies on: links up and down agree, keys are   *)
(* in order, an AVL node's balance is its subtrees' difference and at most *)
(* one, red-black trees have equally many black nodes on every way down    *)
(* and no two red ones in a row, hash nodes hang where their key says and  *)
(* are pointed back at.                                                    *)
MapSound ==
    Live => CASE kind.map = "avl" -> AvlSound(s.t)
              [] kind.map = "rb" -> RbSound(s.t)
              [] kind.map = "splay" -> SplaySound(s.t)
              [] kind.map = "hash" -> H!HashSound(s.t)

(* Every key's data is what the client put there last, the walk calls back *)
(* once for every node, and the smallest and largest node are.             *)
MapFaithful ==
    LET seen == Visited(s)
        have == {k \in Key : want[k] # NoData}
        ends == {KeyOf[avl_getmin(s.t)], KeyOf[avl_getmax(s.t)]}
    IN  Live =>
        /\ \A k \in Key : datum(Got(s, k).m, Got(s, k).n) = want[k]
        /\ {KeyOf[seen[i]] : i \in DOMAIN seen} = have
        /\ Len(seen) = Cardinality(have)
        /\ kind.map # "hash" /\ have # {} =>
             /\ ends \subseteq have
             /\ \A k \in have : \E a, b \in ends : a <= k /\ k <= b

(* The walk over an AVL or a red-black tree is in order of the keys.  It   *)
(* calls back for a node after all those below it.                         *)
AppliesInOrder ==
    Live /\ kind.map \in {"avl", "rb"} =>
        LET seen == Visited(s)
        IN  \A i, j \in DOMAIN seen : i < j => KeyOf[seen[i]] < KeyOf[seen[j]]

(* What is allocated is exactly the map and its nodes, whichever malloc    *)
(* failed, and after the map is freed nothing is.                          *)
MapMemory ==
    s.mem = IF Tab \notin s.mem THEN {}
            ELSE LET seen == Visited(s)
                 IN  {Tab} \cup UNION {pieces(seen[i]) : i \in DOMAIN seen}

(* A node's balance tells which of its subtrees is higher, after a         *)
(* replacing insert too.                                                   *)
BalanceTrue ==
    kind.map = "avl" /\ Tab \in s.mem => AvlSound(s.t)
=============================================================================
