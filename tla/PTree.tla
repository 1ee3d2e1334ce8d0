------------------------------- MODULE PTree -------------------------------
(***************************************************************************)
(* What the three trees of include/cat (avl.h, rbtree.h, splay.h) share.   *)
(* A node has three links p[L], p[P], p[R] and pdir, which of its parent's *)
(* links points to it.  The tree's own root node (Root) is the parent of   *)
(* the topmost node, which hangs on its link P; so links up and links down *)
(* are told apart by direction only.  A tree is a record                   *)
(*   [p |-> [node -> [dir -> node]], pdir |-> [node -> dir], ...]          *)
(* to which each kind of tree adds its own fields.  Node is every node the *)
(* client has, in the tree or not.                                         *)
(***************************************************************************)
EXTENDS Integers, Sequences

CONSTANTS Node,     \* positive integers, the nodes' addresses
          KeyOf     \* [Node -> Int], a node's key

Root == 0       \* &t->root
Nil  == -1      \* NULL

DirL == 0  DirP == 1  DirR == 2
None == 3       \* CA_N: the node itself

Flip(d) == 2 - d

NoLinks == [d \in {DirL, DirP, DirR} |-> Nil]

(* par->p[dir] = c, and c, if any, learns its parent *)
fix(t, par, c, dir) ==
    LET u == [t EXCEPT !.p[par][dir] = c]
    IN  IF c = Nil THEN u ELSE [u EXCEPT !.p[c][DirP] = par, !.pdir[c] = dir]

(* n's child on the side away from dir takes n's place, n goes down to dir *)
rotate(t, n, dir) ==
    LET c == t.p[n][Flip(dir)]
        u == fix(t, n, t.p[c][dir], Flip(dir))
    IN  fix(fix(u, u.p[n][DirP], c, u.pdir[n]), c, n, dir)

(* the node with this key and None, or where a node with it would hang *)
RECURSIVE search(_, _, _, _)
search(t, key, par, dir) ==
    LET n == t.p[par][dir]
    IN  IF n = Nil THEN [n |-> par, dir |-> dir]
        ELSE IF key = KeyOf[n] THEN [n |-> n, dir |-> None]
        ELSE search(t, key, n, IF key < KeyOf[n] THEN DirL ELSE DirR)

findloc(t, key) == search(t, key, Root, DirP)

(* the last node when only links dir are followed from n *)
RECURSIVE far(_, _, _)
far(t, n, dir) == IF t.p[n][dir] = Nil THEN n ELSE far(t, t.p[n][dir], dir)

getroot(t) == t.p[Root][DirP]

extreme(t, dir) == IF getroot(t) = Nil THEN Nil ELSE far(t, getroot(t), dir)

(* the order in which the apply functions call back, which come to n from  *)
(* its parent (DirP), its left or its right                                *)
RECURSIVE visits(_, _, _)
visits(t, n, from) ==
    LET ahead == {d \in {DirL, DirR} : /\ t.p[n][d] # Nil
                                       /\ \/ from = DirP
                                          \/ from = DirL /\ d = DirR}
    IN  IF n = Root THEN <<>>
        ELSE IF ahead = {} THEN <<n>> \o visits(t, t.p[n][DirP], t.pdir[n])
        ELSE visits(t, t.p[n][IF DirL \in ahead THEN DirL ELSE DirR], DirP)

apply(t) == IF getroot(t) = Nil THEN <<>> ELSE visits(t, getroot(t), DirP)

(* the node that takes n's place when n leaves *)
findrep(t, n) == IF t.p[n][DirL] = Nil THEN t.p[n][DirR]
                 ELSE far(t, t.p[n][DirL], DirR)

(* n, which is in no tree any more, takes over p's children and p's place *)
supplant(t, n, p) ==
    LET u == fix(fix(t, n, t.p[p][DirL], DirL), n, t.p[p][DirR], DirR)
    IN  fix(u, u.p[p][DirP], n, u.pdir[p])

--------------------------------------------------------------------------
(* Of a sound tree *)

RECURSIVE below(_, _)
below(t, n) == IF n = Nil THEN {}
               ELSE {n} \cup below(t, t.p[n][DirL]) \cup below(t, t.p[n][DirR])

Members(t) == below(t, getroot(t))

(* links up and down agree, and the keys are in order *)
Linked(t) ==
    \A n \in Members(t) :
        /\ t.p[t.p[n][DirP]][t.pdir[n]] = n
        /\ (t.pdir[n] = DirP) <=> (t.p[n][DirP] = Root)
        /\ \A m \in below(t, t.p[n][DirL]) : KeyOf[m] < KeyOf[n]
        /\ \A m \in below(t, t.p[n][DirR]) : KeyOf[m] > KeyOf[n]

--------------------------------------------------------------------------
(* Splay trees, splay.h, need no more than this.  A lookup reshapes the    *)
(* tree, a failed one too.                                                 *)

st_init ==
    [p    |-> [n \in Node \cup {Root} |-> NoLinks],
     pdir |-> [n \in Node \cup {Root} |-> IF n = Root THEN DirP ELSE None]]

st_ninit(t, n) == [t EXCEPT !.p[n] = NoLinks, !.pdir[n] = None]

st_fix(t, par, c, dir) == fix(t, par, c, dir)

st_findloc(t, key) == findloc(t, key)

(* st_rl and st_rr *)
st_rotate(t, n, dir) == rotate(t, n, dir)

(* st_zll, st_zlr, st_zrl, st_zrr: n rises over its parent and grandparent *)
st_zig(t, n) ==
    LET d  == t.pdir[n]
        p  == t.p[n][DirP]
        e  == t.pdir[p]
        gp == t.p[p][DirP]
        q  == IF d = e THEN p ELSE n    \* who gets gp as a child
        u  == fix(t, gp, t.p[q][Flip(e)], e)
        v  == fix(u, p, u.p[n][Flip(d)], d)
        w  == fix(v, v.p[gp][DirP], n, v.pdir[gp])
    IN  fix(fix(w, n, p, Flip(d)), q, gp, Flip(e))

RECURSIVE st_splay(_, _)
st_splay(t, n) ==
    IF t.pdir[n] = DirP THEN t
    ELSE IF t.pdir[t.p[n][DirP]] = DirP
    THEN st_splay(st_rotate(t, t.p[n][DirP], Flip(t.pdir[n])), n)
    ELSE st_splay(st_zig(t, n), n)

(* the tree afterwards and the node found, or Nil *)
st_lkup(t, key) ==
    LET at == st_findloc(t, key)
    IN  IF at.n = Root THEN [t |-> t, n |-> Nil]
        ELSE [t |-> st_splay(t, at.n),
              n |-> IF at.dir = None THEN at.n ELSE Nil]

(* a node of this key already there is replaced and comes back to the client *)
st_ins(t, n) ==
    LET at == st_findloc(t, KeyOf[n])
    IN  IF at.n = Root THEN st_fix(t, Root, n, DirP)
        ELSE IF at.dir = None
        THEN st_ninit(supplant(st_splay(t, at.n), n, at.n), at.n)
        ELSE st_splay(st_fix(t, at.n, n, at.dir), n)

st_rem(t, n) ==
    LET u   == st_splay(t, n)
        l   == u.p[n][DirL]
        r   == u.p[n][DirR]
        rep == far(u, l, DirR)
    IN  st_ninit(
            IF r = Nil THEN st_fix(u, Root, l, DirP)
            ELSE IF l = Nil THEN st_fix(u, Root, r, DirP)
            ELSE st_fix(st_splay(st_fix(u, Root, l, DirP), rep), rep, r, DirR),
            n)

st_getmin(t) == extreme(t, DirL)
st_getmax(t) == extreme(t, DirR)

st_apply(t) == apply(t)

SplaySound(t) == Linked(t)
============================================================================
