-------------------------------- MODULE Avl --------------------------------
(***************************************************************************)
(* AVL trees, include/cat/avl.h.  b[n] is the height of n's right subtree  *)
(* minus that of its left one; dir - 1 in the code is -1 for the left side *)
(* and 1 for the right.  Left and right forms of an operation are one      *)
(* operator with the side as a parameter.                                  *)
(***************************************************************************)
EXTENDS PTree

avl_init ==
    [p    |-> [n \in Node \cup {Root} |-> NoLinks],
     pdir |-> [n \in Node \cup {Root} |-> DirP],
     b    |-> [n \in Node \cup {Root} |-> 0],
     tree |-> [n \in Node \cup {Root} |-> FALSE]]

avl_ninit(t, n) ==
    [t EXCEPT !.p[n] = NoLinks, !.pdir[n] = DirP, !.b[n] = 0]

avl_fix(t, par, c, dir) == fix(t, par, c, dir)

avl_findloc(t, key) == findloc(t, key)

avl_lkup(t, key) == avl_findloc(t, key)

(* avl_rleft and avl_rright: n2 rises over n1, which goes down to dir *)
avl_rotate(t, n1, n2, dir, ins) ==
    LET s == Flip(dir) - 1
        u == rotate(t, n1, dir)
    IN  IF ins \/ t.b[n2] * s > 0
        THEN [u EXCEPT !.b[n1] = 0, !.b[n2] = 0]
        ELSE [u EXCEPT !.b[n1] = s, !.b[n2] = -s]

(* avl_zleft and avl_zright: n3 rises over n2 and n1 *)
avl_zig(t, n1, n2, n3, dir) ==
    LET s == Flip(dir) - 1
        u == fix(t, n2, t.p[n3][Flip(dir)], dir)
        v == fix(u, n1, u.p[n3][dir], Flip(dir))
        w == fix(v, v.p[n1][DirP], n3, v.pdir[n1])
    IN  [fix(fix(w, n3, n1, dir), n3, n2, Flip(dir)) EXCEPT
            !.b[n1] = IF t.b[n3] = s THEN -s ELSE 0,
            !.b[n2] = IF t.b[n3] = -s THEN s ELSE 0,
            !.b[n3] = 0]

(* a subtree has grown below n: balances change up to the first node that *)
(* becomes balanced or is rotated                                         *)
RECURSIVE grown(_, _)
grown(t, n) ==
    LET dir == t.pdir[n]
        par == t.p[n][DirP]
        s   == dir - 1
        u   == [t EXCEPT !.b[par] = @ + s]
        tmp == t.p[par][dir]
    IN  IF dir = DirP THEN t
        ELSE IF u.b[par] = 0 THEN u
        ELSE IF u.b[par] \in {-1, 1} THEN grown(u, par)
        ELSE IF u.b[tmp] * s > 0 THEN avl_rotate(u, par, tmp, Flip(dir), TRUE)
        ELSE avl_zig(u, par, tmp, u.p[tmp][Flip(dir)], Flip(dir))

avl_ins_at(t, n, par, dir) == grown(avl_fix(t, par, n, dir), n)

(* a node of this key already there is replaced and comes back to the     *)
(* client; n keeps the balance it has, which is avl_ninit's 0             *)
avl_ins(t, n, at) ==
    IF at.dir = None
    THEN [avl_ninit(supplant(t, n, at.n), at.n)
            EXCEPT !.tree[n] = TRUE, !.tree[at.n] = FALSE]
    ELSE [avl_ins_at(t, n, at.n, at.dir) EXCEPT !.tree[n] = TRUE]

(* Fault: the walk up ends with the first rotation *)
RECURSIVE ShrunkOnce(_, _, _)
ShrunkOnce(t, n, dir) ==
    LET s   == 1 - dir
        u   == [t EXCEPT !.b[n] = @ + s]
        tmp == t.p[n][Flip(dir)]
    IN  IF dir = DirP THEN t
        ELSE IF u.b[n] \in {-1, 1} THEN u
        ELSE IF u.b[n] = 0 THEN ShrunkOnce(u, u.p[n][DirP], u.pdir[n])
        ELSE IF u.b[tmp] * s >= 0 THEN avl_rotate(u, n, tmp, dir, FALSE)
        ELSE avl_zig(u, n, tmp, u.p[tmp][dir], dir)

(* n's subtree on the side dir has shrunk *)
RECURSIVE shrunk(_, _, _)
shrunk(t, n, dir) ==
    LET s   == 1 - dir      \* the side that is now the higher
        u   == [t EXCEPT !.b[n] = @ + s]
        tmp == t.p[n][Flip(dir)]
        in  == u.p[tmp][dir]
        v   == IF u.b[n] = 0 THEN u
               ELSE IF u.b[tmp] * s >= 0 THEN avl_rotate(u, n, tmp, dir, FALSE)
               ELSE avl_zig(u, n, tmp, in, dir)
        top == IF u.b[n] = 0 THEN n ELSE IF u.b[tmp] * s >= 0 THEN tmp ELSE in
    IN  IF dir = DirP THEN t
        ELSE IF u.b[n] \in {-1, 1} THEN u
        ELSE IF v.b[top] # 0 THEN v
        ELSE shrunk(v, v.p[top][DirP], v.pdir[top])

avl_rem(t, n) ==
    LET rep   == findrep(t, n)
        par   == t.p[n][DirP]
        dir   == t.pdir[n]
        deep  == rep # Nil /\ rep \notin {t.p[n][DirL], t.p[n][DirR]}
        \* a replacement from further down leaves its own place first
        u     == IF deep
                 THEN LET a == fix(t, t.p[rep][DirP], t.p[rep][DirL], t.pdir[rep])
                          c == fix(fix(a, rep, a.p[n][DirL], DirL),
                                   rep, a.p[n][DirR], DirR)
                      IN  [fix(c, par, rep, dir) EXCEPT !.b[rep] = t.b[n]]
                 ELSE IF rep # Nil /\ t.p[n][DirL] = rep
                 THEN [fix(fix(t, par, rep, dir), rep, t.p[n][DirR], DirR)
                         EXCEPT !.b[rep] = t.b[n]]
                 ELSE fix(t, par, rep, dir)
        v     == [avl_ninit(u, n) EXCEPT !.tree[n] = FALSE]
    IN  IF ~t.tree[n] THEN t
        ELSE IF deep THEN shrunk(v, t.p[rep][DirP], t.pdir[rep])
        ELSE IF rep # Nil /\ t.p[n][DirL] = rep THEN shrunk(v, rep, DirL)
        ELSE shrunk(v, par, dir)

avl_getmin(t) == extreme(t, DirL)
avl_getmax(t) == extreme(t, DirR)

avl_apply(t) == apply(t)

RECURSIVE height(_, _)
height(t, n) ==
    LET l == height(t, t.p[n][DirL])  r == height(t, t.p[n][DirR])
    IN  IF n = Nil THEN 0 ELSE 1 + (IF l > r THEN l ELSE r)

AvlSound(t) ==
    /\ Linked(t)
    /\ \A n \in Members(t) :
        /\ t.tree[n]
        /\ t.b[n] \in -1..1
        /\ t.b[n] = height(t, t.p[n][DirR]) - height(t, t.p[n][DirL])
============================================================================
