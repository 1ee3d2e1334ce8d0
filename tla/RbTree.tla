------------------------------- MODULE RbTree -------------------------------
(***************************************************************************)
(* Red-black trees, include/cat/rbtree.h.  The mirror halves of the two    *)
(* repair loops are one operator with the side as a parameter.             *)
(***************************************************************************)
EXTENDS PTree

rb_init ==
    [p    |-> [n \in Node \cup {Root} |-> NoLinks],
     pdir |-> [n \in Node \cup {Root} |-> IF n = Root THEN DirP ELSE DirL],
     red  |-> [n \in Node \cup {Root} |-> TRUE],
     tree |-> [n \in Node \cup {Root} |-> FALSE]]

rb_ninit(t, n) ==
    [t EXCEPT !.p[n] = NoLinks, !.pdir[n] = DirL, !.red[n] = TRUE]

rb_fix(t, par, c, dir) == fix(t, par, c, dir)

(* rb_rleft and rb_rright *)
rb_rotate(t, n, dir) == rotate(t, n, dir)

rb_findloc(t, key) == findloc(t, key)

rb_lkup(t, key) == rb_findloc(t, key)

Red(t, n) == n # Nil /\ t.red[n]        \* COL(n) == CRB_RED

Paint(t, n, isred) == [t EXCEPT !.red[n] = isred]

(* n is red: while its parent is red too, blacken the parent and its      *)
(* brother and go on two levels up, or rotate                             *)
RECURSIVE redden(_, _)
redden(t, n) ==
    LET par  == t.p[n][DirP]
        gp   == t.p[par][DirP]
        side == t.pdir[par]
        unc  == t.p[gp][Flip(side)]
        bent == t.pdir[n] = Flip(side)
        u    == IF bent THEN rb_rotate(t, par, side) ELSE t
        mid  == IF bent THEN n ELSE par
    IN  IF n = getroot(t) \/ ~t.red[par] THEN t
        ELSE IF Red(t, unc)
        THEN redden(Paint(Paint(Paint(t, par, FALSE), unc, FALSE), gp, TRUE), gp)
        ELSE redden(rb_rotate(Paint(Paint(u, mid, FALSE), gp, TRUE),
                              gp, Flip(side)),
                    IF bent THEN par ELSE n)

rb_ins_at(t, n, par, dir) ==
    LET u == redden(rb_fix(Paint(t, n, TRUE), par, n, dir), n)
    IN  Paint(u, getroot(u), FALSE)

(* a node of this key already there is replaced and comes back to the client *)
rb_ins(t, n, at) ==
    IF at.dir = None
    THEN [rb_ninit(supplant(t, n, at.n), at.n)
            EXCEPT !.red[n] = t.red[at.n], !.tree[n] = TRUE, !.tree[at.n] = FALSE]
    ELSE [rb_ins_at(t, n, at.n, at.dir) EXCEPT !.tree[n] = TRUE]

rb_findrep(t, n) == findrep(t, n)

(* the paths through par's link dir lack a black node *)
RECURSIVE lacking(_, _, _)
lacking(t, par, dir) ==
    LET far_  == Flip(dir)
        sib   == t.p[par][far_]
        \* a red brother is rotated away first
        u     == IF t.red[sib]
                 THEN rb_rotate(Paint(Paint(t, sib, FALSE), par, TRUE), par, dir)
                 ELSE t
        tmp   == u.p[par][far_]
        near  == u.p[tmp][dir]
        v     == IF ~Red(u, u.p[tmp][far_])
                 THEN rb_rotate(Paint(Paint(u, near, FALSE), tmp, TRUE), tmp, far_)
                 ELSE u
        top   == v.p[par][far_]
        w     == Paint(Paint(Paint(v, top, v.red[par]), par, FALSE),
                       v.p[top][far_], FALSE)
        done  == rb_rotate(w, par, dir)
        blacken(z, n) == IF n = Nil THEN z ELSE Paint(z, n, FALSE)
    IN  IF dir = DirP \/ Red(t, t.p[par][dir]) THEN blacken(t, t.p[par][dir])
        ELSE IF ~Red(u, near) /\ ~Red(u, u.p[tmp][far_])
        THEN lacking(Paint(u, tmp, TRUE), u.p[par][DirP], u.pdir[par])
        ELSE blacken(done, getroot(done))

(* unlike avl_rem it neither asks nor clears which tree n is in *)
rb_rem(t, n) ==
    LET tmp  == rb_findrep(t, n)
        par  == t.p[n][DirP]
        dir  == t.pdir[n]
        left == tmp = t.p[n][DirL]
        kid  == left \/ tmp = t.p[n][DirR]
        lift(u) == [rb_fix(u, par, tmp, dir) EXCEPT !.red[tmp] = t.red[n]]
        at   == IF tmp = Nil THEN [n |-> par, dir |-> dir]
                ELSE IF kid
                THEN [n |-> tmp, dir |-> IF left THEN DirL ELSE DirR]
                ELSE [n |-> t.p[tmp][DirP], dir |-> t.pdir[tmp]]
        u    == IF tmp = Nil THEN rb_fix(t, par, Nil, dir)
                ELSE IF kid
                THEN lift(IF left THEN rb_fix(t, tmp, t.p[n][DirR], DirR) ELSE t)
                ELSE LET a == rb_fix(t, at.n, t.p[tmp][DirL], at.dir)
                     IN  lift(rb_fix(rb_fix(a, tmp, a.p[n][DirL], DirL),
                                     tmp, a.p[n][DirR], DirR))
        v    == rb_ninit(u, n)
    IN  IF t.red[IF tmp = Nil THEN n ELSE tmp] THEN v
        ELSE lacking(v, at.n, at.dir)

rb_getmin(t) == extreme(t, DirL)
rb_getmax(t) == extreme(t, DirR)

rb_apply(t) == apply(t)

(* black nodes from n down to a leaf, the same on every way; else -1 *)
RECURSIVE blacks(_, _)
blacks(t, n) ==
    LET l == blacks(t, t.p[n][DirL])  r == blacks(t, t.p[n][DirR])
    IN  IF n = Nil THEN 0
        ELSE IF l # r \/ l = -1 THEN -1
        ELSE l + (IF t.red[n] THEN 0 ELSE 1)

RbSound(t) ==
    /\ Linked(t)
    /\ ~Red(t, getroot(t))
    /\ blacks(t, getroot(t)) # -1
    /\ \A n \in Members(t) : t.red[n] /\ t.p[n][DirP] # Root
                               => ~t.red[t.p[n][DirP]]
============================================================================
