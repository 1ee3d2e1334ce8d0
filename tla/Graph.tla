------------------------------- MODULE Graph -------------------------------
(***************************************************************************)
(* Graphs of nodes and edges in memory of their own, src/graph.c.  A node  *)
(* has an array of the edges that leave it and one of those that enter it; *)
(* in a graph that is not directed (isbi) they are the same memory, with   *)
(* two descriptions of it.  A graph is a record                            *)
(*   isbi, nodes, edges   its two lists, as sets                           *)
(*   ends[e]              the edge's n1 and n2                             *)
(*   ea[n][d]             [arr, fill, len] for d = "out" and "in"          *)
(*   mem                  the allocations held                             *)
(* fail says which malloc or realloc of a call has no memory, 0 for none.  *)
(***************************************************************************)
EXTENDS Integers, FiniteSets

CONSTANTS Vertex,   \* the addresses of nodes
          Edge,     \* the addresses of edges
          InitLen   \* CAT_GRAPH_INIT_EDGE_LEN

NoEdge == -1    \* NULL

Dirs == {"out", "in"}
other(d) == IF d = "out" THEN "in" ELSE "out"

emptyarr == [arr |-> [i \in 0..InitLen-1 |-> NoEdge], fill |-> 0, len |-> InitLen]

noends == [n1 |-> NoEdge, n2 |-> NoEdge]

nomem(n) == {<<"node", n>>, <<"out", n>>, <<"in", n>>}
nodemem(g, n) == IF g.isbi THEN nomem(n) \ {<<"in", n>>} ELSE nomem(n)

gr_new(isbi) == [isbi |-> isbi, nodes |-> {}, edges |-> {},
                 ends |-> [e \in Edge |-> noends],
                 ea |-> [n \in Vertex |-> [d \in Dirs |-> emptyarr]],
                 mem |-> {<<"graph">>}]

(* the node, its array, its second array: what was had goes back when one  *)
(* of them is not had                                                      *)
gr_add_node(g, n, fail) ==
    IF fail # 0 THEN g
    ELSE [g EXCEPT !.nodes = @ \cup {n}, !.mem = @ \cup nodemem(g, n),
                   !.ea[n] = [d \in Dirs |-> emptyarr]]

(* what is freed is not described any more *)
freed(g, e) == [g EXCEPT !.mem = @ \ {<<"edge", e>>}, !.ends[e] = noends]

(* a cell of an array; not directed, both descriptions are of this memory *)
cell(g, n, d, i, e) ==
    LET u == [g EXCEPT !.ea[n][d].arr[i] = e]
    IN  IF g.isbi THEN [u EXCEPT !.ea[n][other(d)].arr[i] = e] ELSE u

longer(a) == [a EXCEPT !.len = 2 * a.len,
                       !.arr = [i \in 0..2*a.len-1 |-> IF i < a.len THEN a.arr[i] ELSE NoEdge]]

(* into the first cell that is free, or behind the others *)
add_edge_help(g, n, d, e, got) ==
    LET a    == g.ea[n][d]
        free == {i \in 0..a.fill-1 : a.arr[i] = NoEdge}
        b    == IF a.fill = a.len THEN longer(a) ELSE a
        c    == [b EXCEPT !.arr[a.fill] = e, !.fill = @ + 1]
        u    == [g EXCEPT !.ea[n][d] = c]
    IN  IF free # {}
        THEN [ok |-> TRUE, g |-> cell(g, n, d, CHOOSE i \in free : \A j \in free : i <= j, e)]
        ELSE IF a.fill = a.len /\ ~got THEN [ok |-> FALSE, g |-> g]
        ELSE [ok |-> TRUE, g |-> IF g.isbi THEN [u EXCEPT !.ea[n][other(d)] = c] ELSE u]

(* the cells at the end of the array that are free again are given up *)
RECURSIVE trimmed(_)
trimmed(a) == IF a.fill > 0 /\ a.arr[a.fill - 1] = NoEdge
              THEN trimmed([a EXCEPT !.fill = @ - 1]) ELSE a

(* Fault: the other description of the array keeps its fill *)
TrimsOne(g, e, n, d) ==
    LET at == {i \in 0..g.ea[n][d].fill-1 : g.ea[n][d].arr[i] = e}
        u  == cell(g, n, d, CHOOSE i \in at : \A j \in at : i <= j, NoEdge)
    IN  [u EXCEPT !.edges = @ \ {e}, !.ea[n][d] = trimmed(@)]

del_edge_help(g, e, n, d) ==
    LET a  == g.ea[n][d]
        at == {i \in 0..a.fill-1 : a.arr[i] = e}
        i  == CHOOSE i \in at : \A j \in at : i <= j
        u  == cell(g, n, d, i, NoEdge)
        v  == [u EXCEPT !.ea[n][d] = trimmed(@)]
        w  == IF i # a.fill - 1 THEN u
              ELSE IF g.isbi THEN [v EXCEPT !.ea[n][other(d)].fill = v.ea[n][d].fill]
              ELSE v
    IN  [w EXCEPT !.edges = @ \ {e}]

(* Fault: the edge that could not be put into the second array is taken   *)
(* out of the first but not freed                                          *)
AddLeaksEdge(g, e, from, to, fail) ==
    LET u == [g EXCEPT !.edges = @ \cup {e}, !.ends[e] = [n1 |-> from, n2 |-> to],
                       !.mem = @ \cup {<<"edge", e>>}]
        r == add_edge_help(u, from, "out", e, fail # 2)
        q == add_edge_help(r.g, to, "in", e, fail # 3)
    IN  IF fail = 1 THEN g
        ELSE IF ~r.ok THEN freed(u, e)
        ELSE IF from = to /\ g.isbi THEN r.g
        ELSE IF q.ok THEN q.g ELSE del_edge_help(r.g, e, from, "out")

(* the edge that could not be put into the first array is freed while it   *)
(* is on the graph's list                                                  *)
gr_add_edge(g, e, from, to, fail) ==
    LET u == [g EXCEPT !.edges = @ \cup {e}, !.ends[e] = [n1 |-> from, n2 |-> to],
                       !.mem = @ \cup {<<"edge", e>>}]
        r == add_edge_help(u, from, "out", e, fail # 2)
        q == add_edge_help(r.g, to, "in", e, fail # 3)
    IN  IF fail = 1 THEN g
        ELSE IF ~r.ok THEN freed(u, e)
        ELSE IF from = to /\ g.isbi THEN r.g
        ELSE IF q.ok THEN q.g
        ELSE freed(del_edge_help(r.g, e, from, "out"), e)

gr_find_edge(g, from, to) ==
    LET a  == g.ea[from]["out"]
        at == {i \in 0..a.fill-1 :
                 /\ a.arr[i] # NoEdge
                 /\ \/ g.ends[a.arr[i]].n2 = to
                    \/ g.isbi /\ g.ends[a.arr[i]].n1 = to}
    IN  IF at = {} THEN NoEdge ELSE a.arr[CHOOSE i \in at : \A j \in at : i <= j]

gr_edge_dst(g, n, e) ==
    IF g.isbi /\ g.ends[e].n2 = n THEN g.ends[e].n1 ELSE g.ends[e].n2

gr_del_edge(g, e) ==
    LET n1 == g.ends[e].n1
        n2 == g.ends[e].n2
        u  == del_edge_help(g, e, n1, "out")
        v  == IF n1 # n2 \/ ~g.isbi THEN del_edge_help(u, e, n2, "in") ELSE u
    IN  freed(v, e)

(* the edges of an array from its cell i on; fill is read again each time *)
RECURSIVE stripped(_, _, _, _)
stripped(g, n, d, i) ==
    IF i >= g.ea[n][d].fill THEN g
    ELSE LET e == g.ea[n][d].arr[i]
         IN  stripped(IF e = NoEdge THEN g ELSE gr_del_edge(g, e), n, d, i + 1)

gr_del_node(g, n) ==
    LET u == stripped(g, n, "out", 0)
        v == IF g.isbi THEN u ELSE stripped(u, n, "in", 0)
    IN  [v EXCEPT !.nodes = @ \ {n}, !.mem = @ \ nodemem(g, n),
                     !.ea[n] = [d \in Dirs |-> emptyarr]]

RECURSIVE gr_free(_)
gr_free(g) == IF g.nodes = {} THEN [g EXCEPT !.mem = @ \ {<<"graph">>}]
              ELSE gr_free(gr_del_node(g, CHOOSE n \in g.nodes : TRUE))

--------------------------------------------------------------------------

(* an edge is in its nodes' arrays, once, and nothing else is; the cell at *)
(* the end of an array is used; both descriptions of one memory agree      *)
GraphSound(g) ==
    /\ \A n \in g.nodes : \A d \in Dirs :
          LET a    == g.ea[n][d]
              used == {i \in 0..a.fill-1 : a.arr[i] # NoEdge}
              mine == {e \in g.edges : \/ d = "out" /\ g.ends[e].n1 = n
                                       \/ d = "in"  /\ g.ends[e].n2 = n
                                       \/ g.isbi /\ n \in {g.ends[e].n1, g.ends[e].n2}}
          IN  /\ a.fill <= a.len
              /\ {a.arr[i] : i \in used} = mine
              /\ Cardinality(used) = Cardinality(mine)
              /\ a.fill > 0 => a.fill - 1 \in used
              /\ g.isbi => a = g.ea[n][other(d)]
    /\ \A e \in g.edges : {g.ends[e].n1, g.ends[e].n2} \subseteq g.nodes
=============================================================================
