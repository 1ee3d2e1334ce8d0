--------------------------------- MODULE Rex ---------------------------------
(***************************************************************************)
(* Regular expressions of src/match.c: rex_init builds a graph of nodes    *)
(* from a pattern, rex_match walks it with backtracking, rex_free frees    *)
(* it.  A pattern is a sequence of tokens, one per character, but that a   *)
(* number is one token.  A state of the parser is a record                 *)
(*   node   the nodes, in the order they were made; RStart and REnd first  *)
(*   group  the innermost open group, choice the last choice of it         *)
(*   gnum   groups so far;  ok  no error yet                               *)
(* and a place to hang the next node on is <<node, field>>.                *)
(* Backslashes are left out: rex_parse_str runs past the pattern's end     *)
(* wherever there is one.  So are the checks of malloc's result.           *)
(***************************************************************************)
EXTENDS Integers, Sequences, FiniteSets

CONSTANTS Letters,  \* sequence of the characters that stand for themselves
          Number,   \* [tokens -> Nat], those that are numbers
          StrMax,   \* sizeof(rs->str)
          NMatch    \* the client's nm

RStart == 1
REnd   == 2
NoRex  == 0     \* NULL
Wild   == 0     \* REX_WILDCARD, of repmax
InternalWild == 256

Chars == {Letters[i] : i \in DOMAIN Letters}

rexnode(type) == [type |-> type, min |-> 1, max |-> 1, next |-> NoRex, num |-> 0,
                  other |-> NoRex, opt1 |-> NoRex, opt2 |-> NoRex, str |-> <<>>, set |-> {}]

Failed(m) == [m EXCEPT !.ok = FALSE]

hang(m, loc, n) ==
    CASE loc[2] = "next" -> [m EXCEPT !.node[loc[1]].next = n]
      [] loc[2] = "opt2" -> [m EXCEPT !.node[loc[1]].opt2 = n]

(* a new node, hung on loc; it is the last *)
made(m, loc, x) == hang([m EXCEPT !.node = Append(@, x)], loc, Len(m.node) + 1)

tok(t, p) == IF p <= Len(t) THEN t[p] ELSE "end"

--------------------------------------------------------------------------
(* Repetitions.  [ok, min, max, p]                                         *)

(* a bound and where it ends; without one, the internal wildcard *)
parse_bound(t, p) ==
    IF tok(t, p) \notin DOMAIN Number THEN [v |-> InternalWild, p |-> p]
    ELSE IF Number[t[p]] > 255 THEN [v |-> -1, p |-> p] ELSE [v |-> Number[t[p]], p |-> p + 1]

Reps(ok, min, max, p) == [ok |-> ok, min |-> min % 256, max |-> max % 256, p |-> p]

rex_check_repitions(t, p) ==
    LET lo == parse_bound(t, p + 1)
        hi == parse_bound(t, lo.p + 1)
        min == IF lo.v = InternalWild THEN 0 ELSE lo.v
        max == IF hi.v = InternalWild THEN Wild ELSE hi.v
        bad == Reps(FALSE, 1, 1, p)
    IN  CASE tok(t, p) = "?" -> Reps(TRUE, 0, 1, p + 1)
          [] tok(t, p) = "*" -> Reps(TRUE, 0, Wild, p + 1)
          [] tok(t, p) = "+" -> Reps(TRUE, 1, Wild, p + 1)
          [] tok(t, p) = "{" ->
               IF lo.v < 0 THEN bad
               ELSE IF tok(t, lo.p) = "}" /\ lo.v >= 1 THEN Reps(TRUE, min, lo.v, lo.p + 1)
               ELSE IF tok(t, lo.p) # "," \/ hi.v < 1 THEN bad
               ELSE IF min > max /\ max # Wild THEN bad
               ELSE IF tok(t, hi.p) # "}" THEN bad
               ELSE Reps(TRUE, min, max, hi.p + 1)
          [] OTHER -> Reps(TRUE, 1, 1, p)

repeated(m, n, r) == [m EXCEPT !.node[n].min = r.min, !.node[n].max = r.max]

--------------------------------------------------------------------------
(* Parsing from token p on                                                 *)

RECURSIVE rex_parse(_, _, _, _)

(* node n, just made, takes what repeats it, and the rest follows *)
closed(m, n, t, p) ==
    LET r == rex_check_repitions(t, p)
    IN  IF r.ok THEN rex_parse(repeated(m, n, r), <<n, "next">>, t, r.p) ELSE Failed(m)

RECURSIVE span_regular(_, _, _)
span_regular(t, p, max) ==
    IF max > 0 /\ tok(t, p) \in Chars THEN 1 + span_regular(t, p + 1, max - 1) ELSE 0

(* a repetition is of the last character only, which gets its own node *)
rex_parse_str(m, loc, t, p) ==
    LET len == span_regular(t, p, StrMax)
        str == SubSeq(t, p, p + len - 1)
        u   == made(m, loc, [rexnode("string") EXCEPT !.str = str])
        n   == Len(u.node)
        r   == rex_check_repitions(t, p + len)
        v   == made([u EXCEPT !.node[n].str = SubSeq(str, 1, len - 1)], <<n, "next">>,
                    [rexnode("string") EXCEPT !.str = <<str[len]>>])
    IN  IF len > 1 /\ r.ok /\ r.p # p + len THEN closed(v, n + 1, t, p + len)
        ELSE closed(u, n, t, p + len)

(* from a character to another *)
between(c, d) == {Letters[i] : i \in {i \in DOMAIN Letters :
                    \E j, k \in DOMAIN Letters :
                        Letters[j] = c /\ Letters[k] = d /\ j <= i /\ i <= k}}

RECURSIVE class(_, _, _, _)
class(t, start, p, end) ==
    IF p >= end THEN {}
    ELSE IF t[p] = "-" /\ p # start /\ p # end - 1
         THEN between(t[p - 1], t[p + 1]) \cup class(t, start, p + 2, end)
    ELSE {t[p]} \cup class(t, start, p + 1, end)

backwards(t, start, end) ==
    \E p \in start+1..end-2 : t[p] = "-" /\ between(t[p - 1], t[p + 1]) = {}

(* a class that is not closed is reported, and then read past the end: not *)
(* offered                                                                 *)
rex_parse_class(m, loc, t, p) ==
    LET invert == tok(t, p + 1) = "^"
        start  == IF invert THEN p + 2 ELSE p + 1
        body   == IF tok(t, start) = "]" THEN start + 1 ELSE start
        end    == CHOOSE e \in body..Len(t) : t[e] = "]" /\ \A q \in body..e-1 : t[q] # "]"
        set    == class(t, start, start, end)
        u      == made(m, loc, [rexnode("class") EXCEPT
                                  !.set = IF invert THEN (Chars \cup {"]"}) \ set ELSE set])
    IN  IF backwards(t, start, end) THEN Failed(u) ELSE closed(u, Len(u.node), t, end + 1)

rex_parse_any(m, loc, t, p) ==
    LET u == made(m, loc, [rexnode("class") EXCEPT !.set = Chars \cup {"]"}])
    IN  closed(u, Len(u.node), t, p + 1)

(* what the group has so far is the new choice's first way *)
rex_parse_choice(m, loc, t, p) ==
    LET n == Len(m.node) + 1
        g == IF m.group = NoRex THEN RStart ELSE m.group
        first == IF m.choice = NoRex THEN m.node[g].next ELSE m.node[m.choice].opt2
        u == [m EXCEPT !.node = Append(@, [rexnode("choice") EXCEPT !.opt1 = first])]
        v == hang(u, IF m.choice = NoRex THEN <<g, "next">> ELSE <<m.choice, "opt2">>, n)
        w == [hang(v, loc, NoRex) EXCEPT !.choice = n]
    IN  rex_parse(w, <<n, "opt2">>, t, p + 1)

rex_parse_group_s(m, loc, t, p) ==
    LET u == made(m, loc, [rexnode("group_s") EXCEPT !.num = m.gnum + 1, !.other = m.group])
    IN  rex_parse([u EXCEPT !.gnum = @ + 1, !.group = Len(u.node), !.choice = NoRex],
                  <<Len(u.node), "next">>, t, p + 1)

(* the end of a way through the nodes after n *)
RECURSIVE lastof(_, _)
lastof(m, n) == IF m.node[n].next = NoRex THEN n ELSE lastof(m, m.node[n].next)

(* the choices from n on and all first ways lead to the group's end *)
RECURSIVE finalized(_, _, _)
finalized(m, n, end) ==
    LET c == m.node[n]
        u == [m EXCEPT !.node[n].next = end]
    IN  IF c.type # "choice" THEN m
        ELSE finalized(IF c.opt1 = NoRex THEN [u EXCEPT !.node[n].opt1 = end]
                       ELSE [u EXCEPT !.node[lastof(u, c.opt1)].next = end], c.opt2, end)

finalize_choices(m, start, end) ==
    IF m.choice = NoRex THEN m ELSE finalized(m, m.node[start].next, end)

RECURSIVE lastchoice(_, _)
lastchoice(m, n) == IF m.node[m.node[n].opt2].type = "choice" THEN lastchoice(m, m.node[n].opt2)
                    ELSE n

(* the enclosing group's choice, if it has one, is the last one again; but *)
(* not that of the whole pattern                                           *)
reinstated(m) ==
    LET g == m.group
    IN  [m EXCEPT !.choice =
           IF g # NoRex /\ m.node[m.node[g].next].type = "choice"
           THEN lastchoice(m, m.node[g].next) ELSE NoRex]

rex_parse_group_e(m, loc, t, p) ==
    LET s == m.group
        e == Len(m.node) + 1
        u == made(m, loc, [rexnode("group_e") EXCEPT !.num = m.node[s].num, !.other = s])
        v == [u EXCEPT !.group = m.node[s].other, !.node[s].other = e]
        w == reinstated(finalize_choices(v, s, e))
        r == rex_check_repitions(t, p + 1)
    IN  IF s = NoRex THEN Failed(m) ELSE closed(repeated(w, s, r), e, t, p + 1)

rex_parse_anchor(m, loc, t, p) ==
    LET u == made(m, loc, rexnode(IF t[p] = "^" THEN "banchor" ELSE "eanchor"))
    IN  rex_parse(u, <<Len(u.node), "next">>, t, p + 1)

rex_parse(m, loc, t, p) ==
    CASE tok(t, p) = "end" ->
            IF m.group # NoRex THEN Failed(m)
            ELSE finalize_choices(hang(m, loc, REnd), RStart, REnd)
      [] tok(t, p) \in {"^", "$"} -> rex_parse_anchor(m, loc, t, p)
      [] tok(t, p) = "(" -> rex_parse_group_s(m, loc, t, p)
      [] tok(t, p) = ")" -> rex_parse_group_e(m, loc, t, p)
      [] tok(t, p) = "[" -> rex_parse_class(m, loc, t, p)
      [] tok(t, p) = "." -> rex_parse_any(m, loc, t, p)
      [] tok(t, p) = "|" -> rex_parse_choice(m, loc, t, p)
      [] tok(t, p) \in Chars -> rex_parse_str(m, loc, t, p)
      [] OTHER -> Failed(m)

rex_init(t) ==
    rex_parse([node |-> <<[rexnode("group_s") EXCEPT !.other = REnd],
                          [rexnode("group_e") EXCEPT !.other = RStart]>>,
               group |-> NoRex, choice |-> NoRex, gnum |-> 0, ok |-> TRUE],
              <<RStart, "next">>, t, 1)

RECURSIVE all_paths_start(_, _)
all_paths_start(m, n) ==
    CASE m.node[n].type = "banchor" -> TRUE
      [] m.node[n].type = "group_s" -> all_paths_start(m, m.node[n].next)
      [] m.node[n].type = "choice"  -> /\ all_paths_start(m, m.node[n].opt1)
                                       /\ all_paths_start(m, m.node[n].opt2)
      [] OTHER -> FALSE

(* the nodes in the order they are freed *)
RECURSIVE rex_free_help(_, _, _)
rex_free_help(m, n, end) ==
    LET x == m.node[n]
    IN  IF n \in {NoRex, end} THEN <<>>
        ELSE CASE x.type = "group_s" ->
                    rex_free_help(m, x.next, x.other) \o rex_free_help(m, x.other, end)
                      \o IF x.num > 0 THEN <<n>> ELSE <<>>
               [] x.type = "choice" ->
                    rex_free_help(m, x.opt1, end) \o rex_free_help(m, x.opt2, end) \o <<n>>
               [] OTHER -> rex_free_help(m, x.next, end) \o <<n>>

rex_free(m) == rex_free_help(m, RStart, REnd)

--------------------------------------------------------------------------
(* Matching text s.  st is what the calls share: fr, the open groups' aux  *)
(* records [gstart, grep, prev], and at, where groups matched.  A call     *)
(* answers [ok, st].  rep is how often the node has matched already.       *)

Never(st) == [ok |-> FALSE, st |-> st]

RECURSIVE rex_match_rxn(_, _, _, _, _, _, _)

rex_next(m, s, n, cur, rep, ax, st) ==
    LET x == m.node[n]
        r == IF x.max = Wild \/ rep < x.max THEN rex_match_rxn(m, s, n, cur, rep, ax, st)
             ELSE Never(st)
    IN  IF ~r.ok /\ rep >= x.min THEN rex_match_rxn(m, s, x.next, cur, 0, ax, r.st) ELSE r

(* one more time, or, where there was none and need be none, on *)
once_more(m, s, n, cur, rep, ax, st, fits, len) ==
    IF fits THEN rex_next(m, s, n, cur + len, rep + 1, ax, st)
    ELSE IF m.node[n].min = 0 /\ rep = 0
    THEN rex_match_rxn(m, s, m.node[n].next, cur, 0, ax, st)
    ELSE Never(st)

rex_match_string(m, s, n, cur, rep, ax, st) ==
    LET len == Len(m.node[n].str)
    IN  once_more(m, s, n, cur, rep, ax, st,
                  Len(s) - cur >= len /\ SubSeq(s, cur + 1, cur + len) = m.node[n].str, len)

rex_match_class(m, s, n, cur, rep, ax, st) ==
    once_more(m, s, n, cur, rep, ax, st,
              Len(s) - cur > 0 /\ s[cur + 1] \in m.node[n].set, 1)

rex_match_choice(m, s, n, cur, rep, ax, st) ==
    LET r == rex_match_rxn(m, s, m.node[n].opt1, cur, 0, ax, st)
    IN  IF r.ok THEN r ELSE rex_match_rxn(m, s, m.node[n].opt2, cur, 0, ax, r.st)

(* the group's place, unless it has one *)
noted(st, num, start, len) ==
    IF num < NMatch /\ ~st.at[num].valid
    THEN [st EXCEPT !.at[num] = [valid |-> TRUE, start |-> start, len |-> len]] ELSE st

rex_match_group_s(m, s, n, cur, rep, ax, st) ==
    LET x  == m.node[n]
        u  == IF rep = 0
              THEN [st EXCEPT !.fr = Append(@, [gstart |-> cur, grep |-> 1, prev |-> ax])]
              ELSE [st EXCEPT !.fr[ax].grep = rep + 1]
        r  == rex_match_rxn(m, s, x.next, cur, 0, IF rep = 0 THEN Len(u.fr) ELSE ax, u)
    IN  IF ~r.ok /\ x.min = 0 /\ rep = 0
        THEN rex_match_rxn(m, s, m.node[x.other].next, cur, 0, ax, noted(r.st, x.num, cur, 0))
        ELSE r

rex_match_group_e(m, s, n, cur, ax, st) ==
    LET x   == m.node[n]
        rep == st.fr[ax].grep
        r   == IF x.max = Wild \/ rep < x.max
               THEN rex_match_group_s(m, s, x.other, cur, rep, ax, st) ELSE Never(st)
        u   == [r.st EXCEPT !.fr[ax].grep = rep]
        q   == IF rep >= x.min THEN rex_match_rxn(m, s, x.next, cur, 0, st.fr[ax].prev, u)
               ELSE Never(u)
    IN  IF r.ok THEN [r EXCEPT !.st = u]
        ELSE IF q.ok
        THEN [q EXCEPT !.st = noted(@, x.num, q.st.fr[ax].gstart, cur - q.st.fr[ax].gstart)]
        ELSE q

rex_match_rxn(m, s, n, cur, rep, ax, st) ==
    IF n = NoRex THEN [ok |-> TRUE, st |-> st]
    ELSE LET x == m.node[n]
         IN CASE x.type = "string"  -> rex_match_string(m, s, n, cur, rep, ax, st)
              [] x.type = "class"   -> rex_match_class(m, s, n, cur, rep, ax, st)
              [] x.type = "choice"  -> rex_match_choice(m, s, n, cur, rep, ax, st)
              [] x.type = "group_s" -> rex_match_group_s(m, s, n, cur, rep, ax, st)
              [] x.type = "group_e" -> rex_match_group_e(m, s, n, cur, ax, st)
              [] x.type = "banchor" ->
                   IF cur = 0 THEN rex_match_rxn(m, s, x.next, cur, 0, ax, st) ELSE Never(st)
              [] x.type = "eanchor" ->
                   IF cur = Len(s) THEN rex_match_rxn(m, s, x.next, cur, 0, ax, st)
                   ELSE Never(st)

NoPlaces == [i \in 0..NMatch-1 |-> [valid |-> FALSE, start |-> 0, len |-> 0]]

RECURSIVE rex_search(_, _, _, _)
rex_search(m, s, cur, st) ==
    LET r == rex_match_rxn(m, s, RStart, cur, 0, 1, [st EXCEPT !.fr[1].gstart = cur])
        last == cur + 1 >= Len(s) \/ (cur = 0 /\ all_paths_start(m, RStart))
    IN  IF r.ok \/ last THEN r ELSE rex_search(m, s, cur + 1, r.st)

(* [ok, at] *)
rex_match(m, s) ==
    LET r == rex_search(m, s, 0, [fr |-> <<[gstart |-> 0, grep |-> 0, prev |-> 0]>>,
                                  at |-> NoPlaces])
    IN  [ok |-> r.ok, at |-> r.st.at]
=============================================================================
