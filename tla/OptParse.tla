------------------------------- MODULE OptParse -------------------------------
(***************************************************************************)
(* Command line options, src/optparse.c.  A word is a sequence of          *)
(* characters, argv a function of the indices from 0.  An option is a      *)
(* record [type, ch, str]; str begins with two dashes, or is <<>>.  o is   *)
(* struct clopt_parser: argc, argv, vidx, nonopt, and chptr, what is left  *)
(* of a word of one-character options, <<>> for NULL.                      *)
(* An answer is [o, ret, opt, val].                                        *)
(***************************************************************************)
EXTENDS Integers, Sequences, FiniteSets

CONSTANTS Options,  \* sequence of options, not empty
          Digits    \* the characters that strtol reads

Dash   == "-"
Dashes == <<Dash, Dash>>
NoArg  == <<>>

CLORET_UNKOPT   == -1
CLORET_NOPARAM  == -2
CLORET_BADPARAM == -3
CLORET_RESET    == -4

optparse_reset(argv) == [argc |-> Cardinality(DOMAIN argv), argv |-> argv,
                         vidx |-> 1, nonopt |-> 1, chptr |-> <<>>]

(* the word at hi goes to lo, those from lo on up by one *)
movedown(argv, lo, hi) ==
    [i \in DOMAIN argv |-> IF i < lo \/ i > hi THEN argv[i]
                           ELSE IF i = lo THEN argv[hi] ELSE argv[i - 1]]

passed(o) == [o EXCEPT !.argv = movedown(@, o.nonopt, o.vidx),
                       !.nonopt = @ + 1, !.vidx = @ + 1]

read_arg(opt, arg) ==
    opt.type = "string" \/ (arg # <<>> /\ \A i \in DOMAIN arg : arg[i] \in Digits)

Fails(o, ret, opt) == [o |-> [o EXCEPT !.argc = -1], ret |-> ret, opt |-> opt, val |-> NoArg]

Found(o, opt, val) == [o |-> o, ret |-> 0, opt |-> opt, val |-> val]

first_of(set) == CHOOSE i \in set : \A j \in set : i <= j

starts(word, with) == Len(word) >= Len(with) /\ SubSeq(word, 1, Len(with)) = with

(* the first option that begins with the word's part before "=", and the   *)
(* last one of all if none does                                            *)
parse_long_opt(o) ==
    LET cp   == o.argv[o.vidx]
        eqs  == {i \in DOMAIN cp : cp[i] = "="}
        name == IF eqs = {} THEN cp ELSE SubSeq(cp, 1, first_of(eqs) - 1)
        arg  == SubSeq(cp, first_of(eqs) + 1, Len(cp))
        same == {i \in DOMAIN Options : starts(Options[i].str, name)}
        opt  == IF same = {} THEN Len(Options) ELSE first_of(same)
        takes == Options[opt].type # "noarg"
    IN  IF takes /\ eqs = {} THEN Fails(o, CLORET_NOPARAM, opt)
        ELSE IF takes /\ ~read_arg(Options[opt], arg) THEN Fails(o, CLORET_BADPARAM, opt)
        ELSE IF ~takes /\ eqs # {} THEN Fails(o, CLORET_BADPARAM, opt)
        ELSE Found(passed(o), opt, IF takes THEN arg ELSE NoArg)

parse_short_opts(o) ==
    LET known == {i \in DOMAIN Options : Options[i].ch = Head(o.chptr)}
        opt   == first_of(known)
        takes == Options[opt].type # "noarg"
        rest  == Tail(o.chptr)
        ended(p) == [p EXCEPT !.chptr = <<>>]
    IN  IF known = {} THEN Fails(o, CLORET_UNKOPT, 0)
        ELSE IF ~takes THEN Found(IF rest = <<>> THEN ended(passed(o))
                                  ELSE [o EXCEPT !.chptr = rest], opt, NoArg)
        ELSE IF rest # <<>>
        THEN IF read_arg(Options[opt], rest) THEN Found(ended(passed(o)), opt, rest)
             ELSE Fails(o, CLORET_BADPARAM, opt)
        ELSE IF o.vidx >= o.argc - 1 THEN Fails(o, CLORET_NOPARAM, opt)
        ELSE LET next == o.argv[o.vidx + 1]
             IN  IF read_arg(Options[opt], next) THEN Found(ended(passed(passed(o))), opt, next)
                 ELSE Fails(o, CLORET_BADPARAM, opt)

IsOption(word) == Len(word) > 1 /\ word[1] = Dash

optparse_next(o) ==
    LET next == {i \in o.vidx..o.argc-1 : IsOption(o.argv[i])}
        p    == [o EXCEPT !.vidx = IF next = {} THEN o.argc ELSE first_of(next)]
        word == p.argv[p.vidx]
        end(q) == [o |-> q, ret |-> q.nonopt, opt |-> 0, val |-> NoArg]
    IN  IF o.argc <= 0 THEN [o |-> o, ret |-> CLORET_RESET, opt |-> 0, val |-> NoArg]
        ELSE IF o.vidx < 0 THEN end(o)
        ELSE IF o.chptr # <<>> THEN parse_short_opts(o)
        ELSE IF next = {} THEN end(p)
        ELSE IF word = Dashes
        THEN end([p EXCEPT !.argv = movedown(@, p.nonopt, p.vidx),
                           !.nonopt = @ + 1, !.vidx = -1])
        ELSE IF starts(word, Dashes) THEN parse_long_opt(p)
        ELSE parse_short_opts([p EXCEPT !.chptr = Tail(word)])

(* the client's loop: the options with their arguments, until an error or the end *)
RECURSIVE optparse_all(_, _)
optparse_all(o, got) ==
    LET r == optparse_next(o)
    IN  IF r.ret = 0 THEN optparse_all(r.o, Append(got, <<r.opt, r.val>>))
        ELSE [ret |-> r.ret, opt |-> r.opt, got |-> got, argv |-> r.o.argv]

--------------------------------------------------------------------------
(* What a command line says, read word by word: w is what is left of it,   *)
(* got the options found, used the words they took, other those that are   *)
(* no options.  A long option may be shortened, and is then the first that *)
(* begins so.  wrong is where that ends: "" if it does not, "option" at a  *)
(* long option there is not, "word" at any other that says nothing.        *)

RECURSIVE Meaning(_, _, _, _)
Meaning(w, got, used, other) ==
    LET word == Head(w)
        eq   == IF \E i \in DOMAIN word : word[i] = "="
                THEN first_of({i \in DOMAIN word : word[i] = "="}) ELSE Len(word) + 1
        begins == {i \in DOMAIN Options : starts(Options[i].str, SubSeq(word, 1, eq - 1))}
        long == first_of(begins)
        arg  == SubSeq(word, eq + 1, Len(word))
        short(c) == {i \in DOMAIN Options : Options[i].ch = c}
        bad(g) == [wrong |-> "word", got |-> g, used |-> used, other |-> other]
        (* the options from character i on *)
        RECURSIVE cluster(_, _)
        cluster(i, g) ==
            LET k   == first_of(short(word[i]))
                sep == i = Len(word)
                val == IF ~sep THEN SubSeq(word, i + 1, Len(word)) ELSE w[2]
            IN  IF i > Len(word) THEN Meaning(Tail(w), g, Append(used, word), other)
                ELSE IF short(word[i]) = {} THEN bad(g)
                ELSE IF Options[k].type = "noarg" THEN cluster(i + 1, Append(g, <<k, NoArg>>))
                ELSE IF sep /\ Len(w) = 1 THEN bad(g)
                ELSE IF ~read_arg(Options[k], val) THEN bad(g)
                ELSE IF ~sep THEN Meaning(Tail(w), Append(g, <<k, val>>), Append(used, word), other)
                ELSE Meaning(Tail(Tail(w)), Append(g, <<k, val>>), used \o <<word, val>>, other)
    IN  IF w = <<>> THEN [wrong |-> "", got |-> got, used |-> used, other |-> other]
        ELSE IF ~IsOption(word) THEN Meaning(Tail(w), got, used, Append(other, word))
        ELSE IF word = Dashes
        THEN [wrong |-> "", got |-> got, used |-> Append(used, word), other |-> other \o Tail(w)]
        ELSE IF starts(word, Dashes)
        THEN IF begins = {} THEN [bad(got) EXCEPT !.wrong = "option"]
             ELSE IF (Options[long].type = "noarg") = (eq <= Len(word))
                \/ ~(Options[long].type = "noarg" \/ read_arg(Options[long], arg)) THEN bad(got)
             ELSE Meaning(Tail(w), Append(got, <<long, arg>>), Append(used, word), other)
        ELSE cluster(2, got)
==============================================================================
