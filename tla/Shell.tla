-------------------------------- MODULE Shell --------------------------------
(***************************************************************************)
(* The command interpreter of src/shell.c, over str_tok_a of stduse.c, and *)
(* a client with commands like those of src/test/testshell.c: "i" and "s"  *)
(* answer their argument as an integer and as a copied string.  A line is  *)
(* a sequence of characters.  s is struct shell_env:                       *)
(*   vars  the table: [name, type, val, frees], name <<>> for a free entry *)
(*   mem   the strings allocated for values, with their characters         *)
(* The client's lines keep to the calls that work: README.md lists others. *)
(*   want  [name -> what the client has assigned]: it is only compared     *)
(***************************************************************************)
EXTENDS Integers, Sequences, FiniteSets

CONSTANTS MaxVars, MaxName, MaxArgs,    \* CAT_MAX_VARS, CAT_MAX_VARNLEN, CAT_MAX_CMD_ARGS
          DigitAs,      \* [character -> 0..9]
          Names,        \* names of variables, sequences of characters
          Lines         \* records [ret, glued, words]: ret is <<>> or a name,
                        \* glued that the first word follows the "=" at once

VARIABLES kind, s, want
vars == <<kind, s, want>>

Space == " "  Equals == "="  Dollar == "$"
None == 0
NoReturn == <<>>

smallest(set) == CHOOSE i \in set : \A j \in set : i <= j

(* from place p on, the first character that is a space, or that is none *)
upto(t, p, isspace) ==
    smallest({q \in p..Len(t)+1 : q > Len(t) \/ (t[q] = Space) = isspace})

(* tok is <<>> where there is no other token *)
str_tok_a(t, p) ==
    LET b == upto(t, p, FALSE)
        e == upto(t, b, TRUE)
    IN  [tok |-> SubSeq(t, b, e - 1), at |-> e]

(* up to n tokens from place p on *)
RECURSIVE tokens(_, _, _)
tokens(t, p, n) ==
    LET r == str_tok_a(t, p)
    IN  IF n = 0 \/ r.tok = <<>> THEN [toks |-> <<>>, at |-> p]
        ELSE LET q == tokens(t, r.at, n - 1) IN [q EXCEPT !.toks = <<r.tok>> \o @]

shell_is_var(str) == str # <<>> /\ str[1] = Dollar

(* a first token "name=arg" is cut at its first "=", arg may be empty *)
cut(tok, eqs) ==
    IF eqs = {} THEN [ret |-> NoReturn, args |-> <<tok>>]
    ELSE LET eq == smallest(eqs)
         IN  [ret  |-> SubSeq(tok, 1, eq - 1),
              args |-> IF eq = Len(tok) THEN <<>> ELSE <<SubSeq(tok, eq + 1, Len(tok))>>]

Bad == [ok |-> FALSE, ret |-> NoReturn, args |-> <<>>]

(* the other tokens, after that *)
parsed(head, rest, t) ==
    IF Len(head.args \o rest.toks) = MaxArgs /\ str_tok_a(t, rest.at).tok # <<>> THEN Bad
    ELSE [ok |-> TRUE, ret |-> head.ret, args |-> head.args \o rest.toks]

started(t, at, head) == parsed(head, tokens(t, at, MaxArgs - Len(head.args)), t)

named(t, first, eqs) ==
    IF first.tok = <<>> THEN [ok |-> TRUE, ret |-> NoReturn, args |-> <<>>]
    ELSE IF eqs # {} /\ shell_is_var(first.tok) THEN Bad
    ELSE started(t, first.at, cut(first.tok, eqs))

shell_parse(t) ==
    LET first == str_tok_a(t, 1)
    IN  named(t, first, {i \in DOMAIN first.tok : first.tok[i] = Equals})

--------------------------------------------------------------------------
(* The table of variables.  An entry is known by its place, None is NULL   *)

Nil  == [name |-> <<>>, type |-> "nil", val |-> 0, frees |-> FALSE]

shell_env_init == [vars |-> [i \in 1..MaxVars |-> Nil], mem |-> [a \in {} |-> <<>>]]

without(mem, a) == [b \in DOMAIN mem \ {a} |-> mem[b]]

shell_free_value(env, i) ==
    IF env.vars[i].frees THEN [env EXCEPT !.mem = without(@, env.vars[i].val)] ELSE env

shell_free_var(env, i) == [shell_free_value(env, i) EXCEPT !.vars[i] = Nil]

shell_find_var(env, name) ==
    LET set == {i \in 1..MaxVars : env.vars[i].name = name}
    IN  IF set = {} THEN None ELSE smallest(set)

(* the entry's value is what the last variable in it has left: Nil's *)
new_var(env, name) ==
    LET i == shell_find_var(env, <<>>)
    IN  IF Len(name) > MaxName - 1 \/ i = None THEN [env |-> env, i |-> None]
        ELSE [env |-> [env EXCEPT !.vars[i].name = name], i |-> i]

(* shell_arg2int and its likes: a variable of that type, or what the       *)
(* characters say.  strtol reads the digits at the start, and needs one    *)
RECURSIVE strtol(_, _)
strtol(str, n) == IF str = <<>> \/ Head(str) \notin DOMAIN DigitAs THEN n
                  ELSE strtol(Tail(str), 10 * n + DigitAs[Head(str)])

Answer(ok, val) == [ok |-> ok, val |-> val]

variable(env, str, type, no) ==
    LET i == shell_find_var(env, Tail(str))
    IN  IF i = None \/ env.vars[i].type # type THEN Answer(FALSE, no)
        ELSE Answer(TRUE, env.vars[i].val)

shell_arg2int(env, str) ==
    IF shell_is_var(str) THEN variable(env, str, "int", 0)
    ELSE Answer(str # <<>> /\ str[1] \in DOMAIN DigitAs, strtol(str, 0))

shell_arg2str(env, str) ==
    IF ~shell_is_var(str) THEN Answer(TRUE, str)
    ELSE LET r == variable(env, str, "string", 0)
         IN  IF r.ok THEN Answer(TRUE, env.mem[r.val]) ELSE Answer(FALSE, <<>>)

(* the client's commands: what was answered, and the strings then allocated *)
Failed == [ok |-> FALSE]

int(r, mem) == IF ~r.ok THEN Failed
               ELSE [ok |-> TRUE, type |-> "int", val |-> r.val, frees |-> FALSE, mem |-> mem]

string(r, mem, a) ==
    IF ~r.ok THEN Failed
    ELSE [ok |-> TRUE, type |-> "string", val |-> a, frees |-> TRUE,
          mem |-> [b \in DOMAIN mem \cup {a} |-> IF b = a THEN r.val ELSE mem[b]]]

newaddr(mem) == smallest((1..Cardinality(DOMAIN mem) + 1) \ DOMAIN mem)

command(env, args) ==
    IF Len(args) # 2 THEN Failed
    ELSE IF args[1] = <<"i">> THEN int(shell_arg2int(env, args[2]), env.mem)
    ELSE IF args[1] = <<"s">> THEN string(shell_arg2str(env, args[2]), env.mem, newaddr(env.mem))
    ELSE Failed     \* not found

(* the variable is found or made before the command runs, and keeps its    *)
(* name when there is no such command or it fails                          *)
entry(env, name, i) == IF name = NoReturn THEN [env |-> env, i |-> None]
                       ELSE IF i # None THEN [env |-> env, i |-> i] ELSE new_var(env, name)

assigned(env, i, name, r) ==
    [env EXCEPT !.vars[i] = [name |-> name, type |-> r.type, val |-> r.val, frees |-> r.frees]]

finished(env, i, name, r) ==
    IF ~r.ok THEN [env |-> env, rv |-> -1]
    ELSE IF i = None THEN [env |-> [env EXCEPT !.mem = r.mem], rv |-> 0]
    ELSE [env |-> assigned(shell_free_value([env EXCEPT !.mem = r.mem], i), i, name, r), rv |-> 0]

ran(env, i, p) ==
    IF p.ret # NoReturn /\ i = None THEN [env |-> env, rv |-> -1]
    ELSE IF p.args # <<>> THEN finished(env, i, p.ret, command(env, p.args))
    ELSE [env |-> IF i = None THEN env ELSE shell_free_var(env, i), rv |-> 0]

entered(e, p) == ran(e.env, e.i, p)

run(env, p) == IF ~p.ok THEN [env |-> env, rv |-> -1]
               ELSE entered(entry(env, p.ret, shell_find_var(env, p.ret)), p)

shell_run(env, line) == run(env, shell_parse(line))

--------------------------------------------------------------------------

RECURSIVE spaced(_)
spaced(words) == IF words = <<>> THEN <<>> ELSE <<Space>> \o Head(words) \o spaced(Tail(words))

text(l) == LET w == spaced(l.words)
               name == IF l.ret = NoReturn THEN <<>> ELSE l.ret \o <<Equals>>
           IN  name \o IF l.glued /\ w # <<>> THEN Tail(w) ELSE w

(* What a line does to the variables as its writer sees them *)
Absent  == <<"absent">>
NoValue == <<"none">>

meant(l) ==
    LET arg   == l.words[2]
        taken == IF shell_is_var(arg)
                 THEN IF Tail(arg) \in Names THEN want[Tail(arg)] ELSE Absent
                 ELSE <<"string", arg>>
        lit   == ~shell_is_var(arg) /\ arg[1] \in DOMAIN DigitAs
        value == IF Len(l.words) # 2 THEN NoValue
                 ELSE IF l.words[1] = <<"s">> /\ taken[1] = "string" THEN taken
                 ELSE IF l.words[1] = <<"i">> /\ lit THEN <<"int", strtol(arg, 0)>>
                 ELSE IF l.words[1] = <<"i">> /\ taken[1] = "int" THEN taken
                 ELSE NoValue
        room  == \/ want[l.ret] # Absent
                 \/ /\ Cardinality({n \in Names : want[n] # Absent}) < MaxVars
                    /\ Len(l.ret) < MaxName
    IN  IF l.ret = NoReturn \/ Len(l.words) > MaxArgs \/ ~room THEN want
        ELSE IF l.words = <<>> THEN [want EXCEPT ![l.ret] = Absent]
        ELSE IF value # NoValue THEN [want EXCEPT ![l.ret] = value]
        ELSE IF want[l.ret] = Absent THEN [want EXCEPT ![l.ret] = NoValue]
        ELSE want

Init == /\ kind = [sh |-> "shell"]
        /\ s = shell_env_init
        /\ want = [n \in Names |-> Absent]

Run == \E l \in Lines :
         /\ s' = shell_run(s, text(l)).env
         /\ want' = meant(l)
         /\ UNCHANGED kind

Next == Run

--------------------------------------------------------------------------

owned(i) == s.vars[i].frees

(* no two entries have a name in common, or a string                       *)
ShellSound ==
    \A i, j \in 1..MaxVars : i # j =>
        /\ s.vars[i].name # <<>> => s.vars[i].name # s.vars[j].name
        /\ owned(i) /\ owned(j) => s.vars[i].val # s.vars[j].val

(* a variable has the value assigned to it last, whatever failed since     *)
ShellFaithful ==
    \A n \in Names :
        LET i == shell_find_var(s, n)
            v == s.vars[i]
        IN  IF want[n] = Absent THEN i = None
            ELSE /\ i # None
                 /\ want[n] = CASE v.type = "nil"    -> NoValue
                                [] v.type = "int"    -> <<"int", v.val>>
                                [] v.type = "string" -> <<"string", s.mem[v.val]>>

(* the strings allocated are those of the variables *)
ShellMemory == DOMAIN s.mem = {s.vars[i].val : i \in {i \in 1..MaxVars : owned(i)}}
==============================================================================
