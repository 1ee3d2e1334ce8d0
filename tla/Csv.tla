--------------------------------- MODULE Csv ---------------------------------
(***************************************************************************)
(* The field reader of src/csv.c and csv_read_field of src/stdcsv.c.  The  *)
(* input is a sequence of characters, Quote, Comma and Newline among them; *)
(* ReadError in it is where csv_getc fails.  c is struct csv_state:        *)
(*   in    what csv_getc has not answered yet                              *)
(*   done, inquote, sawquote, last    the fields; last is <<>> for -1      *)
(***************************************************************************)
EXTENDS Integers, Sequences

CONSTANTS Quote, Comma, Newline, ReadError

csv_init(in) == [in |-> in, done |-> 0, inquote |-> FALSE, sawquote |-> FALSE, last |-> <<>>]

(* a character that was put back comes first *)
ahead(c) == c.last \o c.in

taken(c) == IF c.last # <<>> THEN [c EXCEPT !.last = <<>>]
            ELSE IF c.in # <<>> THEN [c EXCEPT !.in = Tail(@)] ELSE c

(* Fault: a quote that does not fit is counted, and counted again *)
RECURSIVE CountsTwice(_, _, _)
CountsTwice(c, out, len) ==
    LET ch   == Head(ahead(c))
        u    == [taken(c) EXCEPT !.inquote  = IF ch = Quote THEN ~@ ELSE @,
                                 !.sawquote = ch = Quote]
        answer(d, code) == [c |-> d, code |-> code, out |-> out]
    IN  IF ahead(c) = <<>>    THEN answer([c EXCEPT !.done = 1], "rec")
        ELSE IF ch = ReadError THEN answer([taken(c) EXCEPT !.done = -1], "err")
        ELSE IF ch = Quote /\ (u.inquote \/ ~c.sawquote) THEN CountsTwice(u, out, len)
        ELSE IF ch = Comma /\ ~u.inquote   THEN answer(u, "fld")
        ELSE IF ch = Newline /\ ~u.inquote THEN answer(u, "rec")
        ELSE IF Len(out) < len THEN CountsTwice(u, Append(out, ch), len)
        ELSE answer([u EXCEPT !.last = <<ch>>], "cnt")

(* out is what the buffer, which has room for len characters, has so far *)
RECURSIVE csv_loop(_, _, _)
csv_loop(c, out, len) ==
    LET ch   == Head(ahead(c))
        u    == [taken(c) EXCEPT !.inquote  = IF ch = Quote THEN ~@ ELSE @,
                                 !.sawquote = ch = Quote]
        answer(d, code) == [c |-> d, code |-> code, out |-> out]
    IN  IF ahead(c) = <<>>    THEN answer([c EXCEPT !.done = 1], "rec")
        ELSE IF ch = ReadError THEN answer([taken(c) EXCEPT !.done = -1], "err")
        ELSE IF ch = Quote /\ (u.inquote \/ ~c.sawquote) THEN csv_loop(u, out, len)
        ELSE IF ch = Comma /\ ~u.inquote   THEN answer(u, "fld")
        ELSE IF ch = Newline /\ ~u.inquote THEN answer(u, "rec")
        ELSE IF Len(out) < len THEN csv_loop(u, Append(out, ch), len)
        ELSE answer([u EXCEPT !.last = <<ch>>,
                              !.inquote = IF ch = Quote THEN ~@ ELSE @], "cnt")

(* one place of the buffer is for the character that ends a string *)
csv_next(c, size) ==
    LET r    == csv_loop(c, <<>>, size - 1)
        code == IF r.out = <<>> /\ r.c.done > 0 THEN "eof" ELSE r.code
    IN  IF size < 2 THEN [c |-> c, code |-> "err", out |-> <<>>]
        ELSE IF c.done # 0 THEN [c |-> c, code |-> IF c.done > 0 THEN "eof" ELSE "err",
                                 out |-> <<>>]
        ELSE [r EXCEPT !.code = code,
                !.c.inquote  = IF code \in {"eof", "cnt"} THEN @ ELSE FALSE,
                !.c.sawquote = IF code \in {"eof", "cnt"} THEN @ ELSE FALSE]

(* the rest of a field is read and dropped *)
RECURSIVE csv_clear_field(_, _)
csv_clear_field(c, size) ==
    LET r == csv_next(c, size) IN IF r.code = "cnt" THEN csv_clear_field(r.c, size) ELSE r

(* Into a buffer slen (32) long, if the field fits.  When it does not,     *)
(* mm_grow asks realloc to resize the pointer to the buffer instead of the *)
(* buffer, which ends the program ("crash")                                *)
csv_read_field(c, slen) ==
    LET r == csv_next(c, slen) IN IF r.code = "cnt" THEN [r EXCEPT !.code = "crash"] ELSE r

--------------------------------------------------------------------------
(* What the fields of a text are but for quotes in them: a comma or a new  *)
(* line ends one if the quotes before it are even in number.               *)

quotes(t, from, to) == {i \in from..to : t[i] = Quote}
RECURSIVE even(_)
even(set) == set = {} \/ ~even(set \ {CHOOSE i \in set : TRUE})

Ends(t) == {i \in DOMAIN t : t[i] \in {Comma, Newline} /\ even(quotes(t, 1, i))}

unquoted(t) == SelectSeq(t, LAMBDA ch : ch # Quote)

(* the fields from a place on, each with what ended it; the last is what   *)
(* is left                                                                 *)
RECURSIVE FieldsOf(_, _)
FieldsOf(t, from) ==
    LET later == {i \in Ends(t) : i >= from}
        end   == CHOOSE i \in later : \A j \in later : i <= j
    IN  IF later # {}
        THEN <<[code |-> IF t[end] = Comma THEN "fld" ELSE "rec",
                out |-> unquoted(SubSeq(t, from, end - 1))]>> \o FieldsOf(t, end + 1)
        ELSE <<[code |-> "rec", out |-> unquoted(SubSeq(t, from, Len(t)))]>>

(* no quote follows another *)
Plain(t) == \A i \in 1..Len(t)-1 : t[i] # Quote \/ t[i + 1] # Quote
==============================================================================
