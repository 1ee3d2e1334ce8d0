--------------------------------- MODULE Strs ---------------------------------
(***************************************************************************)
(* Strings of src/str.c.  A string is a sequence of bytes without its NUL; *)
(* at(s, i) is byte i from 0, and 0 behind the last.  A buffer is a        *)
(* sequence too, as long as its memory.                                    *)
(***************************************************************************)
EXTENDS Integers, SequencesExt

NUL == 0  Colon == 58

at(s, i) == IF i < Len(s) THEN s[i + 1] ELSE NUL

(* buf with the bytes from index i on *)
put(buf, i, bytes) ==
    [k \in DOMAIN buf |-> IF k - i \in DOMAIN bytes THEN bytes[k - i] ELSE buf[k]]

upper(c) == IF c \in 97..122 THEN c - 32 ELSE c

chnval(c) == IF c \in 48..57 THEN c - 48
             ELSE IF upper(c) \in 65..90 THEN 10 + upper(c) - 65 ELSE 0

(* as much of src as dst has room for beside the NUL; n is src's length *)
str_copy(dst, src) ==
    LET fit == IF Len(src) < Len(dst) THEN Len(src) ELSE Len(dst) - 1
    IN  [dst |-> put(dst, 0, SubSeq(src, 1, fit) \o <<NUL>>), n |-> Len(src)]

--------------------------------------------------------------------------
(* Sets of characters: 32 bytes, each the set of its bits that are one     *)

cset_clear == [b \in 0..31 |-> {}]
cset_fill  == [b \in 0..31 |-> 0..7]

cset_add(set, c) == [set EXCEPT ![c \div 8] = @ \cup {c % 8}]
cset_rem(set, c) == [set EXCEPT ![c \div 8] = @ \ {c % 8}]

cset_contains(set, c) == (c % 8) \in set[c \div 8]

cset_init_accept(s) == FoldLeft(cset_add, cset_clear, s)
cset_init_reject(s) == FoldLeft(cset_rem, cset_fill, Append(s, NUL))

RECURSIVE spanned(_, _, _)
spanned(s, i, set) == IF cset_contains(set, at(s, i)) THEN 1 + spanned(s, i + 1, set) ELSE 0

str_spn(s, set) == spanned(s, 0, set)

(* the bytes in set go to dst, cut and ended as by str_copy, if it has room *)
str_copy_spn(dst, s, set) ==
    LET n == str_spn(s, set)
    IN  [dst |-> str_copy(dst, SubSeq(s, 1, n)).dst, n |-> n]

--------------------------------------------------------------------------
(* The path walker: next is what of the path is left, ended that it is NULL *)

pwalk_init(path, psep, dsep) ==
    [path |-> path, next |-> path, ended |-> FALSE, dsep |-> dsep,
     acc |-> cset_init_accept(psep), rej |-> cset_init_reject(psep)]

(* does not make next that is NULL something else; not called then *)
pwalk_reset(pw) == [pw EXCEPT !.next = pw.path, !.ended = FALSE]

pwalk_next(pw, sfx, osize) ==
    LET c    == str_copy_spn([i \in 1..osize |-> NUL], pw.next, pw.rej)
        pl   == c.n
        room == osize - pl - 1
        rest == SubSeq(pw.next, pl + 2, Len(pw.next))
        left == SubSeq(rest, str_spn(rest, pw.acc) + 1, Len(rest))
        none == [pw |-> pw, ok |-> FALSE, out |-> <<>>]
    IN  IF osize < 1 \/ pw.ended \/ pl >= osize - 1 THEN none
        ELSE IF Len(sfx) >= room THEN none
        ELSE [ok |-> TRUE, out |-> put(put(c.dst, pl, <<pw.dsep>>), pl + 1, Append(sfx, NUL)),
              pw |-> [pw EXCEPT !.next = left, !.ended = left = <<>>]]

--------------------------------------------------------------------------
(* IPv6 addresses                                                          *)

Hex == cset_init_accept([i \in 1..22 |-> IF i <= 10 THEN 47 + i
                                         ELSE IF i <= 16 THEN 54 + i ELSE 80 + i])

RECURSIVE word(_, _)
word(digits, v) == IF digits = <<>> THEN <<v \div 256, v % 256>>
                   ELSE word(Tail(digits), 16 * v + chnval(Head(digits)))

(* groups of digits and the colon behind each, to at most max bytes *)
RECURSIVE groups(_, _, _, _)
groups(s, p, got, max) ==
    LET spn == spanned(s, p, Hex)
        g   == got \o word(SubSeq(s, p + 1, p + spn), 0)
    IN  IF spn = 0 THEN [ok |-> TRUE, p |-> p, got |-> got]
        ELSE IF Len(got) >= max \/ spn > 4 THEN [ok |-> FALSE]
        ELSE IF at(s, p + spn) = Colon THEN groups(s, p + spn + 1, g, max)
        ELSE [ok |-> TRUE, p |-> p + spn, got |-> g]

zeros(n) == [i \in 1..n |-> 0]

(* ret is the place behind the address, or -1 *)
str_parse_ip6a(s) ==
    LET spn  == str_spn(s, cset_add(Hex, Colon))
        a    == groups(s, 0, <<>>, 16)
        plen == Len(a.got)
        b    == groups(s, a.p + (IF a.p = 0 THEN 2 ELSE 1), <<>>, 14 - plen)
        bad  == [ret |-> -1, addr |-> <<>>]
    IN  IF spn \notin 2..39 \/ spn # Len(s) THEN bad
        ELSE IF at(s, 0) = Colon /\ at(s, 1) # Colon THEN bad
        ELSE IF ~a.ok THEN bad
        ELSE IF a.p = Len(s) THEN [ret |-> a.p, addr |-> a.got \o zeros(16 - plen)]
        ELSE IF plen = 16 THEN bad
        ELSE IF ~b.ok THEN bad
        ELSE [ret |-> b.p, addr |-> a.got \o zeros(16 - plen - Len(b.got)) \o b.got]

--------------------------------------------------------------------------
(* UTF-8.  The first byte of n begins with n ones and a zero               *)

Lead(n) == 256 - 2^(8 - n)

utf8_lentab(c) ==
    IF c < 128 THEN 1
    ELSE IF c \in 192..253 THEN CHOOSE n \in 2..6 : c \in Lead(n)..Lead(n+1)-1 ELSE -1

RECURSIVE ones(_, _)
ones(c, hibit) == IF hibit > 0 /\ (c \div hibit) % 2 = 1 THEN 1 + ones(c, hibit \div 2) ELSE 0

utf8_find_nbytes(c) == LET n == ones(c, 128)
                       IN  IF n = 0 THEN 1 ELSE IF n = 1 \/ n >= 7 THEN -1 ELSE n

(* the length of the character at p, or -1; max 0 for no limit *)
utf8_validate_char(s, p, max) ==
    LET nb      == utf8_lentab(at(s, p))
        toolong == \/ nb = 2 /\ at(s, p) < 194
                   \/ nb > 2 /\ at(s, p) = Lead(nb) /\ at(s, p + 1) < 128 + 2^(8 - nb)
    IN  IF nb < 0 \/ (max > 0 /\ nb > max) THEN -1
        ELSE IF \E i \in 1..nb-1 : at(s, p + i) \notin 128..191 THEN -1
        ELSE IF toolong THEN -1 ELSE nb

(* where the first character is that is not valid, or -1 *)
RECURSIVE utf8_validate(_, _, _)
utf8_validate(s, p, term) ==
    LET len == utf8_validate_char(s, p, Len(s) - p)
    IN  IF p >= Len(s) \/ (term /\ at(s, p) = NUL) THEN -1
        ELSE IF len < 0 THEN p ELSE utf8_validate(s, p + len, term)

RECURSIVE utf8_nchars(_, _)
utf8_nchars(s, p) == IF p >= Len(s) THEN 0 ELSE 1 + utf8_nchars(s, p + utf8_lentab(at(s, p)))

same(s, p, c, q, n) == \A i \in 0..n-1 : at(s, p + i) = at(c, q + i)

(* place of the character c in s, or -1 *)
RECURSIVE utf8_findc(_, _, _)
utf8_findc(s, p, c) ==
    LET n == utf8_lentab(at(s, p))
    IN  IF at(s, p) = NUL THEN -1
        ELSE IF n = Len(c) /\ same(s, p, c, 0, n) THEN p ELSE utf8_findc(s, p + n, c)

RECURSIVE utf8_char_is_in(_, _, _, _)
utf8_char_is_in(s, p, set, q) ==
    LET n == utf8_lentab(at(set, q))
    IN  /\ at(set, q) # NUL
        /\ \/ utf8_lentab(at(s, p)) = n /\ same(s, p, set, q, n)
           \/ utf8_char_is_in(s, p, set, q + n)

RECURSIVE spanning(_, _, _, _)
spanning(s, p, set, in) ==
    IF at(s, p) = NUL \/ utf8_char_is_in(s, p, set, 0) # in THEN p
    ELSE spanning(s, p + utf8_lentab(at(s, p)), set, in)

utf8_span(s, accept)  == spanning(s, 0, accept, TRUE)
utf8_cspan(s, reject) == spanning(s, 0, reject, FALSE)

(* the place of character nchar, or -1; tc: the string ends before it *)
RECURSIVE utf8_skip_help(_, _, _, _)
utf8_skip_help(s, p, nchar, tc) ==
    LET clen == utf8_lentab(at(s, p))
    IN  IF nchar = 0 THEN p
        ELSE IF clen < 0 \/ (tc /\ at(s, p) = NUL) THEN -1
        ELSE utf8_skip_help(s, p + clen, nchar - 1, tc)

--------------------------------------------------------------------------
(* Conversions.  n is the answer, -1 or the length that all would need;    *)
(* out what was written, of at most dlen                                   *)

utf8_enc_len(v) == IF v < 128 THEN 1
                   ELSE IF v \div 2^26 > 0 THEN 6
                   ELSE CHOOSE n \in 2..5 : v < 2^(5*n + 1) /\ (n = 2 \/ v >= 2^(5*n - 4))

utf8_encode(v, n) ==
    IF n = 1 THEN <<v>>
    ELSE [i \in 1..n |-> LET bits == v \div 64^(n - i)
                         IN  IF i = 1 THEN Lead(n) + bits ELSE 128 + (bits % 64)]

RECURSIVE value(_, _, _, _)
value(s, p, i, v) == IF i = 0 THEN v ELSE value(s, p + 1, i - 1, 64 * v + (at(s, p) % 64))

decoded(s, p, n) ==
    IF n = 1 THEN at(s, p) ELSE value(s, p + 1, n - 1, at(s, p) % 2^(7 - n))

Failed == [n |-> -1, out |-> <<>>]

RECURSIVE utf8_to_utf32(_, _, _, _, _)
utf8_to_utf32(dlen, s, p, n, out) ==
    LET clen == utf8_validate_char(s, p, Len(s) - p)
    IN  IF p >= Len(s) THEN [n |-> n, out |-> out]
        ELSE IF clen < 0 THEN Failed
        ELSE utf8_to_utf32(dlen, s, p + clen, n + 1,
                           IF n < dlen THEN Append(out, decoded(s, p, clen)) ELSE out)

(* characters that need a pair of units are refused *)
RECURSIVE utf8_to_utf16(_, _, _, _, _)
utf8_to_utf16(dlen, s, p, n, out) ==
    LET clen == utf8_validate_char(s, p, Len(s) - p)
    IN  IF p >= Len(s) THEN [n |-> n, out |-> out]
        ELSE IF clen < 0 \/ clen > 3 THEN Failed
        ELSE utf8_to_utf16(dlen, s, p + clen, n + 1,
                           IF n < dlen THEN Append(out, decoded(s, p, clen)) ELSE out)

(* a character without room is left out, and later ones may still be in *)
sent(dlen, v, r) ==
    LET e == utf8_enc_len(v)
    IN  [n |-> r.n + e,
         out |-> IF dlen - Len(r.out) >= e THEN r.out \o utf8_encode(v, e) ELSE r.out]

RECURSIVE utf32_to_utf8(_, _, _)
utf32_to_utf8(dlen, src, r) ==
    IF src = <<>> THEN r ELSE utf32_to_utf8(dlen, Tail(src), sent(dlen, Head(src), r))

(* the two units of a pair make 20 bits, to which nothing is added: pairs  *)
(* are not offered                                                         *)
RECURSIVE utf16_to_utf8(_, _, _)
utf16_to_utf8(dlen, src, r) ==
    IF src = <<>> THEN r
    ELSE IF Head(src) \in 56320..57343 THEN Failed
    ELSE IF Head(src) \in 55296..56319 THEN Failed     \* nothing that fits follows
    ELSE utf16_to_utf8(dlen, Tail(src), sent(dlen, Head(src), r))
==============================================================================
