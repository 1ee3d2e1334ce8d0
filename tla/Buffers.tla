------------------------------ MODULE Buffers ------------------------------
(***************************************************************************)
(* Byte storage: the ring buffer with its bytes (src/ring.c, ring_fmt of   *)
(* src/stduse.c), growing arrays (src/grow.c), the dynamic buffer          *)
(* (src/buffer.c), the array memory manager (src/mem.c) and bit sets       *)
(* (include/cat/bitset.h, sbs_* of src/stduse.c).  A byte is a number; 0   *)
(* stands for one never written.  Addresses are indices from 0.            *)
(***************************************************************************)
EXTENDS Ring, Sequences

CONSTANTS SizeMax,      \* ~(size_t)0 and (ulong)-1
          MinGrow,      \* CAT_MINGROW
          Bits          \* CAT_UINT_BIT

wrap(x) == x % (SizeMax + 1)

(* mem with the bytes written from index at on *)
written(mem, at, bytes) ==
    [i \in DOMAIN mem |-> IF i - at + 1 \in DOMAIN bytes THEN bytes[i - at + 1] ELSE mem[i]]

(* realloc: n bytes, those there kept *)
resized(mem, n) == [i \in 0..n-1 |-> IF i \in DOMAIN mem THEN mem[i] ELSE 0]

(* memmove(to, from, n) *)
moved(mem, to, from, n) == written(mem, to, [k \in 1..n |-> mem[from + k - 1]])

--------------------------------------------------------------------------
(* The ring with its bytes *)

ring_reset(r) == [r EXCEPT !.start = 0, !.len = 0]

(* the first n bytes, as ring_get copies them out *)
copied(r, n) == [k \in 1..n |-> r.data[index(r, k - 1)]]

(* the bytes at last, in two pieces if they pass the end *)
laid(r, last, in) ==
    LET toend == r.alloc - last
        cut   == IF last >= r.start /\ toend < Len(in) THEN toend ELSE Len(in)
    IN  written(written(r.data, last, SubSeq(in, 1, cut)), 0, SubSeq(in, cut + 1, Len(in)))

(* ring_put of the bytes that are taken.  Where in fills the whole ring    *)
(* while bytes are there, an assertion stops the program                   *)
CanPut(r, in) == Len(in) > ring_avail(r) => Len(in) # r.alloc

put(r, in) ==
    LET ovfl  == Len(in) - ring_avail(r)
        start == IF ovfl <= 0 THEN r.start
                 ELSE IF r.start < r.alloc - ovfl THEN r.start + ovfl
                 ELSE ovfl - (r.alloc - r.start)
        u     == [r EXCEPT !.start = start]
    IN  IF Len(in) > r.alloc
        THEN [r EXCEPT !.start = 0, !.len = r.alloc,
                !.data = written(@, 0, SubSeq(in, Len(in) - r.alloc + 1, Len(in)))]
        ELSE [u EXCEPT !.data = laid(u, ring_last(r), in),
                       !.len = least(r.alloc, r.len + Len(in))]

ring_put_bytes(r, in, overwrite) ==
    LET n == IF overwrite THEN Len(in) ELSE least(Len(in), ring_avail(r))
    IN  [r |-> put(r, SubSeq(in, 1, n)), n |-> n]

ring_get_bytes(r, n) ==
    [r |-> ring_get(r, n), out |-> copied(r, least(n, r.len))]

--------------------------------------------------------------------------
(* Growing arrays.  agrow answers the new length, len itself where nothing *)
(* is to be done, or -1.                                                   *)

RECURSIVE doubled(_, _, _)
doubled(n, min, max) ==
    IF n >= min THEN n
    ELSE doubled(IF wrap(2 * n) < n \/ wrap(2 * n) > max THEN max ELSE 2 * n, min, max)

agrow(ilen, len, min, got) ==
    LET max   == SizeMax \div ilen
        ask   == IF min = 0 /\ len < max THEN len + 1 ELSE min
        start == IF len > 0 THEN len
                 ELSE IF MinGrow \div ilen = 0 THEN 1 ELSE MinGrow \div ilen
    IN  IF ask > max THEN -1
        ELSE IF ask <= len THEN len
        ELSE IF got THEN doubled(start, ask, max) ELSE -1

grow(len, min, got) == agrow(1, len, min, got)

(* room for n bytes; the caller writes them at the index answered, which   *)
(* is Ended where the program ends for a request too large.  A ring that   *)
(* is not at the start of its memory is moved there as if its bytes lay in *)
(* one piece, and where there is room the index is len, wherever it starts *)
Ended == -1
ring_alloc(r, n) ==
    LET last   == ring_last(r)
        front  == [r EXCEPT !.data = moved(@, 0, r.start, r.len), !.start = 0]
        size   == grow(r.alloc, r.len + n, TRUE)
        big    == [r EXCEPT !.alloc = size, !.data = resized(@, size)]
        tail   == r.start + size - r.alloc
        apart  == [big EXCEPT !.start = tail,
                     !.data = moved(@, tail, r.start, r.alloc - r.start)]
        atzero == [big EXCEPT !.start = 0, !.data = moved(@, 0, r.start, r.len)]
    IN  IF n > SizeMax - r.len THEN [r |-> r, at |-> Ended]
        ELSE IF ring_avail(r) >= n
        THEN [r |-> IF n > r.alloc - last THEN front ELSE r, at |-> r.len]
        ELSE IF last < r.start THEN [r |-> apart, at |-> last]
        ELSE IF n > size - last THEN [r |-> atzero, at |-> r.len]
        ELSE [r |-> big, at |-> last]

(* ring_fmt of a text: vsnprintf writes what fits in a bytes and answers   *)
(* the text's length, and the text is written again where that was more    *)
RECURSIVE formatted(_, _, _)
formatted(r, a, text) ==
    LET m    == ring_alloc(r, a)
        fits == IF a = 0 THEN <<>> ELSE SubSeq(text, 1, least(a - 1, Len(text)))
        u    == [m.r EXCEPT !.data = written(@, m.at, fits)]
    IN  IF Len(text) > a THEN formatted(u, Len(text), text)
        ELSE [u EXCEPT !.len = @ + Len(text)]

ring_fmt(r, text) == formatted(r, ring_avail(r), text)

--------------------------------------------------------------------------
(* The dynamic buffer: [size, data, off, len], data has size bytes.  ok is *)
(* the result 0; got: a resize has memory                                  *)

dyb_sanity(b) == b.off <= b.size /\ b.len <= b.size - b.off /\ DOMAIN b.data = 0..b.size-1

dyb_init == [size |-> 0, data |-> [i \in 0..-1 |-> 0], off |-> 0, len |-> 0]

dyb_resv(b, sz, got) ==
    LET n == IF b.size < SizeMax \div 2 /\ sz < 2 * b.size THEN 2 * b.size ELSE sz
    IN  IF sz <= b.size THEN [ok |-> TRUE, b |-> b]
        ELSE IF got THEN [ok |-> TRUE, b |-> [b EXCEPT !.size = n, !.data = resized(@, n)]]
        ELSE [ok |-> FALSE, b |-> b]

(* clear frees the memory, release hands it to the caller *)
dyb_clear(b)   == dyb_init
dyb_release(b) == [b |-> dyb_init, p |-> b.data]
dyb_empty(b)   == [b EXCEPT !.len = 0, !.off = 0]

bytes(b) == [k \in 1..b.len |-> b.data[b.off + k - 1]]

appended(b, p) == [b EXCEPT !.data = written(@, b.off + b.len, p), !.len = @ + Len(p)]
replaced(b, off, p) == [b EXCEPT !.off = off, !.len = Len(p), !.data = written(@, off, p)]

dyb_cat(b, p) ==
    IF b.size - b.off - b.len < Len(p) THEN [ok |-> FALSE, b |-> b]
    ELSE [ok |-> TRUE, b |-> appended(b, p)]

dyb_cat_a(b, p, got) ==
    LET need == b.off + b.len + Len(p)
        r    == dyb_resv(b, need, got)
    IN  IF need <= b.size THEN [ok |-> TRUE, b |-> appended(b, p)]
        ELSE IF need > SizeMax \/ ~r.ok THEN [ok |-> FALSE, b |-> b]
        ELSE [ok |-> TRUE, b |-> appended(r.b, p)]

dyb_set(b, off, p) ==
    IF b.size < off \/ b.size - off < Len(p) THEN [ok |-> FALSE, b |-> b]
    ELSE [ok |-> TRUE, b |-> replaced(b, off, p)]

(* refuses every offset and length that do NOT reach the end of ulong, and *)
(* none that goes past it                                                  *)
dyb_set_a(b, off, p, got) ==
    LET tlen == wrap(off + Len(p))
        r    == dyb_resv(b, tlen, got)
    IN  IF SizeMax - off > Len(p) \/ ~r.ok THEN [ok |-> FALSE, b |-> b]
        ELSE [ok |-> TRUE, b |-> replaced(r.b, off, p)]

(* makes no room in db: db must have it *)
dyb_copy(db, sb) ==
    [db EXCEPT !.off = sb.off, !.len = sb.len, !.data = written(@, sb.off, bytes(sb))]

--------------------------------------------------------------------------
(* The array memory manager: units of 2^alignp2 = unit bytes taken from    *)
(* the bottom up or from the top down.  Nothing is ever given back alone   *)

amm_init(size, unit, hi2lo) ==
    [fill |-> 0, unit |-> unit, mlen |-> size \div unit, hi2lo |-> hi2lo,
     mem |-> IF hi2lo THEN (size \div unit) * unit ELSE 0]

amm_reset(a) == [a EXCEPT !.fill = 0]

amm_get_fill(a)  == a.fill * a.unit
amm_get_avail(a) == (a.mlen - a.fill) * a.unit

units(a, len) == wrap(len + a.unit - 1) \div a.unit

(* p is the address, -1 for NULL *)
amm_get_lo2hi(a, len) ==
    IF units(a, len) > a.mlen - a.fill THEN [a |-> a, p |-> -1]
    ELSE [a |-> [a EXCEPT !.fill = @ + units(a, len)], p |-> a.mem + a.fill * a.unit]

amm_get_hi2lo(a, len) ==
    LET fill == a.fill + units(a, len)
    IN  IF units(a, len) > a.mlen - a.fill THEN [a |-> a, p |-> -1]
        ELSE [a |-> [a EXCEPT !.fill = fill], p |-> a.mem - fill * a.unit]

mem_get(a, len) == IF a.hi2lo THEN amm_get_hi2lo(a, len) ELSE amm_get_lo2hi(a, len)

--------------------------------------------------------------------------
(* Bit sets: [nbits, set], set is an array of words, each the set of the   *)
(* bits that are one in it                                                 *)

bset_len(nbits) == (nbits + Bits - 1) \div Bits

words(nbits, w) == [nbits |-> nbits, set |-> [i \in 0..bset_len(nbits)-1 |-> w]]

bset_zero(nbits) == words(nbits, {})
bset_fill(nbits) == words(nbits, 0..Bits-1)

bset_test(b, i) == (i % Bits) \in b.set[i \div Bits]
bset_set(b, i)  == [b EXCEPT !.set[i \div Bits] = @ \cup {i % Bits}]
bset_clr(b, i)  == [b EXCEPT !.set[i \div Bits] = @ \ {i % Bits}]
bset_flip(b, i) == IF bset_test(b, i) THEN bset_clr(b, i) ELSE bset_set(b, i)

bset_set_to(b, i, val) == IF val THEN bset_set(b, i) ELSE bset_clr(b, i)

(* the indices that sbs_set and the others take: one more than there are *)
sbs_takes(b) == 0..b.nbits

(* whole words but the last one, which is copied bit by bit *)
RECURSIVE bits_from(_, _, _, _)
bits_from(dst, src, i, nbits) ==
    IF i >= nbits THEN dst
    ELSE bits_from(bset_set_to(dst, i, bset_test(src, i)), src, i + 1, nbits)

bset_copy(dst, src, nbits) ==
    LET whole == bset_len(nbits) - 1
        u == [dst EXCEPT !.set = [i \in DOMAIN @ |-> IF i < whole THEN src.set[i] ELSE @[i]]]
    IN  IF nbits = 0 THEN dst ELSE bits_from(u, src, whole * Bits, nbits)

sbs_copy(dst, src) == bset_copy(dst, src, least(dst.nbits, src.nbits))
============================================================================
