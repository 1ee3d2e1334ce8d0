--------------------------- MODULE NetPipeProofs ---------------------------
(***************************************************************************)
(* Proofs about NetPipe, for rings of any size and streams of any length.  *)
(***************************************************************************)
EXTENDS NetPipe, SequenceTheorems, TLAPS

Rings == [alloc : {Bsiz}, data : [0 .. (Bsiz - 1) -> Nat],
          start : 0 .. (Bsiz - 1), len : 0 .. Bsiz]

\* The fields of a ring are numbers in their ranges.
LEMMA RingFields ==
  ASSUME NEW r \in Rings
  PROVE  /\ Bsiz \in Nat /\ Bsiz > 0
         /\ r.alloc = Bsiz
         /\ r.start \in Nat /\ r.start < Bsiz
         /\ r.len \in Nat /\ r.len <= Bsiz
         /\ r.data \in [0 .. (Bsiz - 1) -> Nat]
BY PipeAssumption DEF Rings

\* ring_last is an index, and what a reader asks for is free and in one piece.
LEMMA LastIsIndex ==
  ASSUME NEW r \in Rings
  PROVE  /\ ring_last(r) \in 0 .. (Bsiz - 1)
         /\ readable(r) \in 0 .. (Bsiz - r.len)
         /\ ring_last(r) + readable(r) <= Bsiz
         /\ r.len < Bsiz => readable(r) > 0
<1>1. /\ Bsiz \in Nat /\ Bsiz > 0 /\ r.alloc = Bsiz
      /\ r.start \in Nat /\ r.start < Bsiz /\ r.len \in Nat /\ r.len <= Bsiz
  BY RingFields
<1>2. /\ ring_last(r) \in Nat /\ ring_last(r) < Bsiz
  BY <1>1 DEF ring_last
<1>3. readable(r) = IF Bsiz - ring_last(r) <= Bsiz - r.len
                    THEN Bsiz - ring_last(r) ELSE Bsiz - r.len
  BY <1>1 DEF readable, least, ring_avail
<1> QED
  BY <1>1, <1>2, <1>3

\* Where an index lands that may have passed the end of the data.
wrap(x) == IF x < Bsiz THEN x ELSE x - Bsiz

LEMMA IndexWraps ==
  ASSUME NEW r \in Rings
  PROVE  /\ ring_last(r) = wrap(r.start + r.len)
         /\ \A k \in Nat : index(r, k) = wrap(r.start + k)
<1>1. /\ Bsiz \in Nat /\ r.alloc = Bsiz /\ r.start \in Nat /\ r.len \in Nat
  BY RingFields
<1> QED
  BY <1>1 DEF ring_last, index, wrap

\* A start moved by n is the index of the byte n.
LEMMA WrapMoved ==
  ASSUME NEW st \in Nat, NEW n \in Nat, NEW k \in Nat, Bsiz \in Nat,
         st < Bsiz, n <= Bsiz - st, k + n < Bsiz
  PROVE  wrap(wrap(st + n) + k) = wrap(st + (k + n))
BY DEF wrap

\* A read leaves the bytes in the ring where they are, and puts the new ones behind.
LEMMA ReadExtends ==
  ASSUME NEW r \in Rings, NEW n \in 1 .. readable(r), NEW b \in Nat
  PROVE  LET q == ring_put(stored(r, n, b), n) IN
         /\ q \in Rings
         /\ q.len = r.len + n
         /\ \A k \in 0 .. (r.len - 1) : q.data[index(q, k)] = r.data[index(r, k)]
         /\ \A k \in r.len .. (q.len - 1) : q.data[index(q, k)] = b + (k - r.len)
<1> DEFINE s == stored(r, n, b)
           q == ring_put(s, n)
           l == ring_last(r)
           d == [i \in 0 .. (Bsiz - 1) |->
                   IF l <= i /\ i < l + n THEN b + (i - l) ELSE r.data[i]]
<1>1. /\ Bsiz \in Nat /\ r.alloc = Bsiz /\ r.data \in [0 .. (Bsiz - 1) -> Nat]
  BY RingFields
<1>2. PICK st \in Nat, len \in Nat : st = r.start /\ len = r.len /\ st < Bsiz /\ len <= Bsiz
  BY RingFields
<1>3. l \in Nat /\ l = wrap(st + len) /\ n \in Nat /\ 1 <= n /\ n <= Bsiz - len /\ l + n <= Bsiz
  <2>1. /\ l \in 0 .. (Bsiz - 1) /\ readable(r) \in 0 .. (Bsiz - len)
        /\ l + readable(r) <= Bsiz /\ l = wrap(st + len)
    BY LastIsIndex, IndexWraps, <1>2
  <2> HIDE DEF l
  <2>2. n \in Nat /\ 1 <= n /\ n <= readable(r) /\ readable(r) \in Nat
    BY <2>1, <1>1, <1>2
  <2>3. readable(r) <= Bsiz - len /\ l \in Nat
    BY <2>1, <1>1, <1>2
  <2> QED
    BY <2>1, <2>2, <2>3, <1>1, <1>2, SMTT(30)
<1>4. s = [r EXCEPT !.data = d]
  BY <1>1 DEF stored
<1> HIDE DEF l, s
<1>5. d \in [0 .. (Bsiz - 1) -> Nat]
  BY <1>1, <1>3
<1> HIDE DEF d
<1>6. s.len = len /\ s.start = st /\ s.alloc = Bsiz /\ s.data = d
  BY <1>1, <1>2, <1>4 DEF Rings
<1>7. q = [s EXCEPT !.len = len + n]
  BY <1>1, <1>2, <1>3, <1>6 DEF ring_put, ring_avail, least
<1>8. s \in Rings
  BY <1>4, <1>5 DEF Rings
<1>9. len + n \in 0 .. Bsiz
  <2>1. /\ Bsiz \in Nat /\ len \in Nat /\ n \in Nat /\ n <= Bsiz - len
    BY <1>1, <1>2, <1>3
  <2> QED
    BY <2>1, SMTT(30)
<1> HIDE DEF q
<1>10. q \in Rings /\ q.len = len + n /\ q.start = st /\ q.data = d
  BY <1>6, <1>7, <1>8, <1>9 DEF Rings
<1>11. ASSUME NEW k \in Nat, k < len + n
       PROVE  /\ index(q, k) = wrap(st + k) /\ index(r, k) = wrap(st + k)
              /\ wrap(st + k) \in 0 .. (Bsiz - 1)
              /\ k < len => ~(l <= wrap(st + k) /\ wrap(st + k) < l + n)
              /\ len <= k => wrap(st + k) = l + (k - len)
  <2>1. index(q, k) = wrap(st + k) /\ index(r, k) = wrap(st + k)
    BY <1>2, <1>10, <1>11, IndexWraps
  <2>2. /\ wrap(st + k) \in 0 .. (Bsiz - 1)
        /\ k < len => ~(wrap(st + len) <= wrap(st + k) /\ wrap(st + k) < wrap(st + len) + n)
        /\ len <= k => wrap(st + k) = wrap(st + len) + (k - len)
    <3>1. wrap(st + len) + n <= Bsiz
      BY <1>3
    <3>2. /\ st \in Nat /\ len \in Nat /\ n \in Nat /\ k \in Nat /\ Bsiz \in Nat
          /\ st < Bsiz /\ len <= Bsiz /\ 1 <= n /\ n <= Bsiz - len /\ k < len + n
      BY <1>1, <1>2, <1>3, <1>11
    <3>3. wrap(st + k) \in 0 .. (Bsiz - 1)
      BY <3>2 DEF wrap
    <3>4. k < len => ~(wrap(st + len) <= wrap(st + k) /\ wrap(st + k) < wrap(st + len) + n)
      BY <3>1, <3>2 DEF wrap
    <3>5. len <= k => wrap(st + k) = wrap(st + len) + (k - len)
      BY <3>1, <3>2 DEF wrap
    <3> QED
      BY <3>3, <3>4, <3>5
  <2> QED
    BY <2>1, <2>2, <1>3
<1>12. ASSUME NEW k \in 0 .. (len - 1)
       PROVE  q.data[index(q, k)] = r.data[index(r, k)]
  <2>1. k \in Nat /\ k < len /\ k < len + n
    BY <1>2, <1>3
  <2> QED
    BY <2>1, <1>10, <1>11 DEF d
<1>13. ASSUME NEW k \in len .. (len + n - 1)
       PROVE  q.data[index(q, k)] = b + (k - len)
  <2>1. k \in Nat /\ len <= k /\ k < len + n
    BY <1>2, <1>3
  <2>2. PICK j \in Nat : j = k - len /\ j < n /\ index(q, k) = l + j /\ l + j \in 0 .. (Bsiz - 1)
    BY <2>1, <1>2, <1>3, <1>11
  <2>3. d[l + j] = b + ((l + j) - l)
    BY <2>2, <1>3 DEF d
  <2> QED
    BY <2>2, <2>3, <1>3, <1>10
<1> QED
  BY <1>2, <1>10, <1>12, <1>13 DEF q, s

\* What a writer offers are the first bytes, in one piece; a get takes them out.
LEMMA GetDrops ==
  ASSUME NEW r \in Rings, NEW n \in 1 .. writable(r)
  PROVE  LET q == ring_get(r, n) IN
         /\ q \in Rings
         /\ q.len = r.len - n /\ n <= r.len
         /\ \A k \in 0 .. (q.len - 1) : q.data[index(q, k)] = r.data[index(r, k + n)]
         /\ \A i \in 1 .. n : r.start + i - 1 = index(r, i - 1)
<1> DEFINE q == ring_get(r, n)
<1>1. /\ Bsiz \in Nat /\ Bsiz > 0 /\ r.alloc = Bsiz
  BY RingFields
<1>2. PICK st \in Nat, len \in Nat : st = r.start /\ len = r.len /\ st < Bsiz /\ len <= Bsiz
  BY RingFields
<1>3. writable(r) = IF Bsiz - st <= len THEN Bsiz - st ELSE len
  BY <1>1, <1>2 DEF writable, least
<1>4. n \in Nat /\ 1 <= n /\ n <= len /\ n <= Bsiz - st
  BY <1>1, <1>2, <1>3
<1> DEFINE to == IF len = n THEN 0 ELSE wrap(st + n)
<1>5. to \in 0 .. (Bsiz - 1) /\ len - n \in 0 .. Bsiz
  BY <1>1, <1>2, <1>4 DEF wrap
<1>6. least(n, r.len) = n /\ r.alloc - r.start = Bsiz - st
  BY <1>1, <1>2, <1>4 DEF least
<1>7. q = [r EXCEPT !.len = len - n, !.start = to]
  <2>1. (IF Bsiz - st < n THEN n - (Bsiz - st) ELSE IF Bsiz - st = n THEN 0 ELSE st + n)
          = wrap(st + n)
    BY <1>1, <1>2, <1>4 DEF wrap
  <2> QED
    BY <2>1, <1>2, <1>6 DEF ring_get
<1> HIDE DEF q, to
<1>8. q \in Rings /\ q.len = len - n /\ q.start = to /\ q.data = r.data
  BY <1>5, <1>7 DEF Rings
<1>9. ASSUME NEW k \in 0 .. (len - n - 1)
      PROVE  q.data[index(q, k)] = r.data[index(r, k + n)]
  <2>1. k \in Nat /\ k + n \in Nat /\ k + n < Bsiz /\ len # n
    BY <1>1, <1>2, <1>4
  <2>2. index(q, k) = wrap(wrap(st + n) + k) /\ index(r, k + n) = wrap(st + (k + n))
    BY <2>1, <1>2, <1>8, IndexWraps DEF to
  <2> QED
    BY <2>1, <2>2, <1>1, <1>2, <1>4, <1>8, WrapMoved
<1>10. ASSUME NEW i \in 1 .. n
       PROVE  st + i - 1 = index(r, i - 1)
  <2>1. i - 1 \in Nat /\ st + (i - 1) < Bsiz /\ st + i - 1 = st + (i - 1)
    BY <1>1, <1>2, <1>4
  <2> QED
    BY <2>1, <1>2, IndexWraps DEF wrap
<1> QED
  BY <1>2, <1>4, <1>8, <1>9, <1>10 DEF q

-----------------------------------------------------------------------------
(* The invariant.  That whoever can go on is registered rests on the callbacks  *)
(* finding the rings as the registrations say: Inv is inductive as a whole.     *)

Typed ==
  /\ ring \in [Dir -> Rings]
  /\ rdone \in [Dir -> BOOLEAN] /\ wdone \in [Dir -> BOOLEAN]
  /\ got \in [Dir -> Nat] /\ out \in [Dir -> Seq(Nat)]
  /\ \A d \in Dir : got[d] <= Total[d]
  /\ reg \subseteq Event /\ todo \subseteq reg

Inv == Typed /\ InOrder /\ NoneForgotten /\ EndIsTheEnd

\* The four events are different, and each belongs to one direction.
LEMMA EventsDiffer ==
  /\ \A c, d \in Dir : Reader(c) # Writer(d)
  /\ \A c, d \in Dir : Reader(c) = Reader(d) => c = d
  /\ \A c, d \in Dir : Writer(c) = Writer(d) => c = d
  /\ \A e \in Event : \E d \in Dir : e = Reader(d) \/ e = Writer(d)
BY DEF Reader, Writer, Event

LEMMA InitEstablishes == Init => Inv
<1> SUFFICES ASSUME Init PROVE Inv
  OBVIOUS
<1>1. ring_init(Bsiz) \in Rings /\ ring_init(Bsiz).len = 0 /\ ring_init(Bsiz).alloc = Bsiz
  BY PipeAssumption DEF ring_init, Rings
<1>2. \A d \in Dir : Total[d] \in Nat /\ 0 <= Total[d]
  BY PipeAssumption
<1>3. Typed
  BY <1>1, <1>2 DEF Init, Typed, Event
<1>4. InOrder
  BY <1>1 DEF Init, InOrder
<1>5. NoneForgotten
  <2>1. \A d \in Dir : Reader(d) \in reg /\ Writer(d) \notin reg
    BY EventsDiffer DEF Init
  <2>2. \A d \in Dir : ring_avail(ring[d]) > 0 /\ ~(ring[d].len > 0) /\ ~rdone[d]
    BY <1>1, PipeAssumption DEF Init, ring_avail
  <2> QED
    BY <2>1, <2>2 DEF NoneForgotten
<1> QED
  BY <1>3, <1>4, <1>5 DEF Init, Inv, EndIsTheEnd

LEMMA ReadKeeps ==
  ASSUME Inv, NEW d \in Dir, Read(d)
  PROVE  Inv'
<1> DEFINE e == Reader(d)
           r == ring[d]
<1> USE DEF Inv
<1>1. /\ r \in Rings /\ e \in reg /\ e \in Event
      /\ got \in [Dir -> Nat] /\ got[d] \in Nat /\ Total[d] \in Nat
      /\ rdone \in [Dir -> BOOLEAN] /\ ring \in [Dir -> Rings]
  BY PipeAssumption DEF Read, Typed
<1>2. r.alloc = Bsiz /\ r.len \in Nat /\ r.len <= Bsiz /\ Bsiz \in Nat
  BY <1>1, RingFields
<1>3. ring_avail(r) > 0 /\ ~rdone[d] /\ r.len < Bsiz
  BY <1>1, <1>2 DEF NoneForgotten, ring_avail
<1>4. readable(r) \in Nat /\ readable(r) > 0 /\ readable(r) # 0
  BY <1>1, <1>2, <1>3, LastIsIndex
<1>5. /\ todo' = todo \ {e} /\ wdone' = wdone /\ out' = out
  BY DEF Read, Visited
<1>6. CASE /\ got[d] = Total[d]
           /\ rdone' = [rdone EXCEPT ![d] = TRUE]
           /\ Switch(e, TRUE, {})
           /\ ring' = ring /\ got' = got
  <2>1. reg' = reg \ {e}
    BY <1>6 DEF Switch
  <2>2. Typed'
    BY <1>1, <1>5, <1>6, <2>1 DEF Typed
  <2>3. InOrder'
    BY <1>5, <1>6 DEF InOrder
  <2>4. NoneForgotten'
    BY <1>1, <1>6, <2>1, EventsDiffer DEF NoneForgotten
  <2>5. EndIsTheEnd'
    BY <1>1, <1>5, <1>6 DEF EndIsTheEnd
  <2> QED
    BY <2>2, <2>3, <2>4, <2>5
<1>7. ASSUME NEW n \in 1 .. least(readable(r), Total[d] - got[d]),
             ring' = [ring EXCEPT ![d] = ring_put(stored(r, n, got[d] + 1), n)],
             got' = [got EXCEPT ![d] = @ + n],
             Switch(e, full(ring'[d]), woken_writer(d)),
             rdone' = rdone
      PROVE  Inv'
  <2> DEFINE q == ring_put(stored(r, n, got[d] + 1), n)
  <2>1. n \in 1 .. readable(r) /\ got[d] + n \in Nat /\ got[d] + n <= Total[d]
    BY <1>1, <1>4 DEF least
  <2>2. /\ q \in Rings /\ q.len = r.len + n
        /\ \A k \in 0 .. (r.len - 1) : q.data[index(q, k)] = r.data[index(r, k)]
        /\ \A k \in r.len .. (q.len - 1) : q.data[index(q, k)] = (got[d] + 1) + (k - r.len)
    BY <1>1, <2>1, ReadExtends
  <2>3. ring'[d] = q /\ \A c \in Dir \ {d} : ring'[c] = ring[c]
    BY <1>1, <1>7
  <2>4. got'[d] = got[d] + n /\ \A c \in Dir \ {d} : got'[c] = got[c]
    BY <1>1, <1>7
  <2> HIDE DEF q
  <2>5. ring' \in [Dir -> Rings] /\ got' \in [Dir -> Nat]
    BY <1>1, <1>7, <2>1, <2>2 DEF q
  <2>6. reg' = (IF full(q) THEN reg \ {e} ELSE reg) \cup woken_writer(d)
    BY <1>7, <2>3 DEF Switch
  <2>7. q.alloc = Bsiz /\ q.len \in Nat /\ q.len > 0
    BY <2>1, <2>2, <1>2, RingFields
  <2>8. ~wdone[d]
    BY DEF EndIsTheEnd
  <2>9. Writer(d) \in reg' /\ (Reader(d) \in reg' <=> ~full(q))
        /\ \A c \in Dir \ {d} : /\ Reader(c) \in reg' <=> Reader(c) \in reg
                                /\ Writer(c) \in reg' <=> Writer(c) \in reg
    BY <1>1, <1>2, <2>6, <2>8, EventsDiffer DEF woken_writer, NoneForgotten
  <2>10. Typed'
    <3>1. reg' \subseteq Event /\ todo' \subseteq reg'
      BY <1>5, <2>6 DEF Typed, woken_writer, Event
    <3>2. \A c \in Dir : got'[c] <= Total[c]
      BY <2>1, <2>4 DEF Typed
    <3> QED
      BY <3>1, <3>2, <1>5, <1>7, <2>5 DEF Typed
  <2>11. NoneForgotten'
    <3>1. full(q) <=> ~(ring_avail(q) > 0)
      BY <2>2, <2>7, RingFields DEF full, ring_avail
    <3>2. /\ Reader(d) \in reg' <=> ring_avail(ring'[d]) > 0 /\ ~rdone'[d]
          /\ Writer(d) \in reg' <=> ring'[d].len > 0
      BY <1>3, <1>7, <2>3, <2>7, <2>9, <3>1
    <3>3. ASSUME NEW c \in Dir \ {d}
          PROVE  /\ Reader(c) \in reg' <=> ring_avail(ring'[c]) > 0 /\ ~rdone'[c]
                 /\ Writer(c) \in reg' <=> ring'[c].len > 0
      <4>1. ring'[c] = ring[c] /\ rdone'[c] = rdone[c]
        BY <1>7, <2>3
      <4>2. /\ Reader(c) \in reg' <=> Reader(c) \in reg
            /\ Writer(c) \in reg' <=> Writer(c) \in reg
        BY <2>9
      <4>3. /\ Reader(c) \in reg <=> ring_avail(ring[c]) > 0 /\ ~rdone[c]
            /\ Writer(c) \in reg <=> ring[c].len > 0
        BY DEF NoneForgotten
      <4> QED
        BY <4>1, <4>2, <4>3
    <3>4. \A c \in Dir : /\ Reader(c) \in reg' <=> ring_avail(ring'[c]) > 0 /\ ~rdone'[c]
                         /\ Writer(c) \in reg' <=> ring'[c].len > 0
      BY <3>2, <3>3
    <3> QED
      BY <3>4 DEF NoneForgotten, ring_avail
  <2>12. EndIsTheEnd'
    BY <1>3, <1>5, <1>7, <2>4 DEF EndIsTheEnd
  <2>13. InOrder'
    <3>1. Len(out[d]) \in Nat /\ Len(out[d]) + r.len = got[d]
      BY DEF InOrder, Typed
    <3>2. Len(out[d]) + q.len = got[d] + n
      BY <3>1, <1>1, <1>2, <2>1, <2>2
    <3>3. ASSUME NEW k \in 0 .. (q.len - 1)
          PROVE  q.data[index(q, k)] = Len(out[d]) + k + 1
      <4>1. CASE k \in 0 .. (r.len - 1)
        BY <4>1, <2>2 DEF InOrder
      <4>2. CASE k \in r.len .. (q.len - 1)
        BY <4>2, <2>2, <3>1, <1>2
      <4> QED
        BY <4>1, <4>2, <1>2, <2>7
    <3> QED
      BY <3>2, <3>3, <1>5, <2>3, <2>4 DEF InOrder
  <2> QED
    BY <2>10, <2>11, <2>12, <2>13
<1>8. \/ /\ got[d] = Total[d]
         /\ rdone' = [rdone EXCEPT ![d] = TRUE]
         /\ Switch(e, TRUE, {})
         /\ ring' = ring /\ got' = got
      \/ \E n \in 1 .. least(readable(r), Total[d] - got[d]) :
           /\ ring' = [ring EXCEPT ![d] = ring_put(stored(r, n, got[d] + 1), n)]
           /\ got' = [got EXCEPT ![d] = @ + n]
           /\ Switch(e, full(ring'[d]), woken_writer(d))
           /\ rdone' = rdone
  BY <1>4 DEF Read
<1> QED
  BY <1>6, <1>7, <1>8

LEMMA WriteKeeps ==
  ASSUME Inv, NEW d \in Dir, Write(d)
  PROVE  Inv'
<1> DEFINE e == Writer(d)
           r == ring[d]
<1> USE DEF Inv
<1>1. /\ r \in Rings /\ e \in reg /\ e \in Event
      /\ out \in [Dir -> Seq(Nat)] /\ out[d] \in Seq(Nat) /\ Len(out[d]) \in Nat
      /\ ring \in [Dir -> Rings]
  BY DEF Write, Typed
<1>2. r.alloc = Bsiz /\ r.len \in Nat /\ r.len <= Bsiz /\ Bsiz \in Nat
      /\ r.start \in Nat /\ r.start < Bsiz /\ r.data \in [0 .. (Bsiz - 1) -> Nat]
  BY <1>1, RingFields
<1>3. r.len > 0
  BY <1>1 DEF NoneForgotten
<1>4. writable(r) # 0
  BY <1>2, <1>3 DEF writable, least
<1>5. /\ todo' = todo \ {e} /\ rdone' = rdone /\ got' = got
  BY DEF Write, Visited
<1>6. ASSUME NEW n \in 1 .. writable(r),
             out' = [out EXCEPT ![d] = @ \o [i \in 1 .. n |-> r.data[r.start + i - 1]]],
             ring' = [ring EXCEPT ![d] = ring_get(r, n)],
             Switch(e, ring'[d].len = 0, woken_reader(d)),
             wdone' = wdone
      PROVE  Inv'
  <2> DEFINE q == ring_get(r, n)
             w == [i \in 1 .. n |-> r.data[r.start + i - 1]]
  <2>1. /\ q \in Rings /\ q.len = r.len - n /\ n <= r.len
        /\ \A k \in 0 .. (q.len - 1) : q.data[index(q, k)] = r.data[index(r, k + n)]
        /\ \A i \in 1 .. n : r.start + i - 1 = index(r, i - 1)
    BY <1>1, GetDrops
  <2>2. n \in Nat /\ 1 <= n
    BY <1>2, <2>1
  <2>3. ASSUME NEW i \in 1 .. n
        PROVE  w[i] = Len(out[d]) + i /\ w[i] \in Nat
    <3>1. i - 1 \in 0 .. (r.len - 1) /\ (i - 1) + 1 = i
      BY <1>2, <2>1, <2>2
    <3>2. r.data[index(r, i - 1)] = Len(out[d]) + (i - 1) + 1
      BY <3>1 DEF InOrder
    <3> QED
      BY <2>1, <3>1, <3>2, <1>1
  <2>4. w \in Seq(Nat) /\ Len(w) = n
    BY <2>2, <2>3
  <2>5. ring'[d] = q /\ \A c \in Dir \ {d} : ring'[c] = ring[c]
    BY <1>1, <1>6
  <2>6. out'[d] = out[d] \o w /\ \A c \in Dir \ {d} : out'[c] = out[c]
    BY <1>1, <1>6
  <2> HIDE DEF q, w
  <2>7. ring' \in [Dir -> Rings] /\ out' \in [Dir -> Seq(Nat)]
    BY <1>1, <1>6, <2>1, <2>4 DEF q, w
  <2>8. reg' = (IF q.len = 0 THEN reg \ {e} ELSE reg) \cup woken_reader(d)
    BY <1>6, <2>5 DEF Switch
  <2>9. q.alloc = Bsiz /\ q.len \in Nat /\ q.len < Bsiz
    BY <2>1, <2>2, <1>2, RingFields
  <2>10. /\ Writer(d) \in reg' <=> q.len # 0
         /\ Reader(d) \in reg' <=> ~rdone[d]
         /\ \A c \in Dir \ {d} : /\ Reader(c) \in reg' <=> Reader(c) \in reg
                                 /\ Writer(c) \in reg' <=> Writer(c) \in reg
    <3>1. full(r) <=> ~(ring_avail(r) > 0)
      BY <1>2 DEF full, ring_avail
    <3> QED
      BY <3>1, <1>1, <2>8, EventsDiffer DEF woken_reader, NoneForgotten
  <2>11. Typed'
    <3>1. reg' \subseteq Event /\ todo' \subseteq reg'
      BY <1>5, <2>8 DEF Typed, woken_reader, Event
    <3> QED
      BY <3>1, <1>5, <1>6, <2>7 DEF Typed
  <2>12. NoneForgotten'
    <3>1. ring_avail(q) > 0 /\ (q.len > 0 <=> q.len # 0)
      BY <2>9, <1>2 DEF ring_avail
    <3>2. /\ Reader(d) \in reg' <=> ring_avail(ring'[d]) > 0 /\ ~rdone'[d]
          /\ Writer(d) \in reg' <=> ring'[d].len > 0
      BY <1>5, <2>5, <2>10, <3>1
    <3>3. ASSUME NEW c \in Dir \ {d}
          PROVE  /\ Reader(c) \in reg' <=> ring_avail(ring'[c]) > 0 /\ ~rdone'[c]
                 /\ Writer(c) \in reg' <=> ring'[c].len > 0
      <4>1. ring'[c] = ring[c] /\ rdone'[c] = rdone[c]
        BY <1>5, <2>5
      <4>2. /\ Reader(c) \in reg' <=> Reader(c) \in reg
            /\ Writer(c) \in reg' <=> Writer(c) \in reg
        BY <2>10
      <4>3. /\ Reader(c) \in reg <=> ring_avail(ring[c]) > 0 /\ ~rdone[c]
            /\ Writer(c) \in reg <=> ring[c].len > 0
        BY DEF NoneForgotten
      <4> QED
        BY <4>1, <4>2, <4>3
    <3>4. \A c \in Dir : /\ Reader(c) \in reg' <=> ring_avail(ring'[c]) > 0 /\ ~rdone'[c]
                         /\ Writer(c) \in reg' <=> ring'[c].len > 0
      BY <3>2, <3>3
    <3> QED
      BY <3>4 DEF NoneForgotten, ring_avail
  <2>13. EndIsTheEnd'
    BY <1>5, <1>6 DEF EndIsTheEnd
  <2>14. InOrder'
    <3>1. /\ Len(out[d] \o w) = Len(out[d]) + n
          /\ \A i \in 1 .. Len(out[d]) : (out[d] \o w)[i] = out[d][i]
          /\ \A i \in 1 .. n : (out[d] \o w)[Len(out[d]) + i] = w[i]
      <4>1. /\ Len(out[d] \o w) = Len(out[d]) + n
            /\ \A i \in 1 .. Len(out[d]) + n :
                 (out[d] \o w)[i] = IF i <= Len(out[d]) THEN out[d][i] ELSE w[i - Len(out[d])]
        BY <1>1, <2>4, ConcatProperties
      <4>2. ASSUME NEW i \in 1 .. n
            PROVE  (out[d] \o w)[Len(out[d]) + i] = w[i]
        <5>1. /\ Len(out[d]) + i \in 1 .. Len(out[d]) + n /\ ~(Len(out[d]) + i <= Len(out[d]))
              /\ (Len(out[d]) + i) - Len(out[d]) = i
          BY <1>1, <2>2
        <5> QED
          BY <4>1, <5>1
      <4>3. ASSUME NEW i \in 1 .. Len(out[d])
            PROVE  (out[d] \o w)[i] = out[d][i]
        BY <1>1, <2>2, <4>1
      <4> QED
        BY <4>1, <4>2, <4>3
    <3>2. Len(out[d]) + r.len = got[d]
      BY DEF InOrder
    <3>3. Len(out[d] \o w) + q.len = got[d]
      BY <1>1, <1>2, <2>1, <2>2, <3>1, <3>2
    <3>4. ASSUME NEW i \in 1 .. (Len(out[d]) + n)
          PROVE  (out[d] \o w)[i] = i
      <4>1. CASE i \in 1 .. Len(out[d])
        BY <4>1, <1>1, <3>1 DEF InOrder
      <4>2. CASE i \notin 1 .. Len(out[d])
        <5>1. PICK j \in 1 .. n : i = Len(out[d]) + j
          <6>1. i - Len(out[d]) \in 1 .. n /\ i = Len(out[d]) + (i - Len(out[d]))
            BY <4>2, <1>1, <2>2
          <6> QED
            BY <6>1
        <5> QED
          BY <5>1, <2>3, <3>1
      <4> QED
        BY <4>1, <4>2
    <3>5. ASSUME NEW k \in 0 .. (q.len - 1)
          PROVE  q.data[index(q, k)] = Len(out[d] \o w) + k + 1
      <4>1. k + n \in 0 .. (r.len - 1)
        BY <1>2, <2>1, <2>2
      <4>2. r.data[index(r, k + n)] = Len(out[d]) + (k + n) + 1
        BY <4>1 DEF InOrder
      <4> QED
        BY <4>2, <2>1, <2>2, <2>9, <3>1, <1>1
    <3>6. DOMAIN (out[d] \o w) = 1 .. (Len(out[d]) + n)
      BY <3>1, <1>1, <2>4
    <3> QED
      <4>1. ASSUME NEW c \in Dir \ {d}
            PROVE  /\ \A i \in DOMAIN out'[c] : out'[c][i] = i
                   /\ Len(out'[c]) + ring'[c].len = got'[c]
                   /\ \A k \in 0 .. (ring'[c].len - 1) :
                        ring'[c].data[index(ring'[c], k)] = Len(out'[c]) + k + 1
        <5>1. ring'[c] = ring[c] /\ out'[c] = out[c] /\ got'[c] = got[c]
          BY <1>5, <2>5, <2>6
        <5> QED
          BY <5>1 DEF InOrder
      <4>2. /\ \A i \in DOMAIN out'[d] : out'[d][i] = i
            /\ Len(out'[d]) + ring'[d].len = got'[d]
            /\ \A k \in 0 .. (ring'[d].len - 1) :
                 ring'[d].data[index(ring'[d], k)] = Len(out'[d]) + k + 1
        BY <3>3, <3>4, <3>5, <3>6, <1>5, <2>5, <2>6, SMTT(30)
      <4> QED
        BY <4>1, <4>2, SMTT(30) DEF InOrder, index
  <2> QED
    BY <2>11, <2>12, <2>13, <2>14
<1> QED
  BY <1>4, <1>6 DEF Write

\* Steps that leave the rings, the registrations and the streams alone.
LEMMA OthersKeep ==
  ASSUME Inv, UNCHANGED pipeVars, todo' \subseteq reg
  PROVE  Inv'
<1>1. /\ ring' = ring /\ rdone' = rdone /\ wdone' = wdone /\ reg' = reg
      /\ got' = got /\ out' = out
  BY DEF pipeVars
<1>2. Typed'
  BY <1>1 DEF Inv, Typed
<1>3. InOrder'
  BY <1>1 DEF Inv, InOrder
<1>4. NoneForgotten'
  BY <1>1 DEF Inv, NoneForgotten
<1>5. EndIsTheEnd'
  BY <1>1 DEF Inv, EndIsTheEnd
<1> QED
  BY <1>2, <1>3, <1>4, <1>5 DEF Inv

LEMMA StepKeeps == Inv /\ [Next]_vars => Inv'
<1> SUFFICES ASSUME Inv, [Next]_vars PROVE Inv'
  OBVIOUS
<1> USE DEF Inv
<1>0. todo \subseteq reg
  BY DEF Typed
<1>1. ASSUME NEW e \in Event, BecomesReady(e) \/ Fails(e) PROVE Inv'
  BY <1>0, <1>1, OthersKeep DEF BecomesReady, Fails
<1>2. CASE Select
  BY <1>2, OthersKeep DEF Select
<1>3. CASE Exit
  BY <1>0, <1>3, OthersKeep DEF Exit
<1>4. CASE UNCHANGED vars
  BY <1>0, <1>4, OthersKeep DEF vars
<1> QED
  BY <1>1, <1>2, <1>3, <1>4, ReadKeeps, WriteKeeps DEF Next

\* Inv holds in every state, so each of its parts does.
LEMMA Invariance == Spec => []Inv
BY InitEstablishes, StepKeeps, PTL DEF Spec

\* reader and writer never leave a side that can go on unregistered, nor register one
\* twice, whatever the sizes of the rings and of the transfers.
THEOREM NobodyIsForgotten == Spec => []NoneForgotten
BY Invariance, PTL DEF Inv

\* No byte is lost, doubled or overtaken between read and write, also across the end
\* of the ring's data.
THEOREM BytesStayInOrder == Spec => []InOrder
BY Invariance, PTL DEF Inv

\* A callback never asks for no bytes, so it never takes a full or an empty ring for
\* the end of a stream.
THEOREM OnlyTheEndEnds == Spec => []EndIsTheEnd
BY Invariance, PTL DEF Inv
=============================================================================
