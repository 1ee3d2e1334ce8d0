----------------------------- MODULE DListProofs -----------------------------
(***************************************************************************)
(* What linking and unlinking a node do to a list that holds each node     *)
(* once, which is what include/cat/list.h demands of its callers: a node   *)
(* is linked at one place, so unlinking it takes it off the list.          *)
(***************************************************************************)
EXTENDS DList, SequenceTheorems, WellFoundedInduction, TLAPS

\* No node is linked twice.
Once(s) == \A i, j \in DOMAIN s : s[i] = s[j] => i = j

\* Unlinking the node at a position moves those behind it one place forward.
LEMMA RemoveShifts ==
  ASSUME NEW S, NEW s \in Seq(S), NEW k \in 1 .. Len(s)
  PROVE  /\ RemoveAt(s, k) \in Seq(S) /\ Len(RemoveAt(s, k)) = Len(s) - 1
         /\ \A i \in 1 .. Len(s) - 1 :
              RemoveAt(s, k)[i] = IF i < k THEN s[i] ELSE s[i + 1]
<1> DEFINE a == SubSeq(s, 1, k - 1)
           b == SubSeq(s, k + 1, Len(s))
           r == a \o b
<1>1. k \in 1 .. Len(s) /\ Len(s) \in Nat
  OBVIOUS
<1>2. RemoveAt(s, k) = r
  BY <1>1 DEF RemoveAt
<1>3. /\ a \in Seq(S) /\ Len(a) = k - 1
      /\ \A i \in 1 .. k - 1 : a[i] = s[i]
  BY <1>1, SubSeqProperties
<1>4. /\ b \in Seq(S) /\ Len(b) = Len(s) - k
      /\ \A i \in 1 .. Len(s) - k : b[i] = s[k + i]
  BY <1>1, SubSeqProperties
<1> HIDE DEF a, b
<1>5. /\ r \in Seq(S) /\ Len(r) = Len(s) - 1
      /\ \A i \in 1 .. Len(s) - 1 : r[i] = IF i < k THEN s[i] ELSE s[i + 1]
  <2>1. /\ r \in Seq(S) /\ Len(r) = Len(a) + Len(b)
        /\ \A i \in 1 .. Len(a) + Len(b) : r[i] = IF i <= Len(a) THEN a[i] ELSE b[i - Len(a)]
    BY <1>3, <1>4, ConcatProperties
  <2> HIDE DEF r
  <2>2. /\ Len(a) = k - 1 /\ Len(b) = Len(s) - k /\ Len(a) + Len(b) = Len(s) - 1
    BY <1>1, <1>3, <1>4
  <2>3. Len(r) = Len(s) - 1
    BY <2>1, <2>2
  <2>4. \A i \in 1 .. Len(s) - 1 : r[i] = IF i <= k - 1 THEN a[i] ELSE b[i - (k - 1)]
    BY <2>1, <2>2
  <2>5. ASSUME NEW i \in 1 .. Len(s) - 1, i < k PROVE r[i] = s[i]
    <3>1. i <= k - 1 /\ i \in 1 .. k - 1
      BY <1>1, <2>5
    <3>2. r[i] = a[i]
      BY <2>4, <3>1
    <3> QED
      BY <3>1, <3>2, <1>3
  <2>6. ASSUME NEW i \in 1 .. Len(s) - 1, ~(i < k) PROVE r[i] = s[i + 1]
    <3>1. /\ ~(i <= k - 1) /\ i - (k - 1) \in 1 .. Len(s) - k
          /\ k + (i - (k - 1)) = i + 1
      BY <1>1, <2>6
    <3>2. r[i] = b[i - (k - 1)]
      BY <2>4, <3>1
    <3> QED
      BY <3>1, <3>2, <1>4
  <2> QED
    BY <2>1, <2>3, <2>5, <2>6
<1> QED
  BY <1>2, <1>5

\* l_rem takes exactly one node off the list and keeps the others in order.
LEMMA RemoveOnce ==
  ASSUME NEW S, NEW s \in Seq(S), Once(s), NEW n \in ToSet(s)
  PROVE  /\ l_rem(s, n) \in Seq(S) /\ Once(l_rem(s, n))
         /\ ToSet(l_rem(s, n)) = ToSet(s) \ {n}
<1> DEFINE k == PosOf(s, n)
           r == l_rem(s, n)
<1>1. k \in 1 .. Len(s) /\ s[k] = n /\ Len(s) \in Nat
  BY DEF ToSet, PosOf
<1>2. r = RemoveAt(s, k)
  BY <1>1 DEF l_rem, Contains
<1> HIDE DEF k, r
<1>5. /\ r \in Seq(S) /\ Len(r) = Len(s) - 1
      /\ \A i \in 1 .. Len(s) - 1 : r[i] = IF i < k THEN s[i] ELSE s[i + 1]
  BY <1>1, <1>2, RemoveShifts
<1>6. Once(r)
  <2>1. ASSUME NEW i \in 1 .. Len(s) - 1, NEW j \in 1 .. Len(s) - 1, r[i] = r[j], i # j
        PROVE  FALSE
    <3> DEFINE x == IF i < k THEN i ELSE i + 1
               y == IF j < k THEN j ELSE j + 1
    <3>1. x \in 1 .. Len(s) /\ y \in 1 .. Len(s) /\ x # y
      BY <1>1, <2>1
    <3>2. r[i] = s[x] /\ r[j] = s[y]
      BY <1>5
    <3> HIDE DEF x, y
    <3>3. s[x] = s[y]
      BY <2>1, <3>2
    <3>4. x \in DOMAIN s /\ y \in DOMAIN s
      BY <3>1
    <3> QED
      BY <3>1, <3>3, <3>4 DEF Once
  <2>2. DOMAIN r = 1 .. Len(s) - 1
    BY <1>1, <1>5
  <2> QED
    BY <2>1, <2>2 DEF Once
<1>7. ToSet(r) = ToSet(s) \ {n}
  <2>1. ASSUME NEW i \in 1 .. Len(s) - 1 PROVE r[i] \in ToSet(s) \ {n}
    <3>1. PICK j \in 1 .. Len(s) : r[i] = s[j] /\ j # k
      BY <1>1, <1>5
    <3> QED
      BY <1>1, <3>1 DEF Once, ToSet
  <2>2. ASSUME NEW j \in 1 .. Len(s), s[j] # n
        PROVE  \E i \in 1 .. Len(s) - 1 : r[i] = s[j]
    <3>1. CASE j < k
      BY <1>1, <1>5, <3>1
    <3>2. CASE j > k
      <4>1. j - 1 \in 1 .. Len(s) - 1 /\ r[j - 1] = s[j]
        BY <1>1, <1>5, <3>2
      <4> QED
        BY <4>1
    <3> QED
      BY <1>1, <2>2, <3>1, <3>2
  <2>3. ToSet(r) = { r[i] : i \in 1 .. Len(s) - 1 } /\ ToSet(s) = { s[i] : i \in 1 .. Len(s) }
    BY <1>1, <1>5 DEF ToSet
  <2>4. ASSUME NEW x \in ToSet(s) \ {n} PROVE x \in ToSet(r)
    <3>1. PICK j \in 1 .. Len(s) : x = s[j] /\ s[j] # n
      BY <2>3
    <3>2. PICK i \in 1 .. Len(s) - 1 : r[i] = s[j]
      BY <2>2, <3>1
    <3> QED
      BY <2>3, <3>1, <3>2
  <2>5. ASSUME NEW x \in ToSet(r) PROVE x \in ToSet(s) \ {n}
    BY <2>1, <2>3
  <2> QED
    BY <2>4, <2>5
<1> QED
  BY <1>5, <1>6, <1>7 DEF r

\* A node pushed in front of a list that does not hold it, as cb_reg does.
LEMMA PushOnce ==
  ASSUME NEW S, NEW s \in Seq(S), Once(s), NEW n \in S, n \notin ToSet(s)
  PROVE  /\ << n >> \o s \in Seq(S) /\ Once(<< n >> \o s)
         /\ ToSet(<< n >> \o s) = ToSet(s) \cup {n}
<1> DEFINE r == << n >> \o s
<1>1. << n >> \in Seq(S) /\ Len(<< n >>) = 1 /\ << n >>[1] = n
  OBVIOUS
<1>2. r \in Seq(S) /\ Len(r) = Len(s) + 1 /\ Len(s) \in Nat
  BY <1>1, ConcatProperties
<1>3. \A i \in 1 .. Len(s) + 1 : r[i] = IF i = 1 THEN n ELSE s[i - 1]
  <2>1. \A i \in 1 .. 1 + Len(s) : r[i] = IF i <= 1 THEN << n >>[i] ELSE s[i - 1]
    BY <1>1, ConcatProperties
  <2> HIDE DEF r
  <2> QED
    BY <1>1, <1>2, <2>1
<1> HIDE DEF r
<1>4. DOMAIN s = 1 .. Len(s) /\ DOMAIN r = 1 .. Len(s) + 1
  BY <1>2
<1>5. \A j \in 1 .. Len(s) : s[j] # n /\ j + 1 \in 1 .. Len(s) + 1 /\ r[j + 1] = s[j]
  BY <1>2, <1>3, <1>4 DEF ToSet
<1>6. Once(r)
  <2> SUFFICES ASSUME NEW i \in 1 .. Len(s) + 1, NEW j \in 1 .. Len(s) + 1, r[i] = r[j]
               PROVE  i = j
    BY <1>4 DEF Once
  <2>1. \A m \in 1 .. Len(s) + 1 : m # 1 => m - 1 \in 1 .. Len(s) /\ r[m] = s[m - 1]
    BY <1>2, <1>3
  <2>2. r[1] = n
    BY <1>2, <1>3
  <2>3. CASE i = 1 \/ j = 1
    BY <2>1, <2>2, <2>3, <1>5
  <2>4. CASE i # 1 /\ j # 1
    <3>1. i - 1 = j - 1
      BY <2>1, <2>4, <1>4 DEF Once
    <3> QED
      BY <3>1
  <2> QED
    BY <2>3, <2>4
<1>7. ToSet(r) = ToSet(s) \cup {n}
  <2>1. ASSUME NEW x \in ToSet(r) PROVE x \in ToSet(s) \cup {n}
    BY <1>2, <1>3, <1>4 DEF ToSet
  <2>2. ASSUME NEW x \in ToSet(s) PROVE x \in ToSet(r)
    BY <1>4, <1>5 DEF ToSet
  <2>3. n \in ToSet(r)
    BY <1>2, <1>3, <1>4 DEF ToSet
  <2> QED
    BY <2>1, <2>2, <2>3
<1> QED
  BY <1>2, <1>6, <1>7 DEF r

\* Linking a node at a position moves those from there on one place back.
LEMMA InsertShifts ==
  ASSUME NEW S, NEW s \in Seq(S), NEW pos \in 1 .. Len(s) + 1, NEW n \in S
  PROVE  /\ InsertAt(s, pos, n) \in Seq(S) /\ Len(InsertAt(s, pos, n)) = Len(s) + 1
         /\ \A i \in 1 .. pos - 1 : InsertAt(s, pos, n)[i] = s[i]
         /\ InsertAt(s, pos, n)[pos] = n
         /\ \A i \in pos .. Len(s) : InsertAt(s, pos, n)[i + 1] = s[i]
<1> DEFINE a == SubSeq(s, 1, pos - 1)
           b == SubSeq(s, pos, Len(s))
           c == a \o << n >>
           r == c \o b
<1>1. pos \in 1 .. Len(s) + 1 /\ Len(s) \in Nat
  OBVIOUS
<1>2. InsertAt(s, pos, n) = r
  BY <1>1 DEF InsertAt
<1>3. /\ a \in Seq(S) /\ Len(a) = pos - 1
      /\ \A i \in 1 .. pos - 1 : a[i] = s[i]
  BY <1>1, SubSeqProperties
<1>4. /\ b \in Seq(S) /\ Len(b) = Len(s) - pos + 1
      /\ \A i \in 1 .. Len(s) - pos + 1 : b[i] = s[pos + i - 1]
  BY <1>1, SubSeqProperties
<1> HIDE DEF a, b
<1>5. << n >> \in Seq(S) /\ Len(<< n >>) = 1 /\ << n >>[1] = n
  OBVIOUS
<1>6. /\ c \in Seq(S) /\ Len(c) = pos
      /\ \A i \in 1 .. pos : c[i] = IF i < pos THEN s[i] ELSE n
  <2>1. /\ c \in Seq(S) /\ Len(c) = Len(a) + Len(<< n >>)
        /\ \A i \in 1 .. Len(a) + Len(<< n >>) : c[i] = IF i <= Len(a) THEN a[i] ELSE << n >>[i - Len(a)]
    BY <1>3, <1>5, ConcatProperties
  <2> HIDE DEF c
  <2>2. Len(c) = pos
    BY <1>1, <1>3, <1>5, <2>1
  <2>3. ASSUME NEW i \in 1 .. pos, i < pos PROVE c[i] = s[i]
    BY <1>1, <1>3, <1>5, <2>1, <2>3
  <2>4. c[pos] = n
    BY <1>1, <1>3, <1>5, <2>1
  <2> QED
    BY <1>1, <2>1, <2>2, <2>3, <2>4
<1> HIDE DEF c
<1>7. /\ r \in Seq(S) /\ Len(r) = Len(c) + Len(b)
      /\ \A i \in 1 .. Len(c) + Len(b) : r[i] = IF i <= Len(c) THEN c[i] ELSE b[i - Len(c)]
  BY <1>4, <1>6, ConcatProperties
<1> HIDE DEF r
<1>8. Len(r) = Len(s) + 1
  BY <1>1, <1>4, <1>6, <1>7
<1>9. ASSUME NEW i \in 1 .. pos - 1 PROVE r[i] = s[i]
  BY <1>1, <1>4, <1>6, <1>7
<1>10. r[pos] = n
  BY <1>1, <1>4, <1>6, <1>7
<1>11. ASSUME NEW i \in pos .. Len(s) PROVE r[i + 1] = s[i]
  <2>1. /\ i + 1 \in 1 .. Len(c) + Len(b) /\ ~ (i + 1 <= Len(c))
        /\ i + 1 - pos \in 1 .. Len(s) - pos + 1 /\ pos + (i + 1 - pos) - 1 = i
    BY <1>1, <1>4, <1>6
  <2>2. r[i + 1] = b[i + 1 - pos]
    BY <1>6, <1>7, <2>1
  <2> QED
    BY <1>4, <2>1, <2>2
<1> QED
  BY <1>2, <1>7, <1>8, <1>9, <1>10, <1>11

\* A node that is on no list, linked anywhere.
LEMMA InsertOnce ==
  ASSUME NEW S, NEW s \in Seq(S), Once(s), NEW k \in 1 .. Len(s) + 1,
         NEW n \in S, n \notin ToSet(s)
  PROVE  /\ Once(InsertAt(s, k, n))
         /\ ToSet(InsertAt(s, k, n)) = ToSet(s) \cup {n}
<1> DEFINE r == InsertAt(s, k, n)
<1>1. k \in 1 .. Len(s) + 1 /\ Len(s) \in Nat
  OBVIOUS
<1>2. /\ r \in Seq(S) /\ Len(r) = Len(s) + 1
      /\ \A i \in 1 .. k - 1 : r[i] = s[i]
      /\ r[k] = n
      /\ \A i \in k .. Len(s) : r[i + 1] = s[i]
  <2>1. r \in Seq(S) /\ Len(r) = Len(s) + 1
    BY InsertShifts
  <2>2. \A i \in 1 .. k - 1 : r[i] = s[i]
    BY InsertShifts
  <2>3. r[k] = n
    BY InsertShifts
  <2>4. \A i \in k .. Len(s) : r[i + 1] = s[i]
    BY InsertShifts
  <2> QED
    BY <2>1, <2>2, <2>3, <2>4
<1> HIDE DEF r
<1>3. DOMAIN s = 1 .. Len(s) /\ DOMAIN r = 1 .. Len(s) + 1
  BY <1>1, <1>2
<1> DEFINE x(i) == IF i < k THEN i ELSE i - 1
<1>4. r[k] = n
  BY <1>1, <1>2
<1>5. ASSUME NEW i \in DOMAIN r, i # k PROVE x(i) \in DOMAIN s /\ r[i] = s[x(i)]
  <2>1. CASE i < k
    BY <1>1, <1>2, <1>3, <2>1
  <2>2. CASE i > k
    <3>1. i - 1 \in k .. Len(s) /\ i - 1 + 1 = i /\ x(i) = i - 1
      BY <1>1, <1>3, <2>2
    <3>2. r[i] = s[i - 1]
      BY <1>2, <3>1
    <3> QED
      BY <1>1, <1>3, <3>1, <3>2
  <2> QED
    BY <1>1, <1>3, <1>5, <2>1, <2>2
<1>6. ASSUME NEW i \in DOMAIN r, NEW j \in DOMAIN r, i # k, j # k, x(i) = x(j) PROVE i = j
  BY <1>1, <1>3, <1>6
<1> HIDE DEF x
<1>7. \A i \in DOMAIN s : s[i] # n
  BY DEF ToSet
<1>8. Once(r)
  <2> SUFFICES ASSUME NEW i \in DOMAIN r, NEW j \in DOMAIN r, r[i] = r[j], i # j PROVE FALSE
    BY DEF Once
  <2>1. CASE i = k \/ j = k
    BY <2>1, <1>4, <1>5, <1>7
  <2>2. CASE i # k /\ j # k
    BY <2>2, <1>5, <1>6 DEF Once
  <2> QED
    BY <2>1, <2>2
<1>9. ToSet(r) = ToSet(s) \cup {n}
  <2>1. ASSUME NEW i \in DOMAIN s PROVE \E j \in DOMAIN r : r[j] = s[i]
    <3>1. CASE i < k
      BY <1>1, <1>2, <1>3, <3>1
    <3>2. CASE ~ (i < k)
      <4>1. i + 1 \in DOMAIN r /\ r[i + 1] = s[i]
        BY <1>1, <1>2, <1>3, <3>2
      <4> QED
        BY <4>1
    <3> QED
      BY <3>1, <3>2
  <2>2. ASSUME NEW j \in DOMAIN r PROVE r[j] \in ToSet(s) \cup {n}
    BY <1>4, <1>5 DEF ToSet
  <2>3. k \in DOMAIN r
    BY <1>1, <1>3
  <2>4. ToSet(r) \subseteq ToSet(s) \cup {n}
    BY <2>2 DEF ToSet
  <2>5. ToSet(s) \subseteq ToSet(r) /\ n \in ToSet(r)
    BY <1>4, <2>1, <2>3 DEF ToSet
  <2> QED
    BY <2>4, <2>5
<1> QED
  BY <1>8, <1>9 DEF r

-----------------------------------------------------------------------------
(* Induction.  The library's induction theorems take an operator; a set of   *)
(* numbers with a least element does instead.                                *)

LEMMA Least ==
  ASSUME NEW T \in SUBSET Nat, T # {}
  PROVE  \E n \in T : \A m \in T : n <= m
<1> DEFINE R == { p \in Nat \X Nat : p[1] < p[2] }
<1>1. IsWellFoundedOn(R, Nat)
  BY NatLessThanWellFounded DEF OpToRel
<1>2. PICK n \in T : \A m \in T : ~ (<< m, n >> \in R)
  BY <1>1, WFMin
<1>3. ASSUME NEW m \in T PROVE n <= m
  <2>1. m \in Nat /\ n \in Nat
    OBVIOUS
  <2>2. ~ (m < n)
    BY <1>2, <2>1
  <2> QED
    BY <2>1, <2>2
<1> QED
  BY <1>3

LEMMA UpTo ==
  ASSUME NEW L \in Nat, NEW T, 0 \in T, \A n \in 0 .. L : n \in T /\ n < L => n + 1 \in T
  PROVE  \A n \in 0 .. L : n \in T
<1> SUFFICES ASSUME (0 .. L) \ T # {} PROVE FALSE
  OBVIOUS
<1>1. PICK n \in (0 .. L) \ T : \A m \in (0 .. L) \ T : n <= m
  <2>1. (0 .. L) \ T \in SUBSET Nat
    OBVIOUS
  <2> QED
    BY <2>1, Least
<1>2. n \in 0 .. L /\ n # 0 /\ n - 1 \in 0 .. L /\ n - 1 < L /\ ~ (n <= n - 1)
  BY <1>1
<1>3. n - 1 \in T
  BY <1>1, <1>2
<1>4. n - 1 + 1 \in T /\ n - 1 + 1 = n
  BY <1>2, <1>3
<1> QED
  BY <1>1, <1>4

-----------------------------------------------------------------------------
(* When the positions of a delta list expire.                                *)

\* Dues is what its definition says: it adds up the waits.
LEMMA DuesAddUp ==
  ASSUME NEW S, NEW list \in Seq(S), NEW ttl
  PROVE  /\ Dues(list, ttl)[0] = 0
         /\ \A i \in 1 .. Len(list) :
              Dues(list, ttl)[i] = Dues(list, ttl)[i - 1] + ttl[list[i]]
<1> DEFINE L == Len(list)
           F(n, f) == f = [i \in 0 .. n |-> IF i = 0 THEN 0 ELSE f[i - 1] + ttl[list[i]]]
           T == { n \in 0 .. L : \E f : F(n, f) }
<1>1. L \in Nat
  OBVIOUS
<1>2. 0 \in T
  <2>1. F(0, [i \in 0 .. 0 |-> 0])
    OBVIOUS
  <2> HIDE DEF F
  <2>2. \E f : F(0, f)
    BY <2>1
  <2> QED
    BY <1>1, <2>2
<1>3. ASSUME NEW n \in 0 .. L, n \in T, n < L PROVE n + 1 \in T
  <2>1. PICK f : F(n, f)
    BY <1>3
  <2> DEFINE g == [i \in 0 .. n + 1 |-> IF i = n + 1 THEN f[n] + ttl[list[n + 1]] ELSE f[i]]
  <2>2. \A i \in 0 .. n : g[i] = f[i]
    BY <1>1
  <2>3. ASSUME NEW i \in 0 .. n + 1
        PROVE  g[i] = IF i = 0 THEN 0 ELSE g[i - 1] + ttl[list[i]]
    <3>1. CASE i = n + 1
      BY <1>1, <3>1, <2>2
    <3>2. CASE i = 0
      BY <1>1, <3>2, <2>1, <2>2
    <3>3. CASE i # 0 /\ i # n + 1
      <4>1. i \in 0 .. n /\ i - 1 \in 0 .. n
        BY <1>1, <3>3
      <4> QED
        BY <3>3, <4>1, <2>1, <2>2
    <3> QED
      BY <3>1, <3>2, <3>3
  <2>4. F(n + 1, g)
    BY <2>3
  <2>5. n + 1 \in 0 .. L
    BY <1>1, <1>3
  <2> QED
    BY <2>4, <2>5
<1>4. L \in T
  <2> HIDE DEF T
  <2>1. \A n \in 0 .. L : n \in T
    BY <1>1, <1>2, <1>3, UpTo
  <2> QED
    BY <1>1, <2>1
<1>5. F(L, CHOOSE f : F(L, f))
  <2>1. \E f : F(L, f)
    BY <1>4
  <2> HIDE DEF F
  <2> QED
    BY <2>1
<1>6. Dues(list, ttl) = CHOOSE f : F(L, f)
  BY DEF Dues
<1>7. F(L, Dues(list, ttl))
  BY <1>5, <1>6
<1> QED
  BY <1>1, <1>7

\* And nothing else does.
LEMMA DuesUnique ==
  ASSUME NEW S, NEW list \in Seq(S), NEW ttl, NEW f,
         f[0] = 0, \A i \in 1 .. Len(list) : f[i] = f[i - 1] + ttl[list[i]]
  PROVE  \A i \in 0 .. Len(list) : Dues(list, ttl)[i] = f[i]
<1> DEFINE D == Dues(list, ttl)
           T == { i \in 0 .. Len(list) : D[i] = f[i] }
<1>1. Len(list) \in Nat
  OBVIOUS
<1>2. D[0] = 0 /\ \A i \in 1 .. Len(list) : D[i] = D[i - 1] + ttl[list[i]]
  BY DuesAddUp
<1> HIDE DEF D
<1>3. 0 \in T
  BY <1>1, <1>2
<1>4. ASSUME NEW n \in 0 .. Len(list), n \in T, n < Len(list) PROVE n + 1 \in T
  <2>1. n + 1 \in 1 .. Len(list) /\ n + 1 - 1 = n /\ n + 1 \in 0 .. Len(list)
    BY <1>1, <1>4
  <2>2. D[n + 1] = D[n] + ttl[list[n + 1]] /\ f[n + 1] = f[n] + ttl[list[n + 1]]
    BY <1>2, <2>1
  <2> QED
    BY <1>4, <2>1, <2>2
<1> HIDE DEF T
<1>5. \A n \in 0 .. Len(list) : n \in T
  BY <1>1, <1>3, <1>4, UpTo
<1> QED
  BY <1>5 DEF T, D

\* No wait is negative, so later positions expire later.
LEMMA DuesGrow ==
  ASSUME NEW S, NEW list \in Seq(S), NEW ttl \in [S -> Nat]
  PROVE  /\ \A i \in 0 .. Len(list) : Dues(list, ttl)[i] \in Nat
         /\ \A i, j \in 0 .. Len(list) : i <= j => Dues(list, ttl)[i] <= Dues(list, ttl)[j]
<1> DEFINE D == Dues(list, ttl)
           T == { j \in 0 .. Len(list) : D[j] \in Nat /\ \A i \in 0 .. j : D[i] \in Nat /\ D[i] <= D[j] }
<1>1. Len(list) \in Nat
  OBVIOUS
<1>2. D[0] = 0 /\ \A i \in 1 .. Len(list) : D[i] = D[i - 1] + ttl[list[i]]
  BY DuesAddUp
<1>3. \A i \in 1 .. Len(list) : ttl[list[i]] \in Nat
  OBVIOUS
<1> HIDE DEF D
<1>4. 0 \in T
  BY <1>1, <1>2
<1>5. ASSUME NEW n \in 0 .. Len(list), n \in T, n < Len(list) PROVE n + 1 \in T
  <2>1. n + 1 \in 1 .. Len(list) /\ n + 1 - 1 = n /\ n + 1 \in 0 .. Len(list)
    BY <1>1, <1>5
  <2>2. D[n] \in Nat /\ D[n + 1] = D[n] + ttl[list[n + 1]] /\ ttl[list[n + 1]] \in Nat
    BY <1>2, <1>3, <1>5, <2>1
  <2>3. D[n + 1] \in Nat /\ D[n] <= D[n + 1]
    BY <2>2
  <2>4. ASSUME NEW i \in 0 .. n + 1 PROVE D[i] \in Nat /\ D[i] <= D[n + 1]
    <3>1. CASE i = n + 1
      BY <2>3, <3>1
    <3>2. CASE i \in 0 .. n
      BY <1>5, <2>3, <3>2
    <3> QED
      BY <3>1, <3>2
  <2> QED
    BY <2>1, <2>3, <2>4
<1> HIDE DEF T
<1>6. \A j \in 0 .. Len(list) : j \in T
  BY <1>1, <1>4, <1>5, UpTo
<1>7. \A j \in 0 .. Len(list) : D[j] \in Nat /\ \A i \in 0 .. j : D[i] <= D[j]
  BY <1>6 DEF T
<1>8. ASSUME NEW i \in 0 .. Len(list), NEW j \in 0 .. Len(list), i <= j PROVE D[i] <= D[j]
  <2>1. i \in 0 .. j
    BY <1>1, <1>8
  <2> QED
    BY <1>7, <2>1
<1> QED
  BY <1>7, <1>8 DEF D

\* The position FirstAfter finds parts the list in what expires by v and the rest.
LEMMA FirstAfterParts ==
  ASSUME NEW S, NEW list \in Seq(S), NEW ttl \in [S -> Nat], NEW v \in Int,
         NEW k, k = FirstAfter(list, ttl, v)
  PROVE  /\ k \in 1 .. Len(list) + 1
         /\ \A j \in 1 .. Len(list) : j < k <=> Dues(list, ttl)[j] <= v
<1> DEFINE D == Dues(list, ttl)
           T == { i \in DOMAIN list : D[i] > v }
<1>1. Len(list) \in Nat /\ DOMAIN list = 1 .. Len(list)
  OBVIOUS
<1>2. /\ \A i \in 0 .. Len(list) : D[i] \in Nat
      /\ \A i, j \in 0 .. Len(list) : i <= j => D[i] <= D[j]
  BY DuesGrow
<1>3. k = IF T = {} THEN Len(list) + 1 ELSE Min(T)
  BY DEF FirstAfter
<1> HIDE DEF D
<1>4. CASE T = {}
  <2>1. k = Len(list) + 1
    BY <1>3, <1>4
  <2>2. ASSUME NEW j \in 1 .. Len(list) PROVE D[j] <= v
    BY <1>1, <1>2, <1>4
  <2> QED
    BY <1>1, <2>1, <2>2 DEF D
<1>5. CASE T # {}
  <2>1. T \in SUBSET Nat
    BY <1>1
  <2>2. \E m \in T : \A j \in T : m <= j
    BY <1>5, <2>1, Least
  <2>3. k \in T /\ \A j \in T : k <= j
    <3> HIDE DEF T
    <3>1. Min(T) \in T /\ \A j \in T : Min(T) <= j
      BY <2>2 DEF Min
    <3> QED
      BY <1>3, <1>5, <3>1
  <2>4. k \in 1 .. Len(list) /\ D[k] > v
    BY <1>1, <2>3
  <2>5. ASSUME NEW j \in 1 .. Len(list), j < k PROVE D[j] <= v
    <3>1. j \notin T
      BY <1>1, <2>3, <2>4, <2>5
    <3> QED
      BY <1>1, <1>2, <3>1
  <2>6. ASSUME NEW j \in 1 .. Len(list), ~ (j < k) PROVE ~ (D[j] <= v)
    <3>1. k <= j /\ k \in 0 .. Len(list) /\ j \in 0 .. Len(list)
      BY <1>1, <2>4, <2>6
    <3>2. D[k] <= D[j] /\ D[k] \in Nat /\ D[j] \in Nat
      BY <1>2, <3>1
    <3> QED
      BY <2>4, <3>2
  <2> QED
    BY <1>1, <2>4, <2>5, <2>6 DEF D
<1> QED
  BY <1>4, <1>5

\* dl_ins: the node expires after its ttl, every other one when it did.
LEMMA InsKeepsDues ==
  ASSUME NEW S, NEW list \in Seq(S), Once(list), NEW ttl \in [S -> Nat],
         NEW n \in S, n \notin ToSet(list),
         NEW k, k = FirstAfter(list, ttl, ttl[n]), NEW r, r = dl_ins(list, ttl, n)
  PROVE  /\ k \in 1 .. Len(list) + 1
         /\ r.list = InsertAt(list, k, n) /\ r.ttl \in [S -> Nat]
         /\ \A m \in S : m \notin ToSet(list) /\ m # n => r.ttl[m] = ttl[m]
         /\ \A j \in 0 .. k - 1 : Dues(r.list, r.ttl)[j] = Dues(list, ttl)[j]
         /\ Dues(r.list, r.ttl)[k] = ttl[n]
         /\ \A j \in k .. Len(list) : Dues(r.list, r.ttl)[j + 1] = Dues(list, ttl)[j]
<1> DEFINE D == Dues(list, ttl)
           L == Len(list)
           v == ttl[n] - D[k - 1]
           w == r.ttl
           q == r.list
<1>1. L \in Nat /\ ttl[n] \in Nat /\ ttl[n] \in Int /\ DOMAIN list = 1 .. L /\ DOMAIN ttl = S
  OBVIOUS
<1>2. k \in 1 .. L + 1 /\ \A j \in 1 .. L : j < k <=> D[j] <= ttl[n]
  BY <1>1, FirstAfterParts
<1>3. D[0] = 0 /\ \A j \in 1 .. L : D[j] = D[j - 1] + ttl[list[j]]
  BY DuesAddUp
<1>4. \A j \in 0 .. L : D[j] \in Nat
  BY DuesGrow
<1>5. /\ q = InsertAt(list, k, n)
      /\ w = [m \in S |-> IF m = n THEN v
                          ELSE IF k <= L /\ m = list[k] THEN ttl[m] - v ELSE ttl[m]]
  BY <1>1 DEF dl_ins
<1> HIDE DEF D, w, q
<1>6. /\ q \in Seq(S) /\ Len(q) = L + 1
      /\ \A i \in 1 .. k - 1 : q[i] = list[i]
      /\ q[k] = n
      /\ \A i \in k .. L : q[i + 1] = list[i]
  <2>1. /\ InsertAt(list, k, n) \in Seq(S) /\ Len(InsertAt(list, k, n)) = L + 1
        /\ \A i \in 1 .. k - 1 : InsertAt(list, k, n)[i] = list[i]
        /\ InsertAt(list, k, n)[k] = n
        /\ \A i \in k .. L : InsertAt(list, k, n)[i + 1] = list[i]
    BY <1>2, InsertShifts
  <2> QED
    BY <1>5, <2>1
<1>7. \A i \in 1 .. L : list[i] \in S /\ list[i] # n /\ ttl[list[i]] \in Nat
  BY <1>1 DEF ToSet
<1>8. \A i, j \in 1 .. L : list[i] = list[j] => i = j
  BY <1>1 DEF Once
<1>9. v \in Nat
  <2>1. CASE k = 1
    BY <1>1, <1>3, <2>1
  <2>2. CASE k # 1
    <3>1. k - 1 \in 1 .. L /\ k - 1 < k
      BY <1>1, <1>2, <2>2
    <3>2. D[k - 1] <= ttl[n] /\ D[k - 1] \in Nat
      BY <1>2, <1>4, <3>1
    <3> QED
      BY <1>1, <3>2
  <2> QED
    BY <2>1, <2>2
<1>10. w[n] = v
  BY <1>5
<1>11. ASSUME k \in 1 .. L PROVE w[list[k]] = ttl[list[k]] - v /\ w[list[k]] \in Nat
  <2>1. ~ (k < k) /\ k - 1 \in 0 .. L /\ k \in 0 .. L /\ k <= L
    BY <1>1, <1>11
  <2>2. D[k] > ttl[n] /\ D[k] = D[k - 1] + ttl[list[k]] /\ D[k - 1] \in Nat /\ D[k] \in Nat
    BY <1>1, <1>2, <1>3, <1>4, <1>11, <2>1
  <2>3. w[list[k]] = ttl[list[k]] - v
    BY <1>5, <1>7, <1>11, <2>1
  <2> QED
    BY <1>1, <1>7, <1>11, <2>2, <2>3
<1>12. \A i \in 1 .. L : i # k => w[list[i]] = ttl[list[i]]
  <2> SUFFICES ASSUME NEW i \in 1 .. L, i # k PROVE w[list[i]] = ttl[list[i]]
    OBVIOUS
  <2>1. ~ (k <= L /\ list[i] = list[k])
    BY <1>1, <1>2, <1>8
  <2> QED
    BY <1>5, <1>7, <2>1
<1>13. w \in [S -> Nat]
  <2> SUFFICES ASSUME NEW m \in S PROVE w[m] \in Nat
    BY <1>5
  <2>1. CASE m = n
    BY <1>9, <1>10, <2>1
  <2>2. CASE m # n /\ k <= L /\ m = list[k]
    <3>1. k \in 1 .. L
      BY <1>1, <1>2, <2>2
    <3> QED
      BY <1>11, <2>2, <3>1
  <2>3. CASE m # n /\ ~ (k <= L /\ m = list[k])
    BY <1>5, <2>3
  <2> QED
    BY <2>1, <2>2, <2>3
<1>14. ASSUME NEW m \in S, m \notin ToSet(list), m # n PROVE w[m] = ttl[m]
  <2>1. ~ (k <= L /\ m = list[k])
    BY <1>1, <1>2, <1>14 DEF ToSet
  <2> QED
    BY <1>5, <1>14, <2>1
<1> DEFINE g == [j \in 0 .. L + 1 |-> IF j < k THEN D[j] ELSE IF j = k THEN ttl[n] ELSE D[j - 1]]
<1> HIDE DEF v
<1>15. /\ \A j \in 0 .. k - 1 : g[j] = D[j]
       /\ g[k] = ttl[n]
       /\ \A j \in k .. L : g[j + 1] = D[j]
  <2>1. \A j \in 0 .. k - 1 : j \in 0 .. L + 1 /\ j < k
    BY <1>1, <1>2
  <2>2. k \in 0 .. L + 1 /\ ~ (k < k)
    BY <1>1, <1>2
  <2>3. \A j \in k .. L : j + 1 \in 0 .. L + 1 /\ ~ (j + 1 < k) /\ j + 1 # k /\ j + 1 - 1 = j
    BY <1>1, <1>2
  <2> QED
    BY <2>1, <2>2, <2>3
<1> HIDE DEF g
<1>16. ASSUME NEW i \in 1 .. Len(q) PROVE g[i] = g[i - 1] + w[q[i]]
  <2>1. i \in 1 .. L + 1 /\ i \in Int
    BY <1>1, <1>6
  <2>2. CASE i < k
    <3>1. i \in 0 .. k - 1 /\ i - 1 \in 0 .. k - 1 /\ i \in 1 .. L /\ i \in 1 .. k - 1 /\ i # k
      BY <1>1, <1>2, <2>1, <2>2
    <3>2. q[i] = list[i] /\ w[list[i]] = ttl[list[i]]
      BY <1>6, <1>12, <3>1
    <3>3. g[i] = D[i] /\ g[i - 1] = D[i - 1]
      BY <1>15, <3>1
    <3> QED
      BY <1>3, <3>1, <3>2, <3>3
  <2>3. CASE i = k
    <3>1. k - 1 \in 0 .. k - 1 /\ k - 1 \in 0 .. L
      BY <1>1, <1>2
    <3>2. g[k - 1] = D[k - 1] /\ g[k] = ttl[n] /\ D[k - 1] \in Nat
      BY <1>4, <1>15, <3>1
    <3> QED
      BY <1>1, <1>6, <1>10, <2>3, <3>2 DEF v
  <2>4. CASE i = k + 1
    <3>1. k \in 1 .. L /\ k \in k .. L /\ i - 1 = k /\ k \in 0 .. L /\ k - 1 \in 0 .. L
      BY <1>1, <1>2, <2>1, <2>4
    <3>2. q[i] = list[k] /\ g[i] = D[k] /\ g[i - 1] = ttl[n]
      BY <1>6, <1>15, <2>4, <3>1
    <3>3. w[list[k]] = ttl[list[k]] - v
      BY <1>11, <3>1
    <3>4. D[k] = D[k - 1] + ttl[list[k]] /\ D[k - 1] \in Nat /\ ttl[list[k]] \in Nat
      BY <1>3, <1>4, <1>7, <3>1
    <3> QED
      BY <1>1, <3>2, <3>3, <3>4 DEF v
  <2>5. CASE i > k + 1
    <3> DEFINE j == i - 1
    <3>1. j \in 1 .. L /\ j \in k .. L /\ j - 1 \in k .. L /\ j # k /\ i = j + 1 /\ i - 1 = (j - 1) + 1
      BY <1>1, <1>2, <2>1, <2>5
    <3> HIDE DEF j
    <3>2. q[i] = list[j] /\ g[i] = D[j] /\ g[i - 1] = D[j - 1] /\ w[list[j]] = ttl[list[j]]
      BY <1>6, <1>12, <1>15, <3>1
    <3> QED
      BY <1>3, <3>1, <3>2
  <2> QED
    BY <1>1, <1>2, <2>1, <2>2, <2>3, <2>4, <2>5
<1>17. g[0] = 0
  <2>1. 0 \in 0 .. k - 1
    BY <1>2
  <2> QED
    BY <1>3, <1>15, <2>1
<1>18. \A i \in 0 .. Len(q) : Dues(q, w)[i] = g[i]
  BY <1>6, <1>16, <1>17, DuesUnique
<1>19. /\ \A j \in 0 .. k - 1 : Dues(q, w)[j] = D[j]
       /\ Dues(q, w)[k] = ttl[n]
       /\ \A j \in k .. L : Dues(q, w)[j + 1] = D[j]
  <2>1. /\ \A j \in 0 .. k - 1 : j \in 0 .. Len(q)
        /\ k \in 0 .. Len(q)
        /\ \A j \in k .. L : j + 1 \in 0 .. Len(q)
    BY <1>1, <1>2, <1>6
  <2> QED
    BY <1>15, <1>18, <2>1
<1> QED
  BY <1>2, <1>5, <1>13, <1>14, <1>19 DEF q, w, D

\* dl_rem: what the node had to wait goes to the one behind it, and every other
\* node expires when it did.
LEMMA RemKeepsDues ==
  ASSUME NEW S, NEW list \in Seq(S), Once(list), NEW ttl \in [S -> Nat],
         NEW n \in ToSet(list),
         NEW k, k = PosOf(list, n), NEW r, r = dl_rem(list, ttl, n)
  PROVE  /\ r.ttl \in [S -> Nat]
         /\ \A m \in S : m \notin ToSet(list) => r.ttl[m] = ttl[m]
         /\ \A j \in 0 .. Len(list) - 1 :
              Dues(r.list, r.ttl)[j] = Dues(list, ttl)[IF j < k THEN j ELSE j + 1]
<1> DEFINE D == Dues(list, ttl)
           L == Len(list)
           w == r.ttl
           q == r.list
<1>1. L \in Nat /\ DOMAIN list = 1 .. L /\ DOMAIN ttl = S
  OBVIOUS
<1>2. k \in 1 .. L /\ list[k] = n /\ Contains(list, n)
  BY <1>1 DEF PosOf, ToSet, Contains
<1>3. D[0] = 0 /\ \A j \in 1 .. L : D[j] = D[j - 1] + ttl[list[j]]
  BY DuesAddUp
<1>4. \A j \in 0 .. L : D[j] \in Nat
  BY DuesGrow
<1>5. /\ q = l_rem(list, n)
      /\ w = IF n # list[L] THEN [ttl EXCEPT ![list[k + 1]] = @ + ttl[n]] ELSE ttl
  BY <1>1, <1>2 DEF dl_rem, Last
<1>6. q = RemoveAt(list, k)
  BY <1>2, <1>5 DEF l_rem
<1> HIDE DEF D, w, q
<1>7. /\ q \in Seq(S) /\ Len(q) = L - 1
      /\ \A i \in 1 .. L - 1 : q[i] = IF i < k THEN list[i] ELSE list[i + 1]
  <2>1. /\ RemoveAt(list, k) \in Seq(S) /\ Len(RemoveAt(list, k)) = L - 1
        /\ \A i \in 1 .. L - 1 :
             RemoveAt(list, k)[i] = IF i < k THEN list[i] ELSE list[i + 1]
    BY <1>2, RemoveShifts
  <2> QED
    BY <1>6, <2>1
<1>8. \A i \in 1 .. L : list[i] \in S /\ ttl[list[i]] \in Nat
  BY <1>1
<1>9. \A i, j \in 1 .. L : list[i] = list[j] => i = j
  BY <1>1 DEF Once
<1>10. n # list[L] <=> k # L
  BY <1>1, <1>2, <1>9
<1>11. \A i \in 1 .. L : i # k + 1 => w[list[i]] = ttl[list[i]]
  <2> SUFFICES ASSUME NEW i \in 1 .. L, i # k + 1 PROVE w[list[i]] = ttl[list[i]]
    OBVIOUS
  <2>1. CASE k = L
    BY <1>5, <1>10, <2>1
  <2>2. CASE k # L
    <3>1. k + 1 \in 1 .. L /\ list[i] # list[k + 1]
      BY <1>1, <1>2, <1>9, <2>2
    <3> QED
      BY <1>5, <1>8, <1>10, <2>2, <3>1
  <2> QED
    BY <2>1, <2>2
<1>12. ASSUME k # L PROVE k + 1 \in 1 .. L /\ w[list[k + 1]] = ttl[list[k + 1]] + ttl[n]
  <2>1. k + 1 \in 1 .. L
    BY <1>1, <1>2, <1>12
  <2> QED
    BY <1>1, <1>5, <1>8, <1>10, <1>12, <2>1
<1>13. w \in [S -> Nat]
  <2>1. CASE k = L
    BY <1>5, <1>10, <2>1
  <2>2. CASE k # L
    <3>1. list[k + 1] \in S /\ ttl[list[k + 1]] + ttl[n] \in Nat
      BY <1>2, <1>8, <1>12, <2>2
    <3> QED
      BY <1>5, <1>10, <2>2, <3>1
  <2> QED
    BY <2>1, <2>2
<1>14. ASSUME NEW m \in S, m \notin ToSet(list) PROVE w[m] = ttl[m]
  <2>1. CASE k = L
    BY <1>5, <1>10, <2>1
  <2>2. CASE k # L
    <3>1. m # list[k + 1]
      BY <1>1, <1>12, <1>14, <2>2 DEF ToSet
    <3> QED
      BY <1>5, <1>10, <2>2, <3>1
  <2> QED
    BY <2>1, <2>2
<1> DEFINE g == [j \in 0 .. L - 1 |-> IF j < k THEN D[j] ELSE D[j + 1]]
<1>15. \A j \in 0 .. L - 1 : g[j] = IF j < k THEN D[j] ELSE D[j + 1]
  OBVIOUS
<1> HIDE DEF g
<1>16. ASSUME NEW i \in 1 .. Len(q) PROVE g[i] = g[i - 1] + w[q[i]]
  <2>1. i \in 1 .. L - 1 /\ i \in 0 .. L - 1 /\ i - 1 \in 0 .. L - 1 /\ i \in 1 .. L /\ i + 1 \in 1 .. L
    BY <1>1, <1>7, SMTT(30)
  <2>2. CASE i < k
    <3>1. i - 1 < k /\ i # k + 1
      BY <1>1, <1>2, <2>1, <2>2
    <3>2. q[i] = list[i] /\ g[i] = D[i] /\ g[i - 1] = D[i - 1] /\ w[list[i]] = ttl[list[i]]
      BY <1>7, <1>11, <1>15, <2>1, <2>2, <3>1
    <3> QED
      BY <1>3, <2>1, <3>2
  <2>3. CASE i = k
    <3>1. k # L /\ i - 1 < k /\ ~ (i < k) /\ k + 1 - 1 = k /\ k - 1 \in 0 .. L
      BY <1>1, <1>2, <2>1, <2>3
    <3>2. q[i] = list[k + 1] /\ g[i] = D[k + 1] /\ g[i - 1] = D[k - 1]
      BY <1>7, <1>15, <2>1, <2>3, <3>1
    <3>3. w[list[k + 1]] = ttl[list[k + 1]] + ttl[n] /\ ttl[list[k + 1]] \in Nat /\ ttl[n] \in Nat
      BY <1>2, <1>8, <1>12, <3>1
    <3>4. D[k + 1] = D[k] + ttl[list[k + 1]] /\ D[k] = D[k - 1] + ttl[n] /\ D[k - 1] \in Nat
      BY <1>2, <1>3, <1>4, <1>12, <3>1, SMTT(30)
    <3> QED
      BY <3>2, <3>3, <3>4
  <2>4. CASE i > k
    <3> DEFINE j == i + 1
    <3>1. ~ (i < k) /\ ~ (i - 1 < k) /\ j # k + 1 /\ j \in 1 .. L /\ i - 1 + 1 = j - 1
      BY <1>1, <1>2, <2>1, <2>4
    <3>2. q[i] = list[j] /\ g[i] = D[j] /\ g[i - 1] = D[j - 1] /\ w[list[j]] = ttl[list[j]]
      BY <1>7, <1>11, <1>15, <2>1, <3>1
    <3> HIDE DEF j
    <3> QED
      BY <1>3, <3>1, <3>2
  <2> QED
    BY <1>1, <1>2, <2>1, <2>2, <2>3, <2>4
<1>17. g[0] = 0
  <2>1. 0 \in 0 .. L - 1 /\ 0 < k
    BY <1>1, <1>2
  <2> QED
    BY <1>3, <1>15, <2>1
<1>18. \A i \in 0 .. Len(q) : Dues(q, w)[i] = g[i]
  <2>1. q \in Seq(S)
    BY <1>7
  <2>2. \A i \in 1 .. Len(q) : g[i] = g[i - 1] + w[q[i]]
    BY <1>16
  <2>3. ASSUME NEW at \in 0 .. Len(q) PROVE Dues(q, w)[at] = g[at]
    BY <1>17, <2>1, <2>2, DuesUnique
  <2> QED
    BY <2>3
<1>19. \A j \in 0 .. L - 1 : Dues(q, w)[j] = D[IF j < k THEN j ELSE j + 1]
  BY <1>7, <1>15, <1>18
<1> QED
  BY <1>13, <1>14, <1>19 DEF q, w, D

\* dl_adv: what expires within d comes off the front, in order, and the others
\* expire d sooner.
LEMMA AdvKeepsDues ==
  ASSUME NEW S, NEW list \in Seq(S), Once(list), NEW ttl \in [S -> Nat], NEW d \in Nat,
         NEW k, k = FirstAfter(list, ttl, d), NEW r, r = dl_adv(list, ttl, d)
  PROVE  /\ r.ttl \in [S -> Nat]
         /\ \A j \in 1 .. Len(list) - k + 1 :
              Dues(r.list, r.ttl)[j] = Dues(list, ttl)[k + j - 1] - d
<1> DEFINE D == Dues(list, ttl)
           L == Len(list)
           w == r.ttl
           q == r.list
           v == d - D[k - 1]
<1>1. L \in Nat /\ DOMAIN list = 1 .. L /\ DOMAIN ttl = S /\ d \in Int
  OBVIOUS
<1>2. k \in 1 .. L + 1 /\ \A j \in 1 .. L : j < k <=> D[j] <= d
  BY <1>1, FirstAfterParts
<1>3. D[0] = 0 /\ \A j \in 1 .. L : D[j] = D[j - 1] + ttl[list[j]]
  BY DuesAddUp
<1>4. \A j \in 0 .. L : D[j] \in Nat
  BY DuesGrow
<1>5. /\ q = SubSeq(list, k, L)
      /\ w = IF k > L THEN ttl ELSE [ttl EXCEPT ![list[k]] = @ - v]
  BY DEF dl_adv
<1> HIDE DEF D, w, q
<1>6. /\ q \in Seq(S) /\ Len(q) = L - k + 1
      /\ \A i \in 1 .. L - k + 1 : q[i] = list[k + i - 1]
  <2>1. /\ SubSeq(list, k, L) \in Seq(S)
        /\ Len(SubSeq(list, k, L)) = L - k + 1
        /\ \A i \in 1 .. L - k + 1 : SubSeq(list, k, L)[i] = list[k + i - 1]
    BY <1>1, <1>2, SubSeqProperties, SMTT(30)
  <2> QED
    BY <1>5, <2>1
<1>7. \A i \in 1 .. L : list[i] \in S /\ ttl[list[i]] \in Nat
  BY <1>1
<1>8. \A i, j \in 1 .. L : list[i] = list[j] => i = j
  BY <1>1 DEF Once
<1>9. k - 1 \in 0 .. L /\ D[k - 1] \in Nat
  BY <1>1, <1>2, <1>4
<1>10. ASSUME k <= L
       PROVE  w[list[k]] = D[k] - d /\ w[list[k]] \in Nat /\ k \in 1 .. L
  <2>1. k \in 1 .. L /\ k \in 0 .. L /\ ~ (k < k) /\ ~ (k > L)
    BY <1>1, <1>2, <1>10
  <2>2. D[k] > d /\ D[k] = D[k - 1] + ttl[list[k]] /\ D[k] \in Nat /\ ttl[list[k]] \in Nat
    BY <1>1, <1>2, <1>3, <1>4, <1>7, <2>1
  <2>3. w[list[k]] = ttl[list[k]] - v
    BY <1>1, <1>5, <1>7, <2>1
  <2> QED
    BY <1>9, <2>1, <2>2, <2>3
<1>11. w \in [S -> Nat]
  <2>1. CASE k > L
    BY <1>5, <2>1
  <2>2. CASE k <= L
    <3>1. list[k] \in S /\ w[list[k]] \in Nat /\ ~ (k > L)
      BY <1>1, <1>7, <1>10, <2>2
    <3>2. w = [ttl EXCEPT ![list[k]] = ttl[list[k]] - v]
      BY <1>5, <3>1
    <3>3. w[list[k]] = ttl[list[k]] - v
      BY <1>1, <3>1, <3>2
    <3> HIDE DEF v
    <3> QED
      BY <3>1, <3>2, <3>3
  <2> QED
    BY <1>1, <1>2, <2>1, <2>2
<1>12. \A i \in 1 .. L : i # k => w[list[i]] = ttl[list[i]]
  <2> SUFFICES ASSUME NEW i \in 1 .. L, i # k PROVE w[list[i]] = ttl[list[i]]
    OBVIOUS
  <2>1. CASE k > L
    BY <1>5, <2>1
  <2>2. CASE k <= L
    <3>1. list[i] # list[k] /\ ~ (k > L)
      BY <1>1, <1>8, <1>10, <2>2
    <3>2. w = [ttl EXCEPT ![list[k]] = ttl[list[k]] - v]
      BY <1>5, <3>1
    <3> HIDE DEF v
    <3> QED
      BY <1>7, <3>1, <3>2
  <2> QED
    BY <1>1, <1>2, <2>1, <2>2
<1> HIDE DEF v
<1> DEFINE g == [j \in 0 .. L - k + 1 |-> IF j = 0 THEN 0 ELSE D[k + j - 1] - d]
<1>13. g[0] = 0 /\ \A j \in 1 .. L - k + 1 : g[j] = D[k + j - 1] - d
  BY <1>1, <1>2
<1> HIDE DEF g
<1>14. ASSUME NEW i \in 1 .. Len(q) PROVE g[i] = g[i - 1] + w[q[i]]
  <2> DEFINE j == k + i - 1
  <2>1. i \in 1 .. L - k + 1 /\ j \in 1 .. L /\ k <= L
    BY <1>1, <1>2, <1>6, SMTT(30)
  <2>2. q[i] = list[j] /\ g[i] = D[j] - d
    BY <1>6, <1>13, <2>1
  <2>3. CASE i = 1
    <3>1. j = k /\ i - 1 = 0
      BY <1>2, <2>3
    <3>2. w[list[k]] = D[k] - d /\ w[list[k]] \in Nat
      BY <1>10, <2>1
    <3> QED
      BY <1>13, <2>2, <3>1, <3>2
  <2>4. CASE i # 1
    <3> HIDE DEF j
    <3>0. /\ i \in Int /\ k \in Int /\ i > 1 /\ i <= L - k + 1 /\ k >= 1
          /\ j = k + i - 1 /\ L \in Nat
      BY <1>1, <1>2, <2>1, <2>4 DEF j
    <3> HIDE DEF L
    <3>1. i - 1 \in 1 .. L - k + 1 /\ k + (i - 1) - 1 = j - 1 /\ j # k /\ j - 1 \in 0 .. L
      BY <3>0
    <3>2. g[i - 1] = D[j - 1] - d /\ w[list[j]] = ttl[list[j]] /\ ttl[list[j]] \in Nat
      BY <1>7, <1>12, <1>13, <2>1, <3>1
    <3>3. D[j] = D[j - 1] + ttl[list[j]] /\ D[j - 1] \in Nat
      BY <1>3, <1>4, <2>1, <3>1
    <3> QED
      BY <2>2, <3>2, <3>3
  <2> QED
    BY <2>3, <2>4
<1>15. \A i \in 0 .. Len(q) : Dues(q, w)[i] = g[i]
  <2>1. q \in Seq(S) /\ g[0] = 0
    BY <1>6, <1>13
  <2> QED
    BY <1>14, <2>1, DuesUnique
<1>16. \A j \in 1 .. L - k + 1 : Dues(q, w)[j] = D[k + j - 1] - d
  <2>1. \A j \in 1 .. L - k + 1 : j \in 0 .. Len(q)
    BY <1>1, <1>2, <1>6
  <2> QED
    BY <1>13, <1>15, <2>1
<1> QED
  BY <1>11, <1>16 DEF q, w, D

-----------------------------------------------------------------------------
(* The delta list as a set of timers.                                        *)

\* The time left to each node of the list.
Remaining(list, ttl) == [n \in ToSet(list) |-> Dues(list, ttl)[PosOf(list, n)]]

\* On a list that holds each node once, the node at a position is there only.
LEMMA RemainingAt ==
  ASSUME NEW S, NEW list \in Seq(S), Once(list), NEW ttl
  PROVE  /\ DOMAIN Remaining(list, ttl) = ToSet(list)
         /\ \A j \in 1 .. Len(list) : /\ list[j] \in ToSet(list) /\ PosOf(list, list[j]) = j
                                      /\ Remaining(list, ttl)[list[j]] = Dues(list, ttl)[j]
<1>1. DOMAIN list = 1 .. Len(list)
  OBVIOUS
<1>2. ASSUME NEW j \in 1 .. Len(list) PROVE PosOf(list, list[j]) = j
  <2>1. \E i \in DOMAIN list : list[i] = list[j]
    BY <1>1
  <2>2. PosOf(list, list[j]) \in DOMAIN list /\ list[PosOf(list, list[j])] = list[j]
    BY <2>1 DEF PosOf
  <2> QED
    BY <1>1, <2>2 DEF Once
<1>3. ASSUME NEW j \in 1 .. Len(list) PROVE list[j] \in ToSet(list)
  BY <1>1 DEF ToSet
<1> QED
  BY <1>2, <1>3 DEF Remaining

\* What holds at every position holds of every node of the list.
LEMMA NodeAt ==
  ASSUME NEW S, NEW list \in Seq(S), NEW n \in ToSet(list)
  PROVE  \E j \in 1 .. Len(list) : n = list[j]
<1>1. DOMAIN list = 1 .. Len(list)
  OBVIOUS
<1> QED
  BY <1>1 DEF ToSet

\* dl_ins gives the node its ttl and leaves every other one its time.
LEMMA InsRemaining ==
  ASSUME NEW S, NEW list \in Seq(S), Once(list), NEW ttl \in [S -> Nat],
         NEW n \in S, n \notin ToSet(list), NEW r, r = dl_ins(list, ttl, n)
  PROVE  /\ r.list \in Seq(S) /\ Once(r.list) /\ ToSet(r.list) = ToSet(list) \cup {n}
         /\ r.ttl \in [S -> Nat]
         /\ \A m \in S : m \notin ToSet(list) /\ m # n => r.ttl[m] = ttl[m]
         /\ Remaining(r.list, r.ttl)[n] = ttl[n]
         /\ \A m \in ToSet(list) : Remaining(r.list, r.ttl)[m] = Remaining(list, ttl)[m]
<1>0. PICK spot : spot = FirstAfter(list, ttl, ttl[n])
  OBVIOUS
<1> DEFINE L == Len(list)
           D == Dues(list, ttl)
           q == r.list
           E == Dues(r.list, r.ttl)
           R == Remaining(list, ttl)
           P == Remaining(r.list, r.ttl)
           G == [m \in ToSet(list) \cup {n} |-> IF m = n THEN ttl[n] ELSE R[m]]
<1>1. /\ spot \in 1 .. L + 1
      /\ q = InsertAt(list, spot, n) /\ r.ttl \in [S -> Nat]
      /\ \A m \in S : m \notin ToSet(list) /\ m # n => r.ttl[m] = ttl[m]
      /\ \A j \in 0 .. spot - 1 : E[j] = D[j]
      /\ E[spot] = ttl[n]
      /\ \A j \in spot .. L : E[j + 1] = D[j]
  BY <1>0, InsKeepsDues
<1>2. L \in Nat /\ DOMAIN list = 1 .. L
  OBVIOUS
<1>3. /\ InsertAt(list, spot, n) \in Seq(S) /\ Len(InsertAt(list, spot, n)) = L + 1
      /\ \A i \in 1 .. spot - 1 : InsertAt(list, spot, n)[i] = list[i]
      /\ InsertAt(list, spot, n)[spot] = n
      /\ \A i \in spot .. L : InsertAt(list, spot, n)[i + 1] = list[i]
  <2>1. ASSUME NEW place \in 1 .. L + 1
        PROVE  /\ InsertAt(list, place, n) \in Seq(S) /\ Len(InsertAt(list, place, n)) = L + 1
               /\ InsertAt(list, place, n)[place] = n
    BY InsertShifts
  <2>2. ASSUME NEW place \in 1 .. L + 1, NEW at \in 1 .. place - 1
        PROVE  InsertAt(list, place, n)[at] = list[at]
    BY InsertShifts
  <2>3. ASSUME NEW place \in 1 .. L + 1, NEW at \in place .. L
        PROVE  InsertAt(list, place, n)[at + 1] = list[at]
    BY InsertShifts
  <2>4. spot \in 1 .. L + 1
    BY <1>1
  <2> QED
    BY <2>1, <2>2, <2>3, <2>4
<1>4. Once(InsertAt(list, spot, n)) /\ ToSet(InsertAt(list, spot, n)) = ToSet(list) \cup {n}
  BY <1>1, InsertOnce
<1> HIDE DEF q, E, D, R, P
<1>5. /\ q \in Seq(S) /\ Len(q) = L + 1 /\ Once(q) /\ ToSet(q) = ToSet(list) \cup {n}
      /\ \A i \in 1 .. spot - 1 : q[i] = list[i]
      /\ q[spot] = n
      /\ \A i \in spot .. L : q[i + 1] = list[i]
  BY <1>1, <1>3, <1>4
<1>6. \A j \in 1 .. L : list[j] \in ToSet(list) /\ R[list[j]] = D[j]
  BY RemainingAt DEF R, D
<1>7. DOMAIN P = ToSet(q) /\ \A j \in 1 .. Len(q) : P[q[j]] = E[j]
  <2>1. q \in Seq(S) /\ Once(q)
    BY <1>5
  <2> QED
    BY <2>1, RemainingAt DEF P, E, q
<1>8. ASSUME NEW j \in 1 .. Len(q) PROVE P[q[j]] = G[q[j]]
  <2>1. P[q[j]] = E[j] /\ j \in 1 .. L + 1
    BY <1>5, <1>7
  <2>2. CASE j < spot
    <3>1. j \in 1 .. spot - 1 /\ j \in 0 .. spot - 1 /\ j \in 1 .. L
      BY <1>1, <1>2, <2>1, <2>2
    <3>2. q[j] = list[j] /\ E[j] = D[j] /\ R[list[j]] = D[j] /\ list[j] \in ToSet(list)
      BY <1>1, <1>5, <1>6, <3>1
    <3> QED
      BY <2>1, <3>2
  <2>3. CASE j = spot
    BY <1>1, <1>5, <2>1, <2>3
  <2>4. CASE j > spot
    <3>1. j - 1 \in spot .. L /\ j - 1 + 1 = j /\ j - 1 \in 1 .. L
      BY <1>1, <1>2, <2>1, <2>4
    <3>2. /\ q[j] = list[j - 1] /\ E[j] = D[j - 1]
          /\ R[list[j - 1]] = D[j - 1] /\ list[j - 1] \in ToSet(list)
      BY <1>1, <1>5, <1>6, <3>1
    <3> QED
      BY <2>1, <3>2
  <2> QED
    BY <1>1, <1>2, <2>1, <2>2, <2>3, <2>4
<1>9. ASSUME NEW m \in ToSet(q) PROVE P[m] = G[m]
  <2>1. q \in Seq(S)
    BY <1>5
  <2>2. PICK j \in 1 .. Len(q) : m = q[j]
    BY <2>1, NodeAt
  <2> QED
    BY <1>8, <2>2
<1>10. P[n] = ttl[n] /\ \A m \in ToSet(list) : P[m] = R[m]
  <2>1. \A m \in ToSet(list) : m # n /\ m \in ToSet(q)
    BY <1>5
  <2>2. n \in ToSet(q)
    BY <1>5
  <2> QED
    BY <1>5, <1>9, <2>1, <2>2
<1> QED
  BY <1>1, <1>5, <1>10 DEF P, R, q

\* Contains looks for a node among those of the list.
LEMMA ContainsIs ==
  ASSUME NEW S, NEW list \in Seq(S), NEW n
  PROVE  Contains(list, n) <=> n \in ToSet(list)
<1>1. DOMAIN list = 1 .. Len(list)
  OBVIOUS
<1> QED
  BY <1>1 DEF Contains, ToSet

\* The ttl of a node that is not on the list does not matter to those that are.
LEMMA OthersWaitAlike ==
  ASSUME NEW S, NEW list \in Seq(S), Once(list), NEW ttl, NEW w,
         \A m \in ToSet(list) : w[m] = ttl[m]
  PROVE  Remaining(list, w) = Remaining(list, ttl)
<1> DEFINE D == Dues(list, ttl)
           R == Remaining(list, ttl)
           P == Remaining(list, w)
<1>1. /\ D[0] = 0
      /\ \A i \in 1 .. Len(list) : D[i] = D[i - 1] + ttl[list[i]]
  BY DuesAddUp
<1>2. \A i \in 1 .. Len(list) : list[i] \in ToSet(list) /\ R[list[i]] = D[i]
  BY RemainingAt
<1>3. \A i \in 1 .. Len(list) : P[list[i]] = Dues(list, w)[i]
  BY RemainingAt
<1> HIDE DEF D, R, P
<1>4. \A i \in 1 .. Len(list) : D[i] = D[i - 1] + w[list[i]]
  BY <1>1, <1>2
<1>5. \A i \in 0 .. Len(list) : Dues(list, w)[i] = D[i]
  <2>1. D[0] = 0
    BY <1>1
  <2> QED
    BY <1>4, <2>1, DuesUnique
<1>6. ASSUME NEW m \in ToSet(list) PROVE P[m] = R[m]
  <2>1. PICK j \in 1 .. Len(list) : m = list[j]
    BY NodeAt
  <2>2. j \in 0 .. Len(list)
    OBVIOUS
  <2> QED
    BY <1>2, <1>3, <1>5, <2>1, <2>2
<1>7. P = [m \in ToSet(list) |-> P[m]] /\ R = [m \in ToSet(list) |-> R[m]]
  BY DEF P, R, Remaining
<1>8. P = R
  BY <1>6, <1>7
<1> QED
  BY <1>8 DEF P, R

\* The times left are numbers, and grow along the list.
LEMMA RemainingGrows ==
  ASSUME NEW S, NEW list \in Seq(S), Once(list), NEW ttl \in [S -> Nat]
  PROVE  /\ \A m \in ToSet(list) : Remaining(list, ttl)[m] \in Nat
         /\ \A i, j \in 1 .. Len(list) :
              i <= j => Remaining(list, ttl)[list[i]] <= Remaining(list, ttl)[list[j]]
<1> DEFINE D == Dues(list, ttl)
           R == Remaining(list, ttl)
<1>1. \A j \in 1 .. Len(list) : R[list[j]] = D[j] /\ j \in 0 .. Len(list)
  BY RemainingAt
<1>2. /\ \A i \in 0 .. Len(list) : D[i] \in Nat
      /\ \A i, j \in 0 .. Len(list) : i <= j => D[i] <= D[j]
  BY DuesGrow
<1> HIDE DEF D, R
<1>3. ASSUME NEW m \in ToSet(list) PROVE R[m] \in Nat
  <2>1. PICK j \in 1 .. Len(list) : m = list[j]
    BY NodeAt
  <2> QED
    BY <1>1, <1>2, <2>1
<1> QED
  BY <1>1, <1>2, <1>3 DEF R

\* dl_rem changes the time of no other node.
LEMMA RemRemaining ==
  ASSUME NEW S, NEW list \in Seq(S), Once(list), NEW ttl \in [S -> Nat],
         NEW n \in ToSet(list), NEW r, r = dl_rem(list, ttl, n)
  PROVE  /\ r.list \in Seq(S) /\ Once(r.list) /\ ToSet(r.list) = ToSet(list) \ {n}
         /\ r.ttl \in [S -> Nat]
         /\ \A m \in S : m \notin ToSet(list) => r.ttl[m] = ttl[m]
         /\ \A m \in ToSet(list) : m # n => Remaining(r.list, r.ttl)[m] = Remaining(list, ttl)[m]
<1>0. PICK k : k = PosOf(list, n)
  OBVIOUS
<1> DEFINE L == Len(list)
           D == Dues(list, ttl)
           q == r.list
           E == Dues(r.list, r.ttl)
           R == Remaining(list, ttl)
           P == Remaining(r.list, r.ttl)
<1>1. /\ r.ttl \in [S -> Nat]
      /\ \A m \in S : m \notin ToSet(list) => r.ttl[m] = ttl[m]
      /\ \A j \in 0 .. L - 1 : E[j] = D[IF j < k THEN j ELSE j + 1]
  <2>1. /\ r.ttl \in [S -> Nat]
        /\ \A m \in S : m \notin ToSet(list) => r.ttl[m] = ttl[m]
    BY <1>0, RemKeepsDues
  <2>2. \A j \in 0 .. L - 1 : E[j] = D[IF j < k THEN j ELSE j + 1]
    BY <1>0, RemKeepsDues
  <2> QED
    BY <2>1, <2>2
<1>2. L \in Nat /\ k \in 1 .. L
  <2>1. DOMAIN list = 1 .. L /\ \E j \in DOMAIN list : list[j] = n
    BY DEF ToSet
  <2> QED
    BY <1>0, <2>1 DEF PosOf
<1>a. q = l_rem(list, n) /\ q = RemoveAt(list, k)
  <2>1. Contains(list, n)
    BY DEF ToSet, Contains
  <2> QED
    BY <1>0, <2>1 DEF dl_rem, l_rem
<1>3. /\ RemoveAt(list, k) \in Seq(S) /\ Len(RemoveAt(list, k)) = L - 1
      /\ \A i \in 1 .. L - 1 : RemoveAt(list, k)[i] = IF i < k THEN list[i] ELSE list[i + 1]
  BY <1>2, RemoveShifts
<1>4. Once(l_rem(list, n)) /\ ToSet(l_rem(list, n)) = ToSet(list) \ {n}
  BY RemoveOnce
<1> HIDE DEF q, E, D, R, P
<1>5. /\ q \in Seq(S) /\ Len(q) = L - 1 /\ Once(q) /\ ToSet(q) = ToSet(list) \ {n}
      /\ \A i \in 1 .. L - 1 : q[i] = IF i < k THEN list[i] ELSE list[i + 1]
  BY <1>a, <1>3, <1>4
<1>6. \A j \in 1 .. L : R[list[j]] = D[j]
  BY RemainingAt DEF R, D
<1>7. DOMAIN P = ToSet(q) /\ \A j \in 1 .. Len(q) : P[q[j]] = E[j]
  <2>1. q \in Seq(S) /\ Once(q)
    BY <1>5
  <2> QED
    BY <2>1, RemainingAt DEF P, E, q
<1>8. ASSUME NEW j \in 1 .. Len(q) PROVE P[q[j]] = R[q[j]]
  <2>1. P[q[j]] = E[j] /\ j \in 1 .. L - 1
    BY <1>5, <1>7
  <2>2. CASE j < k
    <3>1. j \in 0 .. L - 1 /\ j \in 1 .. L
      BY <1>2, <2>1, <2>2
    <3>2. q[j] = list[j] /\ E[j] = D[j] /\ R[list[j]] = D[j]
      BY <1>1, <1>5, <1>6, <2>1, <2>2, <3>1
    <3> QED
      BY <2>1, <3>2
  <2>3. CASE ~ (j < k)
    <3>1. j \in 0 .. L - 1 /\ j + 1 \in 1 .. L
      BY <1>2, <2>1, <2>3
    <3>2. q[j] = list[j + 1] /\ E[j] = D[j + 1] /\ R[list[j + 1]] = D[j + 1]
      BY <1>1, <1>5, <1>6, <2>1, <2>3, <3>1
    <3> QED
      BY <2>1, <3>2
  <2> QED
    BY <2>2, <2>3
<1>9. ASSUME NEW m \in ToSet(q) PROVE P[m] = R[m]
  <2>1. q \in Seq(S)
    BY <1>5
  <2>2. PICK j \in 1 .. Len(q) : m = q[j]
    BY <2>1, NodeAt
  <2> QED
    BY <1>8, <2>2
<1>10. \A m \in ToSet(list) : m # n => P[m] = R[m]
  BY <1>5, <1>9
<1> QED
  BY <1>1, <1>5, <1>10 DEF P, R, q

\* dl_adv takes off exactly the nodes whose time has passed, in the order of their
\* times, and the others have that much less left.
LEMMA AdvRemaining ==
  ASSUME NEW S, NEW list \in Seq(S), Once(list), NEW ttl \in [S -> Nat], NEW d \in Nat,
         NEW r, r = dl_adv(list, ttl, d),
         NEW gone, gone = { m \in ToSet(list) : Remaining(list, ttl)[m] <= d }
  PROVE  /\ r.out \in Seq(S) /\ Once(r.out) /\ ToSet(r.out) = gone
         /\ \A i, j \in 1 .. Len(r.out) :
              i < j => Remaining(list, ttl)[r.out[i]] <= Remaining(list, ttl)[r.out[j]]
         /\ r.list \in Seq(S) /\ Once(r.list) /\ ToSet(r.list) = ToSet(list) \ gone
         /\ r.ttl \in [S -> Nat]
         /\ \A m \in ToSet(list) \ gone : Remaining(r.list, r.ttl)[m] = Remaining(list, ttl)[m] - d
<1>0. PICK k : k = FirstAfter(list, ttl, d)
  OBVIOUS
<1> DEFINE L == Len(list)
           D == Dues(list, ttl)
           o == r.out
           q == r.list
           E == Dues(r.list, r.ttl)
           R == Remaining(list, ttl)
           P == Remaining(r.list, r.ttl)
<1>1. /\ r.ttl \in [S -> Nat]
      /\ \A j \in 1 .. L - k + 1 : E[j] = D[k + j - 1] - d
  BY <1>0, AdvKeepsDues
<1>a. o = SubSeq(list, 1, k - 1) /\ q = SubSeq(list, k, L)
  BY <1>0 DEF dl_adv
<1>2. k \in 1 .. L + 1 /\ \A j \in 1 .. L : j < k <=> D[j] <= d
  <2>1. d \in Int
    OBVIOUS
  <2> QED
    BY <1>0, <2>1, FirstAfterParts
<1>3. L \in Nat /\ k \in 1 .. L + 1 /\ DOMAIN list = 1 .. L
  BY <1>2
<1>4. \A j \in 1 .. L : R[list[j]] = D[j] /\ list[j] \in ToSet(list)
  BY RemainingAt
<1>5. /\ SubSeq(list, 1, k - 1) \in Seq(S) /\ Len(SubSeq(list, 1, k - 1)) = k - 1
      /\ \A i \in 1 .. k - 1 : SubSeq(list, 1, k - 1)[i] = list[i]
  BY <1>3, SubSeqProperties
<1>6. /\ SubSeq(list, k, L) \in Seq(S) /\ Len(SubSeq(list, k, L)) = L - k + 1
      /\ \A i \in 1 .. L - k + 1 : SubSeq(list, k, L)[i] = list[k + i - 1]
  BY <1>3, SubSeqProperties
<1>7. \A i, j \in 1 .. Len(list) : i <= j => R[list[i]] <= R[list[j]]
  BY RemainingGrows
<1> HIDE DEF o, q, E, D, R, P
<1>8. /\ o \in Seq(S) /\ Len(o) = k - 1 /\ DOMAIN o = 1 .. k - 1
      /\ \A i \in 1 .. k - 1 : o[i] = list[i] /\ i \in 1 .. L
  BY <1>a, <1>3, <1>5
<1>9. /\ q \in Seq(S) /\ Len(q) = L - k + 1 /\ DOMAIN q = 1 .. L - k + 1
      /\ \A i \in 1 .. L - k + 1 : q[i] = list[k + i - 1] /\ k + i - 1 \in 1 .. L
  BY <1>a, <1>3, <1>6
<1>10. \A i, j \in 1 .. L : list[i] = list[j] => i = j
  BY <1>3 DEF Once
<1>11. Once(o)
  BY <1>8, <1>10 DEF Once
<1>12. Once(q)
  <2> SUFFICES ASSUME NEW i \in 1 .. L - k + 1, NEW j \in 1 .. L - k + 1, q[i] = q[j]
               PROVE  i = j
    BY <1>9 DEF Once
  <2>1. k + i - 1 = k + j - 1
    BY <1>9, <1>10, ZenonT(40)
  <2> QED
    BY <1>3, <2>1
<1>13. gone = { m \in ToSet(list) : R[m] <= d }
  BY DEF R
<1>14. \A j \in 1 .. L : list[j] \in gone <=> j < k
  BY <1>2, <1>4, <1>13
<1>15. ToSet(o) = gone
  <2>1. ASSUME NEW m \in gone PROVE m \in ToSet(o)
    <3>1. m \in ToSet(list)
      BY <1>13
    <3>2. PICK j \in 1 .. L : m = list[j]
      BY <3>1, NodeAt
    <3>3. j \in 1 .. k - 1
      BY <1>3, <1>14, <2>1, <3>2
    <3> QED
      BY <1>8, <3>2, <3>3 DEF ToSet
  <2>2. ASSUME NEW m \in ToSet(o) PROVE m \in gone
    <3>1. PICK j \in 1 .. k - 1 : m = o[j]
      BY <1>8 DEF ToSet
    <3>2. j < k
      BY <1>3, <3>1
    <3> QED
      BY <1>8, <1>14, <3>1, <3>2
  <2> QED
    BY <2>1, <2>2
<1>16. ToSet(q) = ToSet(list) \ gone
  <2>1. ASSUME NEW m \in ToSet(list) \ gone PROVE m \in ToSet(q)
    <3>1. PICK j \in 1 .. L : m = list[j]
      BY NodeAt
    <3>2. j - k + 1 \in 1 .. L - k + 1 /\ k + (j - k + 1) - 1 = j
      BY <1>3, <1>14, <2>1, <3>1
    <3>3. q[j - k + 1] = list[j]
      BY <1>9, <3>2
    <3> QED
      BY <1>9, <3>1, <3>2, <3>3 DEF ToSet
  <2>2. ASSUME NEW m \in ToSet(q) PROVE m \in ToSet(list) \ gone
    <3>1. PICK j \in 1 .. L - k + 1 : m = q[j]
      BY <1>9 DEF ToSet
    <3>2. k + j - 1 \in 1 .. L /\ ~ (k + j - 1 < k) /\ m = list[k + j - 1]
      BY <1>3, <1>9, <3>1
    <3> QED
      BY <1>4, <1>14, <3>2
  <2> QED
    BY <2>1, <2>2
<1>17. \A i, j \in 1 .. Len(o) : i < j => R[o[i]] <= R[o[j]]
  <2> SUFFICES ASSUME NEW i \in 1 .. k - 1, NEW j \in 1 .. k - 1, i < j
               PROVE  R[o[i]] <= R[o[j]]
    BY <1>8
  <2>1. i <= j /\ i \in 1 .. L /\ j \in 1 .. L
    BY <1>3, <1>8
  <2> QED
    BY <1>7, <1>8, <2>1
<1>18. DOMAIN P = ToSet(q) /\ \A j \in 1 .. Len(q) : P[q[j]] = E[j]
  <2>1. q \in Seq(S) /\ Once(q)
    BY <1>9, <1>12
  <2> QED
    BY <2>1, RemainingAt DEF P, E, q
<1>19. ASSUME NEW m \in ToSet(q) PROVE P[m] = R[m] - d
  <2>1. q \in Seq(S)
    BY <1>9
  <2>2. PICK j \in 1 .. Len(q) : m = q[j]
    BY <2>1, NodeAt
  <2>3. /\ j \in 1 .. L - k + 1 /\ k + j - 1 \in 1 .. L /\ q[j] = list[k + j - 1]
    BY <1>9
  <2>4. P[q[j]] = D[k + j - 1] - d
    BY <1>1, <1>18, <2>3 DEF E, D
  <2> QED
    BY <1>4, <2>2, <2>3, <2>4
<1>20. \A m \in ToSet(list) \ gone : P[m] = R[m] - d
  BY <1>16, <1>19
<1> QED
  BY <1>1, <1>8, <1>9, <1>11, <1>12, <1>15, <1>16, <1>17, <1>20 DEF P, R, q, o

\* dl_adv parts the list in what has expired and what has not.
LEMMA AdvSplits ==
  ASSUME NEW S, NEW list \in Seq(S), Once(list), NEW ttl \in [S -> Nat], NEW d \in Nat,
         NEW r, r = dl_adv(list, ttl, d)
  PROVE  /\ r.out \in Seq(S) /\ Once(r.out)
         /\ r.list \in Seq(S) /\ Once(r.list) /\ r.ttl \in [S -> Nat]
         /\ ToSet(r.out) \subseteq ToSet(list) /\ ToSet(r.list) \subseteq ToSet(list)
         /\ \A m \in ToSet(r.out) : Remaining(list, ttl)[m] <= d
         /\ \A m \in ToSet(r.list) : /\ ~ (Remaining(list, ttl)[m] <= d)
                                     /\ Remaining(r.list, r.ttl)[m] = Remaining(list, ttl)[m] - d
<1>1. PICK gone : gone = { m \in ToSet(list) : Remaining(list, ttl)[m] <= d }
  OBVIOUS
<1>2. r.out \in Seq(S) /\ Once(r.out)
  BY <1>1, AdvRemaining
<1>3. r.list \in Seq(S) /\ Once(r.list)
  BY <1>1, AdvRemaining
<1>4. r.ttl \in [S -> Nat]
  BY <1>1, AdvRemaining
<1>5. ToSet(r.out) = gone
  BY <1>1, AdvRemaining
<1>6. ToSet(r.list) = ToSet(list) \ gone
  BY <1>1, AdvRemaining
<1>7. \A m \in ToSet(list) \ gone : Remaining(r.list, r.ttl)[m] = Remaining(list, ttl)[m] - d
  BY <1>1, AdvRemaining, Z3T(30)
<1> QED
  BY <1>1, <1>2, <1>3, <1>4, <1>5, <1>6, <1>7

\* Unlinking the first node, as dl_deq does, takes its time off all the others'.
LEMMA TailRemaining ==
  ASSUME NEW S, NEW list \in Seq(S), list # << >>, Once(list), NEW ttl \in [S -> Nat],
         NEW h, h = Head(list)
  PROVE  /\ Tail(list) \in Seq(S) /\ Once(Tail(list)) /\ ToSet(Tail(list)) = ToSet(list) \ {h}
         /\ h \in ToSet(list)
         /\ \A m \in ToSet(list) : Remaining(list, ttl)[h] <= Remaining(list, ttl)[m]
         /\ \A m \in ToSet(list) \ {h} :
              Remaining(Tail(list), ttl)[m] = Remaining(list, ttl)[m] - Remaining(list, ttl)[h]
<1>0. PICK q : q = Tail(list)
  OBVIOUS
<1> DEFINE L == Len(list)
           D == Dues(list, ttl)
           E == Dues(q, ttl)
           R == Remaining(list, ttl)
           P == Remaining(q, ttl)
<1>1. L \in Nat /\ L > 0 /\ DOMAIN list = 1 .. L /\ h = list[1] /\ 1 \in 1 .. L
  BY EmptySeq
<1>2. /\ q \in Seq(S) /\ Len(q) = L - 1
      /\ \A i \in 1 .. L - 1 : q[i] = list[i + 1] /\ i + 1 \in 1 .. L
  BY <1>0, <1>1, HeadTailProperties
<1>3. DOMAIN q = 1 .. L - 1
  BY <1>2
<1>4. D[0] = 0 /\ \A j \in 1 .. L : D[j] = D[j - 1] + ttl[list[j]]
  BY DuesAddUp
<1>5. \A j \in 0 .. L : D[j] \in Nat
  BY DuesGrow
<1>6. \A i \in 1 .. L : ttl[list[i]] \in Nat /\ list[i] \in S
  BY <1>1
<1>7. \A j \in 1 .. L : list[j] \in ToSet(list) /\ R[list[j]] = D[j]
  BY RemainingAt
<1>8. \A i, j \in 1 .. L : i <= j => R[list[i]] <= R[list[j]]
  BY RemainingGrows
<1>9. \A i, j \in 1 .. L : list[i] = list[j] => i = j
  BY <1>1 DEF Once
<1> HIDE DEF D, E, R, P
<1> DEFINE g == [j \in 0 .. L - 1 |-> D[j + 1] - D[1]]
<1>10. \A j \in 0 .. Len(q) : E[j] = g[j]
  <2>1. \A j \in 0 .. L - 1 : g[j] = D[j + 1] - D[1]
    OBVIOUS
  <2> HIDE DEF g
  <2>2. g[0] = 0
    BY <1>1, <1>5, <2>1
  <2>3. ASSUME NEW j \in 1 .. Len(q) PROVE g[j] = g[j - 1] + ttl[q[j]]
    <3>1. /\ j \in 1 .. L - 1 /\ j \in 0 .. L - 1 /\ j - 1 \in 0 .. L - 1 /\ j - 1 + 1 = j
          /\ j + 1 \in 1 .. L /\ j + 1 - 1 = j /\ j \in 0 .. L /\ 1 \in 0 .. L /\ j + 1 \in 0 .. L
      BY <1>1, <1>2
    <3>2. g[j] = D[j + 1] - D[1] /\ g[j - 1] = D[j] - D[1] /\ q[j] = list[j + 1]
      BY <1>2, <2>1, <3>1
    <3>3. D[j + 1] = D[j] + ttl[list[j + 1]] /\ D[j] \in Nat /\ D[1] \in Nat /\ ttl[list[j + 1]] \in Nat
      BY <1>4, <1>5, <1>6, <3>1
    <3> QED
      BY <3>2, <3>3
  <2>4. q \in Seq(S)
    BY <1>2
  <2> QED
    BY <2>2, <2>3, <2>4, DuesUnique DEF E
<1>11. \A j \in 1 .. L - 1 : E[j] = D[j + 1] - D[1]
  BY <1>1, <1>2, <1>10
<1>12. Once(q)
  <2> SUFFICES ASSUME NEW i \in 1 .. L - 1, NEW j \in 1 .. L - 1, q[i] = q[j]
               PROVE  i = j
    BY <1>3 DEF Once
  <2>1. i + 1 = j + 1
    BY <1>2, <1>9
  <2> QED
    BY <2>1
<1>13. ToSet(q) = ToSet(list) \ {h}
  <2>1. ASSUME NEW m \in ToSet(list) \ {h} PROVE m \in ToSet(q)
    <3>1. PICK j \in 1 .. L : m = list[j]
      BY NodeAt
    <3>2. j - 1 \in 1 .. L - 1 /\ j - 1 + 1 = j
      BY <1>1, <2>1, <3>1
    <3>3. q[j - 1] = m
      BY <1>2, <3>1, <3>2
    <3> QED
      BY <1>3, <3>2, <3>3 DEF ToSet
  <2>2. ASSUME NEW m \in ToSet(q) PROVE m \in ToSet(list) \ {h}
    <3>1. PICK j \in 1 .. L - 1 : m = q[j]
      BY <1>3 DEF ToSet
    <3>2. m = list[j + 1] /\ j + 1 \in 1 .. L /\ j + 1 # 1
      BY <1>1, <1>2, <3>1
    <3> QED
      BY <1>1, <1>7, <1>9, <3>2
  <2> QED
    BY <2>1, <2>2
<1>14. h \in ToSet(list) /\ R[h] = D[1]
  BY <1>1, <1>7
<1>15. \A m \in ToSet(list) : R[h] <= R[m]
  <2> SUFFICES ASSUME NEW m \in ToSet(list) PROVE R[h] <= R[m]
    OBVIOUS
  <2>1. PICK j \in 1 .. L : m = list[j]
    BY NodeAt
  <2>2. 1 <= j
    OBVIOUS
  <2> QED
    BY <1>1, <1>8, <2>1, <2>2
<1>16. \A j \in 1 .. Len(q) : P[q[j]] = E[j]
  BY <1>2, <1>12, RemainingAt DEF P, E
<1>17. ASSUME NEW m \in ToSet(q) PROVE P[m] = R[m] - R[h]
  <2>0. q \in Seq(S)
    BY <1>2
  <2>1. PICK j \in 1 .. Len(q) : m = q[j]
    BY <2>0, NodeAt
  <2>2. j \in 1 .. L - 1 /\ q[j] = list[j + 1] /\ j + 1 \in 1 .. L
    BY <1>2
  <2>3. P[m] = D[j + 1] - D[1]
    BY <1>11, <1>16, <2>1, <2>2
  <2> QED
    BY <1>7, <1>14, <2>1, <2>2, <2>3
<1>18. \A m \in ToSet(list) \ {h} : P[m] = R[m] - R[h]
  BY <1>13, <1>17
<1> QED
  BY <1>0, <1>2, <1>12, <1>13, <1>14, <1>15, <1>18 DEF P, R
=============================================================================
