-------------------------------- MODULE DList --------------------------------
(***************************************************************************)
(* The delta list of include/cat/dlist.h: a list of nodes in the order in  *)
(* which they expire, each with the time between its predecessor's expiry  *)
(* and its own.  A list is a sequence of nodes; ttl holds the ttl field of *)
(* every node, on the list or off it.  An operation on both returns        *)
(* [list |-> ..., ttl |-> ...].                                            *)
(***************************************************************************)
EXTENDS Integers, Sequences, FiniteSets, SequencesExt

\* When each position of the list expires: the sum of the ttls up to it.
Dues(list, ttl) ==
  LET due[i \in 0 .. Len(list)] == IF i = 0 THEN 0 ELSE due[i - 1] + ttl[list[i]]
  IN  due

\* The first position that expires after time v; Len(list) + 1 if there is none.
FirstAfter(list, ttl, v) ==
  LET due   == Dues(list, ttl)
      later == { i \in DOMAIN list : due[i] > v }
  IN  IF later = {} THEN Len(list) + 1 ELSE Min(later)

\* dl_init: a negative ttl counts as zero.
dl_init(ttl, n, v) == [ttl EXCEPT ![n] = IF v < 0 THEN 0 ELSE v]

\* Fault: a node goes in front of those that expire at the same time.
InsBeforeEqual(list, ttl, n) ==
  LET due  == Dues(list, ttl)
      rest == { i \in DOMAIN list : due[i] >= ttl[n] }
      i    == IF rest = {} THEN Len(list) + 1 ELSE Min(rest)
      v    == ttl[n] - due[i - 1]
  IN  [list |-> InsertAt(list, i, n),
       ttl  |-> [m \in DOMAIN ttl |->
                   IF m = n THEN v
                   ELSE IF i <= Len(list) /\ m = list[i] THEN ttl[m] - v
                   ELSE ttl[m]]]

\* Fault: the node waits its full time from its predecessor's expiry.
InsFullWait(list, ttl, n) ==
  LET i == FirstAfter(list, ttl, ttl[n])
  IN  [list |-> InsertAt(list, i, n), ttl |-> ttl]

\* dl_ins of a node that is on no list, to expire after its ttl.
dl_ins(list, ttl, n) ==
  LET i == FirstAfter(list, ttl, ttl[n])
      v == ttl[n] - Dues(list, ttl)[i - 1]
  IN  [list |-> InsertAt(list, i, n),
       ttl  |-> [m \in DOMAIN ttl |->
                   IF m = n THEN v
                   ELSE IF i <= Len(list) /\ m = list[i] THEN ttl[m] - v
                   ELSE ttl[m]]]

\* dl_first: the time to the first expiry, negative if there is none.
dl_first(list, ttl) == IF list = << >> THEN -1 ELSE ttl[Head(list)]

\* The position of n, which is on the list.
PosOf(list, n) == CHOOSE i \in DOMAIN list : list[i] = n

\* l_rem: a node that is on no list links to itself and stays so.
l_rem(list, n) == IF Contains(list, n) THEN RemoveAt(list, PosOf(list, n)) ELSE list

\* dl_rem: what n had to wait, the node behind it waits instead.
dl_rem(list, ttl, n) ==
  [list |-> l_rem(list, n),
   ttl  |-> IF Contains(list, n) /\ n # Last(list)
            THEN [ttl EXCEPT ![list[PosOf(list, n) + 1]] = @ + ttl[n]]
            ELSE ttl]

\* Fault: what is due exactly now stays on the list.
AdvKeepsEqual(list, ttl, delta) ==
  LET due == Dues(list, ttl)
      later == { i \in DOMAIN list : due[i] >= delta }
      i   == IF later = {} THEN Len(list) + 1 ELSE Min(later)
  IN  [out  |-> SubSeq(list, 1, i - 1),
       list |-> SubSeq(list, i, Len(list)),
       ttl  |-> IF i > Len(list) THEN ttl
                ELSE [ttl EXCEPT ![list[i]] = @ - (delta - due[i - 1])]]

\* dl_adv by delta: the nodes that expire move to out, in order, and the first of
\* the others has that much less to wait.
dl_adv(list, ttl, delta) ==
  LET i == FirstAfter(list, ttl, delta)
  IN  [out  |-> SubSeq(list, 1, i - 1),
       list |-> SubSeq(list, i, Len(list)),
       ttl  |-> IF i > Len(list) THEN ttl
                ELSE [ttl EXCEPT ![list[i]] = @ - (delta - Dues(list, ttl)[i - 1])]]
=============================================================================
