----------------------------- MODULE TimerQueue -----------------------------
(***************************************************************************)
(* The delta list as an object: any sequence of the calls of               *)
(* include/cat/dlist.h on one list.  It implements TimerSet.               *)
(***************************************************************************)
EXTENDS DList

CONSTANTS
  Node,     \* the dlist nodes
  Ttl,      \* times a caller asks for, negative ones included
  Delta     \* times by which a caller advances the list

ASSUME TimesAssumption == Ttl \subseteq Int /\ Delta \subseteq Nat

VARIABLES
  list,   \* the nodes on the list, in order
  ttl,    \* node -> its ttl field
  out     \* the nodes the last dl_adv or dl_deq took off

vars == <<list, ttl, out>>

Init ==
  /\ list = << >>
  /\ ttl = [n \in Node |-> 0]
  /\ out = << >>

Becomes(r) == list' = r.list /\ ttl' = r.ttl

\* dl_init and dl_ins.
Ins(n, v) ==
  /\ ~Contains(list, n)
  /\ Becomes(dl_ins(list, dl_init(ttl, n, v), n))
  /\ out' = << >>

\* dl_ins of a node that was on the list before, with the ttl it was left with.
InsAgain(n) ==
  /\ ~Contains(list, n)
  /\ Becomes(dl_ins(list, ttl, n))
  /\ out' = << >>

Rem(n) ==
  /\ Becomes(dl_rem(list, ttl, n))
  /\ out' = << >>

Update(n, v) ==
  LET r == dl_rem(list, ttl, n) IN
  /\ Becomes(dl_ins(r.list, dl_init(r.ttl, n, v), n))
  /\ out' = << >>

\* dl_deq unlinks the head; the others' times now count from its expiry.
Deq ==
  /\ list # << >>
  /\ list' = Tail(list)
  /\ out' = << Head(list) >>
  /\ UNCHANGED ttl

Adv(d) ==
  LET r == dl_adv(list, ttl, d) IN
  /\ Becomes(r)
  /\ out' = r.out

Next ==
  \/ \E n \in Node, v \in Ttl : Ins(n, v) \/ Update(n, v)
  \/ \E n \in Node : InsAgain(n) \/ Rem(n)
  \/ Deq
  \/ \E d \in Delta : Adv(d)

Spec == Init /\ [][Next]_vars

-----------------------------------------------------------------------------
(* Properties. *)

\* No node is linked twice and no wait is negative, whatever the calls.
TypeOK ==
  /\ list \in Seq(Node)
  /\ \A i, j \in DOMAIN list : list[i] = list[j] => i = j
  /\ ttl \in [Node -> Nat]

\* Nodes due at the same time keep the order in which they were inserted: a new
\* node goes behind those that expire when it does.
FifoAmongEqual ==
  [][\A n \in Node : ~Contains(list, n) /\ Contains(list', n) =>
        LET i   == PosOf(list', n)
            due == Dues(list', ttl')
        IN  i < Len(list') => due[i] < due[i + 1]]_vars

\* A node given v to wait expires v later, wherever it lands in the list and
\* whether or not it was on the list before.
WaitsAsAsked ==
  [][\A n \in Node, v \in Ttl :
       Ins(n, v) \/ Update(n, v) =>
         Dues(list', ttl')[PosOf(list', n)] = IF v < 0 THEN 0 ELSE v]_vars

\* The list is the set of timers it is meant to be: the time left to a node is
\* the sum of the waits up to it, an operation changes no other node's time, and
\* exactly the nodes whose time has passed come out, in order.
Timers == INSTANCE TimerSet WITH
  Timer <- Node,
  Time  <- Delta,
  left  <- [n \in ToSet(list) |-> Dues(list, ttl)[PosOf(list, n)]]

ImplementsTimerSet == Timers!Spec
=============================================================================
