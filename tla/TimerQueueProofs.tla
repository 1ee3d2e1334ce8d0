--------------------------- MODULE TimerQueueProofs ---------------------------
(***************************************************************************)
(* The delta list implements TimerSet for any nodes and any times: every   *)
(* call of include/cat/dlist.h is one step of the set of timers.           *)
(***************************************************************************)
EXTENDS TimerQueue, DListProofs

\* The set of timers with any natural number as a time; Timers of TimerQueue has the
\* times TLC enumerates.
AnyTime == INSTANCE TimerSet WITH
  Timer <- Node,
  Time  <- Nat,
  left  <- Remaining(list, ttl)

\* dl_ins on a list l that does not hold the node, whatever the list was before.
LEMMA PutStep ==
  ASSUME NEW l \in Seq(Node), Once(l), NEW w \in [Node -> Nat],
         NEW n \in Node, n \notin ToSet(l), Becomes(dl_ins(l, w, n))
  PROVE  /\ TypeOK' /\ ToSet(list') = ToSet(l) \cup {n}
         /\ Remaining(list', ttl')[n] = w[n]
         /\ \A m \in ToSet(l) : Remaining(list', ttl')[m] = Remaining(l, w)[m]
<1>1. PICK r : r = dl_ins(l, w, n)
  OBVIOUS
<1>2. list' = r.list /\ ttl' = r.ttl
  BY <1>1 DEF Becomes
<1>3. /\ r.list \in Seq(Node) /\ Once(r.list) /\ ToSet(r.list) = ToSet(l) \cup {n}
      /\ r.ttl \in [Node -> Nat]
      /\ Remaining(r.list, r.ttl)[n] = w[n]
      /\ \A m \in ToSet(l) : Remaining(r.list, r.ttl)[m] = Remaining(l, w)[m]
  BY <1>1, InsRemaining
<1> QED
  BY <1>2, <1>3 DEF TypeOK, Once

\* dl_init sets the time of one node, which is not on the list.
LEMMA InitStep ==
  ASSUME NEW l \in Seq(Node), Once(l), NEW w \in [Node -> Nat],
         NEW n \in Node, n \notin ToSet(l), NEW v \in Int
  PROVE  /\ dl_init(w, n, v) \in [Node -> Nat]
         /\ dl_init(w, n, v)[n] = IF v < 0 THEN 0 ELSE v
         /\ Remaining(l, dl_init(w, n, v)) = Remaining(l, w)
<1>1. PICK z : z = dl_init(w, n, v)
  OBVIOUS
<1>2. z \in [Node -> Nat] /\ z[n] = IF v < 0 THEN 0 ELSE v
  BY <1>1 DEF dl_init
<1>3. \A m \in ToSet(l) : m \in Node /\ m # n
  <2> SUFFICES ASSUME NEW m \in ToSet(l) PROVE m \in Node /\ m # n
    OBVIOUS
  <2>1. PICK j \in 1 .. Len(l) : m = l[j]
    BY NodeAt
  <2> QED
    BY <2>1
<1>4. \A m \in ToSet(l) : z[m] = w[m]
  BY <1>1, <1>3 DEF dl_init
<1>5. Remaining(l, z) = Remaining(l, w)
  BY <1>4, OthersWaitAlike
<1> QED
  BY <1>1, <1>2, <1>5

\* A step after which n has v left and no other node another time than before.
LEMMA PutIs ==
  ASSUME NEW n \in Node, NEW v, out' = << >>,
         ToSet(list') = ToSet(list) \cup {n},
         Remaining(list', ttl')[n] = v,
         \A m \in ToSet(list) : m # n => Remaining(list', ttl')[m] = Remaining(list, ttl)[m]
  PROVE  AnyTime!Put(n, v)
<1>1. DOMAIN Remaining(list, ttl) = ToSet(list)
  BY DEF Remaining
<1>2. Remaining(list', ttl') = [m \in ToSet(list') |-> Remaining(list', ttl')[m]]
  BY DEF Remaining
<1>3. Remaining(list', ttl') =
        [m \in ToSet(list) \cup {n} |-> IF m = n THEN v ELSE Remaining(list, ttl)[m]]
  BY <1>2
<1> QED
  BY <1>1, <1>3 DEF AnyTime!Put

\* A node's time is set: a step of the set of timers.
LEMMA InsImplements ==
  ASSUME TypeOK, NEW n \in Node, NEW v \in Int, Ins(n, v)
  PROVE  TypeOK' /\ AnyTime!Put(n, IF v < 0 THEN 0 ELSE v)
<1>1. list \in Seq(Node) /\ Once(list) /\ ttl \in [Node -> Nat] /\ n \notin ToSet(list)
  BY ContainsIs DEF TypeOK, Once, Ins
<1>2. PICK w : w = dl_init(ttl, n, v)
  OBVIOUS
<1>3. /\ w \in [Node -> Nat] /\ w[n] = IF v < 0 THEN 0 ELSE v
      /\ Remaining(list, w) = Remaining(list, ttl)
  BY <1>1, <1>2, InitStep
<1>4. Becomes(dl_ins(list, w, n)) /\ out' = << >>
  BY <1>2 DEF Ins
<1>5. /\ TypeOK' /\ ToSet(list') = ToSet(list) \cup {n}
      /\ Remaining(list', ttl')[n] = w[n]
      /\ \A m \in ToSet(list) : Remaining(list', ttl')[m] = Remaining(list, w)[m]
  BY <1>1, <1>3, <1>4, PutStep
<1> QED
  BY <1>1, <1>3, <1>4, <1>5, PutIs

LEMMA InsAgainImplements ==
  ASSUME TypeOK, NEW n \in Node, InsAgain(n)
  PROVE  TypeOK' /\ AnyTime!Put(n, ttl[n])
<1>1. list \in Seq(Node) /\ Once(list) /\ ttl \in [Node -> Nat] /\ n \notin ToSet(list)
  BY ContainsIs DEF TypeOK, Once, InsAgain
<1>2. Becomes(dl_ins(list, ttl, n)) /\ out' = << >>
  BY DEF InsAgain
<1>3. /\ TypeOK' /\ ToSet(list') = ToSet(list) \cup {n}
      /\ Remaining(list', ttl')[n] = ttl[n]
      /\ \A m \in ToSet(list) : Remaining(list', ttl')[m] = Remaining(list, ttl)[m]
  BY <1>1, <1>2, PutStep
<1> QED
  BY <1>1, <1>2, <1>3, PutIs

\* dl_rem of a node that may be on the list or off it, as a step of any list.
LEMMA RemStep ==
  ASSUME TypeOK, NEW n \in Node, NEW r, r = dl_rem(list, ttl, n)
  PROVE  /\ r.list \in Seq(Node) /\ Once(r.list) /\ ToSet(r.list) = ToSet(list) \ {n}
         /\ r.ttl \in [Node -> Nat]
         /\ \A m \in ToSet(list) : m # n => Remaining(r.list, r.ttl)[m] = Remaining(list, ttl)[m]
<1>1. list \in Seq(Node) /\ Once(list) /\ ttl \in [Node -> Nat]
  BY DEF TypeOK, Once
<1>2. CASE n \in ToSet(list)
  BY <1>1, <1>2, RemRemaining
<1>3. CASE n \notin ToSet(list)
  <2>1. ~ Contains(list, n)
    BY <1>1, <1>3, ContainsIs
  <2>2. r.list = list /\ r.ttl = ttl
    BY <2>1 DEF dl_rem, l_rem
  <2> QED
    BY <1>1, <1>3, <2>2
<1> QED
  BY <1>2, <1>3

LEMMA RemImplements ==
  ASSUME TypeOK, NEW n \in Node, Rem(n)
  PROVE  TypeOK' /\ AnyTime!Drop(n)
<1>1. PICK r : r = dl_rem(list, ttl, n)
  OBVIOUS
<1>2. list' = r.list /\ ttl' = r.ttl /\ out' = << >>
  BY <1>1 DEF Rem, Becomes
<1>3. /\ r.list \in Seq(Node) /\ Once(r.list) /\ ToSet(r.list) = ToSet(list) \ {n}
      /\ r.ttl \in [Node -> Nat]
      /\ \A m \in ToSet(list) : m # n => Remaining(r.list, r.ttl)[m] = Remaining(list, ttl)[m]
  BY <1>1, RemStep
<1>4. TypeOK'
  BY <1>2, <1>3 DEF TypeOK, Once
<1>5. DOMAIN Remaining(list, ttl) = ToSet(list)
  BY DEF Remaining
<1>6. Remaining(list', ttl') = [m \in ToSet(list') |-> Remaining(list', ttl')[m]]
  BY DEF Remaining
<1>7. Remaining(list', ttl') = [m \in ToSet(list) \ {n} |-> Remaining(list, ttl)[m]]
  BY <1>2, <1>3, <1>6
<1> QED
  BY <1>2, <1>4, <1>5, <1>7 DEF AnyTime!Drop, AnyTime!Without

\* Taken off, given its time and linked again: one step of the set of timers.
LEMMA UpdateImplements ==
  ASSUME TypeOK, NEW n \in Node, NEW v \in Int, Update(n, v)
  PROVE  TypeOK' /\ AnyTime!Put(n, IF v < 0 THEN 0 ELSE v)
<1>1. PICK r : r = dl_rem(list, ttl, n)
  OBVIOUS
<1>2. /\ r.list \in Seq(Node) /\ Once(r.list) /\ ToSet(r.list) = ToSet(list) \ {n}
      /\ r.ttl \in [Node -> Nat]
      /\ \A m \in ToSet(list) : m # n => Remaining(r.list, r.ttl)[m] = Remaining(list, ttl)[m]
  BY <1>1, RemStep
<1>3. PICK w : w = dl_init(r.ttl, n, v)
  OBVIOUS
<1>4. n \notin ToSet(r.list)
  BY <1>2
<1>5. /\ w \in [Node -> Nat] /\ w[n] = IF v < 0 THEN 0 ELSE v
      /\ Remaining(r.list, w) = Remaining(r.list, r.ttl)
  BY <1>2, <1>3, <1>4, InitStep
<1>6. Becomes(dl_ins(r.list, w, n)) /\ out' = << >>
  BY <1>1, <1>3 DEF Update
<1>7. /\ TypeOK' /\ ToSet(list') = ToSet(r.list) \cup {n}
      /\ Remaining(list', ttl')[n] = w[n]
      /\ \A m \in ToSet(r.list) : Remaining(list', ttl')[m] = Remaining(r.list, w)[m]
  BY <1>2, <1>4, <1>5, <1>6, PutStep
<1>8. ToSet(list') = ToSet(list) \cup {n}
  BY <1>2, <1>7
<1>9. \A m \in ToSet(list) : m # n => Remaining(list', ttl')[m] = Remaining(list, ttl)[m]
  BY <1>2, <1>5, <1>7
<1> QED
  BY <1>5, <1>6, <1>7, <1>8, <1>9, PutIs

\* The head comes out alone: its time is taken for passed.
LEMMA DeqImplements ==
  ASSUME TypeOK, Deq
  PROVE  TypeOK' /\ AnyTime!TakeFirst
<1>1. list \in Seq(Node) /\ Once(list) /\ ttl \in [Node -> Nat] /\ list # << >>
  BY DEF TypeOK, Once, Deq
<1>2. PICK h : h = Head(list)
  OBVIOUS
<1>3. list' = Tail(list) /\ out' = << h >> /\ ttl' = ttl
  BY <1>2 DEF Deq
<1>4. /\ Tail(list) \in Seq(Node) /\ Once(Tail(list)) /\ ToSet(Tail(list)) = ToSet(list) \ {h}
      /\ h \in ToSet(list)
      /\ \A m \in ToSet(list) : Remaining(list, ttl)[h] <= Remaining(list, ttl)[m]
      /\ \A m \in ToSet(list) \ {h} :
           Remaining(Tail(list), ttl)[m] = Remaining(list, ttl)[m] - Remaining(list, ttl)[h]
  BY <1>1, <1>2, TailRemaining
<1>5. TypeOK'
  BY <1>1, <1>3, <1>4 DEF TypeOK, Once
<1>6. DOMAIN Remaining(list, ttl) = ToSet(list)
  BY DEF Remaining
<1>7. Remaining(list', ttl') = [m \in ToSet(list') |-> Remaining(list', ttl')[m]]
  BY DEF Remaining
<1>8. Remaining(list', ttl') =
        [m \in ToSet(list) \ {h} |-> Remaining(list, ttl)[m] - Remaining(list, ttl)[h]]
  BY <1>3, <1>4, <1>7
<1> QED
  BY <1>3, <1>4, <1>5, <1>6, <1>8 DEF AnyTime!TakeFirst

\* Time passes: what expires within it comes out, in order.
LEMMA AdvImplements ==
  ASSUME TypeOK, NEW d \in Nat, Adv(d)
  PROVE  TypeOK' /\ AnyTime!Advance(d)
<1>1. list \in Seq(Node) /\ Once(list) /\ ttl \in [Node -> Nat]
  BY DEF TypeOK, Once
<1>2. PICK r : r = dl_adv(list, ttl, d)
  OBVIOUS
<1>3. PICK gone : gone = { m \in ToSet(list) : Remaining(list, ttl)[m] <= d }
  OBVIOUS
<1>4. list' = r.list /\ ttl' = r.ttl /\ out' = r.out
  BY <1>2 DEF Adv, Becomes
<1>5. /\ r.out \in Seq(Node) /\ Once(r.out) /\ ToSet(r.out) = gone
      /\ r.list \in Seq(Node) /\ Once(r.list) /\ ToSet(r.list) = ToSet(list) \ gone
      /\ r.ttl \in [Node -> Nat]
  <2>1. r.out \in Seq(Node)
    BY <1>1, <1>2, <1>3, AdvRemaining
  <2>2. Once(r.out)
    BY <1>1, <1>2, <1>3, AdvRemaining
  <2>3. ToSet(r.out) = gone
    BY <1>1, <1>2, <1>3, AdvRemaining
  <2>4. r.list \in Seq(Node)
    BY <1>1, <1>2, <1>3, AdvRemaining
  <2>5. Once(r.list)
    BY <1>1, <1>2, <1>3, AdvRemaining
  <2>6. ToSet(r.list) = ToSet(list) \ gone
    BY <1>1, <1>2, <1>3, AdvRemaining
  <2>7. r.ttl \in [Node -> Nat]
    BY <1>1, <1>2, <1>3, AdvRemaining
  <2> QED
    BY <2>1, <2>2, <2>3, <2>4, <2>5, <2>6, <2>7
<1>6. \A i, j \in 1 .. Len(r.out) :
         i < j => Remaining(list, ttl)[r.out[i]] <= Remaining(list, ttl)[r.out[j]]
  BY <1>1, <1>2, <1>3, AdvRemaining
<1>7. \A m \in ToSet(list) \ gone : Remaining(r.list, r.ttl)[m] = Remaining(list, ttl)[m] - d
  BY <1>1, <1>2, <1>3, AdvRemaining
<1>8. TypeOK'
  BY <1>4, <1>5 DEF TypeOK, Once
<1>9. DOMAIN Remaining(list, ttl) = ToSet(list) /\ DOMAIN out' = 1 .. Len(out')
  BY <1>4, <1>5 DEF Remaining
<1>10. Remaining(list', ttl') = [m \in ToSet(list') |-> Remaining(list', ttl')[m]]
  BY DEF Remaining
<1>11. Remaining(list', ttl') = [m \in ToSet(list) \ gone |-> Remaining(list, ttl)[m] - d]
  BY <1>4, <1>5, <1>10, <1>7
<1>12. { out'[i] : i \in DOMAIN out' } = gone
  BY <1>4, <1>5 DEF ToSet
<1>13. \A i, j \in DOMAIN out' : i < j =>
         /\ out'[i] # out'[j]
         /\ Remaining(list, ttl)[out'[i]] <= Remaining(list, ttl)[out'[j]]
  <2> SUFFICES ASSUME NEW i \in DOMAIN out', NEW j \in DOMAIN out', i < j
               PROVE  /\ out'[i] # out'[j]
                      /\ Remaining(list, ttl)[out'[i]] <= Remaining(list, ttl)[out'[j]]
    OBVIOUS
  <2>1. i \in 1 .. Len(r.out) /\ j \in 1 .. Len(r.out) /\ i # j
    BY <1>4, <1>9
  <2>2. out'[i] # out'[j]
    BY <1>4, <1>5, <2>1 DEF Once
  <2> QED
    BY <1>4, <1>6, <2>1, <2>2
<1> QED
  BY <1>3, <1>8, <1>9, <1>11, <1>12, <1>13 DEF AnyTime!Advance

\* Every call is one step of the set of timers.
LEMMA StepImplements ==
  ASSUME TypeOK, [Next]_vars
  PROVE  TypeOK' /\ [AnyTime!Next]_(AnyTime!vars)
<1>1. ASSUME NEW n \in Node, NEW v \in Ttl, Ins(n, v) \/ Update(n, v)
      PROVE  TypeOK' /\ AnyTime!Next
  <2>1. v \in Int /\ (IF v < 0 THEN 0 ELSE v) \in Nat
    BY TimesAssumption
  <2>2. TypeOK' /\ AnyTime!Put(n, IF v < 0 THEN 0 ELSE v)
    BY <1>1, <2>1, InsImplements, UpdateImplements
  <2> QED
    BY <2>1, <2>2 DEF AnyTime!Next
<1>2. ASSUME NEW n \in Node, InsAgain(n) PROVE TypeOK' /\ AnyTime!Next
  <2>1. ttl[n] \in Nat
    BY DEF TypeOK
  <2>2. TypeOK' /\ AnyTime!Put(n, ttl[n])
    BY <1>2, InsAgainImplements
  <2> QED
    BY <2>1, <2>2 DEF AnyTime!Next
<1>3. ASSUME NEW n \in Node, Rem(n) PROVE TypeOK' /\ AnyTime!Next
  BY <1>3, RemImplements DEF AnyTime!Next
<1>4. CASE Deq
  BY <1>4, DeqImplements DEF AnyTime!Next
<1>5. ASSUME NEW d \in Delta, Adv(d) PROVE TypeOK' /\ AnyTime!Next
  <2>1. d \in Nat
    BY TimesAssumption
  <2> QED
    BY <1>5, <2>1, AdvImplements DEF AnyTime!Next
<1>6. CASE UNCHANGED vars
  BY <1>6 DEF vars, TypeOK, AnyTime!vars, Remaining
<1> QED
  BY <1>1, <1>2, <1>3, <1>4, <1>5, <1>6 DEF Next

LEMMA InitImplements == Init => TypeOK /\ AnyTime!Init
<1> SUFFICES ASSUME Init PROVE TypeOK /\ AnyTime!Init
  OBVIOUS
<1>1. list = << >> /\ ttl \in [Node -> Nat] /\ out = << >>
  BY DEF Init
<1>2. TypeOK
  BY <1>1 DEF TypeOK
<1>3. ToSet(list) = {}
  BY <1>1 DEF ToSet
<1>4. Remaining(list, ttl) = << >>
  BY <1>3 DEF Remaining
<1> QED
  BY <1>1, <1>2, <1>4 DEF AnyTime!Init

\* No node is linked twice and no wait is negative, whatever the calls of dlist.h.
THEOREM Typing == Spec => []TypeOK
<1>1. Init => TypeOK
  BY InitImplements
<1>2. TypeOK /\ [Next]_vars => TypeOK'
  BY StepImplements
<1> QED
  BY <1>1, <1>2, PTL DEF Spec

\* The delta list is the set of timers it is meant to be, for any nodes and times:
\* each call of dlist.h is one step of the set, and changes no other node's time.
THEOREM Refinement == Spec => AnyTime!Spec
<1>1. Init => AnyTime!Init
  BY InitImplements
<1>2. TypeOK /\ [Next]_vars => [AnyTime!Next]_(AnyTime!vars)
  BY StepImplements
<1> QED
  BY <1>1, <1>2, Typing, PTL DEF Spec, AnyTime!Spec

\* The same of the instance TLC checks, when any time can pass.
THEOREM ImplementsTheSet == ASSUME Delta = Nat PROVE Spec => ImplementsTimerSet
<1>1. Remaining(list, ttl) = [n \in ToSet(list) |-> Dues(list, ttl)[PosOf(list, n)]]
  BY DEF Remaining
<1>2. AnyTime!Init => Timers!Init
  BY <1>1 DEF AnyTime!Init, Timers!Init
<1>3. [AnyTime!Next]_(AnyTime!vars) => [Timers!Next]_(Timers!vars)
  BY DEF Remaining, AnyTime!Next, Timers!Next, AnyTime!vars, Timers!vars, AnyTime!Put, Timers!Put,
         AnyTime!Drop, Timers!Drop, AnyTime!Without, Timers!Without,
         AnyTime!Advance, Timers!Advance, AnyTime!TakeFirst, Timers!TakeFirst
<1> QED
  BY <1>2, <1>3, Refinement, PTL DEF AnyTime!Spec, Timers!Spec, ImplementsTimerSet

\* dl_ins puts a node in front of the first one that expires after it.
LEMMA BeforeLater ==
  ASSUME NEW l \in Seq(Node), Once(l), NEW w \in [Node -> Nat],
         NEW n \in Node, n \notin ToSet(l), Becomes(dl_ins(l, w, n)),
         NEW p, p = PosOf(list', n), p < Len(list')
  PROVE  Dues(list', ttl')[p] < Dues(list', ttl')[p + 1]
<1>1. PICK r : r = dl_ins(l, w, n)
  OBVIOUS
<1>2. PICK k : k = FirstAfter(l, w, w[n])
  OBVIOUS
<1>3. list' = r.list /\ ttl' = r.ttl
  BY <1>1 DEF Becomes
<1>4. /\ k \in 1 .. Len(l) + 1 /\ r.list = InsertAt(l, k, n)
      /\ Dues(r.list, r.ttl)[k] = w[n]
      /\ \A j \in k .. Len(l) : Dues(r.list, r.ttl)[j + 1] = Dues(l, w)[j]
  BY <1>1, <1>2, InsKeepsDues, SMTT(30)
<1>5. /\ r.list \in Seq(Node) /\ Once(r.list)
  BY <1>1, InsRemaining
<1>6. Len(r.list) = Len(l) + 1 /\ r.list[k] = n
  BY <1>4, InsertShifts
<1>7. p = k
  <2>1. k \in 1 .. Len(r.list)
    BY <1>4, <1>6
  <2> QED
    BY <1>3, <1>5, <1>6, <2>1, RemainingAt
<1>8. k \in 1 .. Len(l) /\ k \in k .. Len(l) /\ ~ (k < k)
  BY <1>3, <1>4, <1>6, <1>7
<1>9. ~ (Dues(l, w)[k] <= w[n])
  <2>1. w[n] \in Int
    OBVIOUS
  <2>2. \A j \in 1 .. Len(l) : j < k <=> Dues(l, w)[j] <= w[n]
    BY <1>2, <2>1, FirstAfterParts
  <2> QED
    BY <1>8, <2>2
<1>10. Dues(l, w)[k] \in Nat /\ w[n] \in Nat
  <2>1. \A i \in 0 .. Len(l) : Dues(l, w)[i] \in Nat
    BY DuesGrow
  <2>2. k \in 0 .. Len(l)
    BY <1>8
  <2> QED
    BY <2>1, <2>2
<1>11. Dues(r.list, r.ttl)[k] = w[n] /\ Dues(r.list, r.ttl)[k + 1] = Dues(l, w)[k]
  BY <1>4, <1>8
<1> QED
  BY <1>3, <1>7, <1>9, <1>10, <1>11

\* A node that joins the list goes behind those that expire when it does.
LEMMA JoinsBehind ==
  ASSUME TypeOK, [Next]_vars, NEW n \in Node, ~ Contains(list, n), Contains(list', n),
         NEW p, p = PosOf(list', n), p < Len(list')
  PROVE  Dues(list', ttl')[p] < Dues(list', ttl')[p + 1]
<1>1. /\ TypeOK' /\ list \in Seq(Node) /\ Once(list) /\ ttl \in [Node -> Nat]
      /\ n \notin ToSet(list) /\ n \in ToSet(list')
  <2>1. TypeOK'
    BY StepImplements
  <2>2. list \in Seq(Node) /\ Once(list) /\ ttl \in [Node -> Nat] /\ list' \in Seq(Node)
    BY <2>1 DEF TypeOK, Once
  <2> QED
    BY <2>1, <2>2, ContainsIs
<1>2. ASSUME NEW m \in Node, NEW v \in Int, Ins(m, v)
      PROVE  Dues(list', ttl')[p] < Dues(list', ttl')[p + 1]
  <2>1. m \notin ToSet(list)
    BY <1>1, <1>2, ContainsIs DEF Ins
  <2>2. PICK w : w = dl_init(ttl, m, v)
    OBVIOUS
  <2>3. w \in [Node -> Nat]
    BY <1>1, <2>1, <2>2, InitStep
  <2>4. Becomes(dl_ins(list, w, m))
    BY <1>2, <2>2 DEF Ins
  <2>5. ToSet(list') = ToSet(list) \cup {m}
    BY <1>1, <2>1, <2>3, <2>4, PutStep
  <2>6. n = m
    BY <1>1, <2>5
  <2> QED
    BY <1>1, <2>3, <2>4, <2>6, BeforeLater
<1>3. ASSUME NEW m \in Node, NEW v \in Int, Update(m, v)
      PROVE  Dues(list', ttl')[p] < Dues(list', ttl')[p + 1]
  <2>1. PICK r : r = dl_rem(list, ttl, m)
    OBVIOUS
  <2>2. /\ r.list \in Seq(Node) /\ Once(r.list) /\ ToSet(r.list) = ToSet(list) \ {m}
        /\ r.ttl \in [Node -> Nat]
    BY <2>1, RemStep
  <2>3. PICK w : w = dl_init(r.ttl, m, v)
    OBVIOUS
  <2>4. m \notin ToSet(r.list)
    BY <2>2
  <2>5. w \in [Node -> Nat]
    BY <2>2, <2>3, <2>4, InitStep
  <2>6. Becomes(dl_ins(r.list, w, m))
    BY <1>3, <2>1, <2>3 DEF Update
  <2>7. ToSet(list') = ToSet(r.list) \cup {m}
    BY <2>2, <2>4, <2>5, <2>6, PutStep
  <2>8. n = m
    BY <1>1, <2>2, <2>7
  <2> QED
    BY <2>2, <2>4, <2>5, <2>6, <2>8, BeforeLater
<1>4. ASSUME NEW m \in Node, InsAgain(m)
      PROVE  Dues(list', ttl')[p] < Dues(list', ttl')[p + 1]
  <2>1. m \notin ToSet(list) /\ Becomes(dl_ins(list, ttl, m))
    BY <1>1, <1>4, ContainsIs DEF InsAgain
  <2>2. ToSet(list') = ToSet(list) \cup {m}
    BY <1>1, <2>1, PutStep
  <2>3. n = m
    BY <1>1, <2>2
  <2> QED
    BY <1>1, <2>1, <2>3, BeforeLater
<1>5. ASSUME NEW m \in Node, Rem(m) PROVE FALSE
  <2>1. PICK r : r = dl_rem(list, ttl, m)
    OBVIOUS
  <2>2. list' = r.list
    BY <1>5, <2>1 DEF Rem, Becomes
  <2>3. ToSet(r.list) = ToSet(list) \ {m}
    BY <2>1, RemStep
  <2> QED
    BY <1>1, <2>2, <2>3
<1>6. ASSUME Deq PROVE FALSE
  <2>1. list # << >> /\ list' = Tail(list)
    BY <1>6 DEF Deq
  <2>2. ToSet(Tail(list)) = ToSet(list) \ { Head(list) }
    BY <1>1, <2>1, TailRemaining
  <2> QED
    BY <1>1, <2>1, <2>2
<1>7. ASSUME NEW d \in Nat, Adv(d) PROVE FALSE
  <2>1. PICK r : r = dl_adv(list, ttl, d)
    OBVIOUS
  <2>2. PICK gone : gone = { m \in ToSet(list) : Remaining(list, ttl)[m] <= d }
    OBVIOUS
  <2>3. list' = r.list
    BY <1>7, <2>1 DEF Adv, Becomes
  <2>4. list \in Seq(Node) /\ Once(list) /\ ttl \in [Node -> Nat]
    BY <1>1
  <2>5. ToSet(r.list) = ToSet(list) \ gone
    BY <2>1, <2>2, <2>4, AdvRemaining
  <2> QED
    BY <1>1, <2>3, <2>5
<1>8. ~ UNCHANGED vars
  BY <1>1 DEF vars
<1>9. Ttl \subseteq Int /\ Delta \subseteq Nat
  BY TimesAssumption
<1> QED
  BY <1>2, <1>3, <1>4, <1>5, <1>6, <1>7, <1>8, <1>9 DEF Next

\* Nodes due at the same time keep the order in which dl_ins got them.
THEOREM EqualTimesKeepOrder == Spec => FifoAmongEqual
<1>1. TypeOK /\ [Next]_vars =>
        [\A n \in Node : ~Contains(list, n) /\ Contains(list', n) =>
           LET i   == PosOf(list', n)
               due == Dues(list', ttl')
           IN  i < Len(list') => due[i] < due[i + 1]]_vars
  BY JoinsBehind
<1> QED
  BY <1>1, Typing, PTL DEF Spec, FifoAmongEqual

\* A node given a time by dl_ins or after dl_rem expires after that time.
THEOREM WaitsAreAsAsked == Spec => WaitsAsAsked
<1>1. ASSUME TypeOK, NEW n \in Node, NEW v \in Ttl, Ins(n, v) \/ Update(n, v)
      PROVE  Dues(list', ttl')[PosOf(list', n)] = IF v < 0 THEN 0 ELSE v
  <2>1. v \in Int
    BY TimesAssumption
  <2>2. AnyTime!Put(n, IF v < 0 THEN 0 ELSE v)
    BY <1>1, <2>1, InsImplements, UpdateImplements
  <2>3. Remaining(list', ttl')[n] = (IF v < 0 THEN 0 ELSE v) /\ n \in DOMAIN Remaining(list', ttl')
    BY <2>2 DEF AnyTime!Put
  <2> QED
    BY <2>3 DEF Remaining
<1>2. TypeOK /\ [Next]_vars =>
        [\A n \in Node, v \in Ttl :
           Ins(n, v) \/ Update(n, v) =>
             Dues(list', ttl')[PosOf(list', n)] = IF v < 0 THEN 0 ELSE v]_vars
  BY <1>1
<1> QED
  BY <1>2, Typing, PTL DEF Spec, WaitsAsAsked
=============================================================================
