----------------------------- MODULE UEventProofs -----------------------------
(***************************************************************************)
(* What the multiplexer keeps for any events, any times, any callbacks and *)
(* any point at which they call back: the descriptor sets are exact, the   *)
(* lists hold each event once, and a callback that starts is due, wanted,  *)
(* the first of its event in this pass and not held back by ue_stop.       *)
(***************************************************************************)
EXTENDS UEvent, DListProofs

\* Exactness alone is not inductive: ue_io_cancel unlinks one occurrence.
IoInv == iolist \in Seq(Io) /\ Once(iolist) /\ SetsExact

\* ue_io_reg of an event that is on no list.
LEMMA RegIoKeeps ==
  ASSUME IoInv, NEW i \in Io, RegIo(i)
  PROVE  IoInv'
<1>1. i \notin ToSet(iolist) /\ iolist' = << i >> \o iolist
  BY DEF RegIo, Contains, ToSet, IoInv
<1>2. iolist' \in Seq(Io) /\ Once(iolist') /\ ToSet(iolist') = ToSet(iolist) \cup {i}
  BY <1>1, PushOnce DEF IoInv
<1>3. fdset' = fdset \cup {Key[i]}
  BY DEF RegIo
<1> QED
  BY <1>2, <1>3 DEF IoInv, SetsExact

\* ue_io_cancel: the descriptor stays in its set if another event waits for it.
LEMMA CancelIoKeeps ==
  ASSUME IoInv, NEW i \in Io, CancelIo(i)
  PROVE  IoInv'
<1>1. i \in ToSet(iolist) /\ iolist' = l_rem(iolist, i)
  BY DEF CancelIo, Contains, ToSet, IoInv
<1>2. iolist' \in Seq(Io) /\ Once(iolist') /\ ToSet(iolist') = ToSet(iolist) \ {i}
  BY <1>1, RemoveOnce DEF IoInv
<1>3. fdset' = IF \E j \in ToSet(iolist) \ {i} : Key[j] = Key[i]
               THEN fdset ELSE fdset \ {Key[i]}
  BY DEF CancelIo
<1>4. fdset = { Key[j] : j \in ToSet(iolist) }
  BY DEF IoInv, SetsExact
<1>5. fdset' = { Key[j] : j \in ToSet(iolist) \ {i} }
  BY <1>1, <1>3, <1>4
<1> QED
  BY <1>2, <1>5 DEF IoInv, SetsExact

\* select is asked for exactly the descriptors somebody waits for.
THEOREM SetsAreExact == Spec => []SetsExact
<1>1. Init => IoInv
  BY DEF Init, IoInv, SetsExact, Once, ToSet
<1>2. IoInv /\ [Next]_vars => IoInv'
  <2> SUFFICES ASSUME IoInv, [Next]_vars PROVE IoInv'
    OBVIOUS
  <2>1. ASSUME UNCHANGED <<iolist, fdset>> PROVE IoInv'
    BY <2>1 DEF IoInv, SetsExact, Once
  <2>2. ASSUME NEW i \in Io, RegIo(i) PROVE IoInv'
    BY <2>2, RegIoKeeps
  <2>3. ASSUME NEW i \in Io, CancelIo(i) PROVE IoInv'
    BY <2>3, CancelIoKeeps
  <2>4. ASSUME NEW t \in Timer, InitTimer(t) \/ RegTimer(t) \/ CancelTimer(t) PROVE IoInv'
    BY <2>1, <2>4 DEF InitTimer, RegTimer, CancelTimer
  <2>5. ASSUME NEW s \in Sig, RegSig(s) \/ CancelSig(s) PROVE IoInv'
    BY <2>1, <2>5 DEF RegSig, CancelSig
  <2>6. ASSUME ClearSignals \/ Stop \/ Tick \/ \E n \in caught : Signal(n) PROVE IoInv'
    BY <2>1, <2>6 DEF ClearSignals, Stop, Tick, Signal, clientVars
  <2>7. ASSUME Enter \/ WakeReady \/ WakeTimeout \/ WakeInterrupted \/ TakeSignals PROVE IoInv'
    BY <2>1, <2>7 DEF Enter, WakeReady, WakeTimeout, WakeInterrupted, Wake, TakeSignals, clientVars
  <2>8. ASSUME NextSignal \/ VisitSig \/ EndSignals PROVE IoInv'
    BY <2>1, <2>8 DEF NextSignal, VisitSig, EndSignals, clientVars
  <2>9. ASSUME VisitTimer \/ EndTimers \/ VisitIo \/ EndIo \/ Return PROVE IoInv'
    BY <2>1, <2>9 DEF VisitTimer, EndTimers, VisitIo, EndIo, Return, clientVars
  <2>10. CASE UNCHANGED vars
    BY <2>1, <2>10 DEF vars, clientVars
  <2> QED
    BY <2>2, <2>3, <2>4, <2>5, <2>6, <2>7, <2>8, <2>9, <2>10 DEF Next, Step, Client
<1>3. IoInv => SetsExact
  BY DEF IoInv
<1> QED
  BY <1>1, <1>2, <1>3, PTL DEF Spec

-----------------------------------------------------------------------------
(* What a walk of a list has still to visit.                                 *)

\* The nodes of a list from e on.
Ahead(l, e) == { l[i] : i \in PosOf(l, e) .. Len(l) }

LEMMA AheadAt ==
  ASSUME NEW S, NEW l \in Seq(S), Once(l), NEW at \in 1 .. Len(l)
  PROVE  /\ Ahead(l, l[at]) = { l[i] : i \in at .. Len(l) }
         /\ l[at] \in Ahead(l, l[at]) /\ Ahead(l, l[at]) \subseteq ToSet(l)
<1>1. PosOf(l, l[at]) = at
  BY RemainingAt
<1>2. Ahead(l, l[at]) = { l[i] : i \in at .. Len(l) }
  BY <1>1 DEF Ahead
<1>3. DOMAIN l = 1 .. Len(l) /\ Len(l) \in Nat
  OBVIOUS
<1>4. \A i \in at .. Len(l) : i \in DOMAIN l
  BY <1>3
<1> QED
  BY <1>2, <1>3, <1>4 DEF ToSet

\* The node behind e: the walk has one node less to visit.
LEMMA AfterIs ==
  ASSUME NEW S, NEW l \in Seq(S), Once(l), NEW e \in ToSet(l)
  PROVE  /\ e \in Ahead(l, e) /\ Ahead(l, e) \subseteq ToSet(l)
         /\ After(l, e) # End => /\ After(l, e) \in ToSet(l) /\ After(l, e) # e
                                 /\ Ahead(l, After(l, e)) \subseteq Ahead(l, e) \ {e}
<1>1. PICK at \in 1 .. Len(l) : e = l[at]
  BY NodeAt
<1>2. /\ Ahead(l, e) = { l[i] : i \in at .. Len(l) }
      /\ e \in Ahead(l, e) /\ Ahead(l, e) \subseteq ToSet(l)
  BY <1>1, AheadAt
<1>3. PosOf(l, e) = at /\ Contains(l, e)
  BY <1>1, RemainingAt, ContainsIs
<1>4. DOMAIN l = 1 .. Len(l) /\ Len(l) \in Nat
  OBVIOUS
<1>5. Last(l) = l[Len(l)] /\ Len(l) \in DOMAIN l
  BY <1>4 DEF Last
<1>6. CASE at = Len(l)
  <2>1. After(l, e) = End
    BY <1>1, <1>3, <1>5, <1>6 DEF After
  <2> QED
    BY <1>2, <2>1
<1>7. CASE at # Len(l)
  <2>1. e # Last(l)
    BY <1>1, <1>4, <1>5, <1>7 DEF Once
  <2>2. After(l, e) = l[at + 1]
    BY <1>3, <2>1 DEF After
  <2>3. at + 1 \in 1 .. Len(l) /\ at + 1 # at
    <3>1. at \in Int /\ Len(l) \in Int /\ 1 <= at /\ at <= Len(l)
      BY <1>4
    <3> QED
      BY <1>7, <3>1
  <2>4. l[at + 1] \in ToSet(l) /\ l[at + 1] # e
    BY <1>1, <1>4, <2>3 DEF ToSet, Once
  <2>5. Ahead(l, l[at + 1]) = { l[i] : i \in at + 1 .. Len(l) }
    BY <2>3, AheadAt
  <2>6. ASSUME NEW i \in at + 1 .. Len(l) PROVE l[i] \in Ahead(l, e) /\ l[i] # e
    <3>1. i \in at .. Len(l) /\ i \in DOMAIN l /\ at \in DOMAIN l /\ i # at
      BY <1>4, <2>6
    <3> QED
      BY <1>1, <1>2, <3>1 DEF Once
  <2> QED
    BY <1>2, <2>2, <2>4, <2>5, <2>6
<1> QED
  BY <1>6, <1>7

\* A walk starts at a node of the list.
LEMMA HeadOfIs ==
  ASSUME NEW S, NEW l \in Seq(S)
  PROVE  HeadOf(l) # End => HeadOf(l) \in ToSet(l)
<1>1. CASE l = << >>
  BY <1>1 DEF HeadOf
<1>2. CASE l # << >>
  <2>1. HeadOf(l) = l[1] /\ 1 \in DOMAIN l
    BY <1>2 DEF HeadOf
  <2> QED
    BY <2>1 DEF ToSet
<1> QED
  BY <1>1, <1>2

\* A node that joins in front is not visited by the walk.
LEMMA PushAhead ==
  ASSUME NEW S, NEW l \in Seq(S), Once(l), NEW n \in S, n \notin ToSet(l), NEW e \in ToSet(l)
  PROVE  Ahead(<< n >> \o l, e) = Ahead(l, e)
<1>1. PICK at \in 1 .. Len(l) : e = l[at]
  BY NodeAt
<1>2. PICK c : c = << n >> \o l
  OBVIOUS
<1>3. c \in Seq(S) /\ Once(c)
  BY <1>2, PushOnce
<1>4. Len(c) = Len(l) + 1 /\ Len(l) \in Nat /\ \A i \in 1 .. Len(l) : c[i + 1] = l[i]
  BY <1>2
<1>5. at + 1 \in 1 .. Len(c) /\ c[at + 1] = e
  BY <1>1, <1>4
<1>6. Ahead(c, e) = { c[i] : i \in at + 1 .. Len(c) }
  BY <1>3, <1>5, AheadAt
<1>7. Ahead(l, e) = { l[i] : i \in at .. Len(l) }
  BY <1>1, AheadAt
<1>8. \A i \in at .. Len(l) : l[i] = c[i + 1] /\ i + 1 \in at + 1 .. Len(c)
  BY <1>4
<1>9. \A i \in at + 1 .. Len(c) : c[i] = l[i - 1] /\ i - 1 \in at .. Len(l)
  BY <1>4
<1> QED
  BY <1>2, <1>6, <1>7, <1>8, <1>9

\* A node that leaves the list leaves what a walk has still to visit.
LEMMA RemAhead ==
  ASSUME NEW S, NEW l \in Seq(S), Once(l), NEW n \in ToSet(l), NEW e \in ToSet(l), e # n
  PROVE  /\ e \in ToSet(l_rem(l, n)) /\ Ahead(l_rem(l, n), e) \subseteq Ahead(l, e)
<1>1. PICK at \in 1 .. Len(l) : e = l[at]
  BY NodeAt
<1>2. PICK gap \in 1 .. Len(l) : n = l[gap]
  BY NodeAt
<1>3. PICK c : c = l_rem(l, n)
  OBVIOUS
<1>4. c \in Seq(S) /\ Once(c) /\ e \in ToSet(c)
  BY <1>3, RemoveOnce
<1>5. PosOf(l, n) = gap /\ Contains(l, n)
  BY <1>2, RemainingAt, ContainsIs
<1>6. c = RemoveAt(l, gap)
  BY <1>3, <1>5 DEF l_rem
<1>7. /\ Len(c) = Len(l) - 1
      /\ \A i \in 1 .. Len(l) - 1 : c[i] = IF i < gap THEN l[i] ELSE l[i + 1]
  BY <1>6, RemoveShifts
<1>8. PICK to \in 1 .. Len(c) : e = c[to]
  BY <1>4, NodeAt
<1>9. Ahead(c, e) = { c[i] : i \in to .. Len(c) } /\ Ahead(l, e) = { l[i] : i \in at .. Len(l) }
  BY <1>1, <1>4, <1>8, AheadAt
<1>10. at = IF to < gap THEN to ELSE to + 1
  <2>1. DOMAIN l = 1 .. Len(l) /\ Len(l) \in Nat
    OBVIOUS
  <2>2. to \in 1 .. Len(l) - 1 /\ to \in 1 .. Len(l) /\ to + 1 \in 1 .. Len(l)
    BY <1>7, <1>8, <2>1
  <2>3. e = IF to < gap THEN l[to] ELSE l[to + 1]
    BY <1>7, <1>8, <2>2
  <2> QED
    BY <1>1, <2>1, <2>2, <2>3 DEF Once
<1>11. ASSUME NEW i \in to .. Len(c) PROVE c[i] \in Ahead(l, e)
  <2>1. i \in 1 .. Len(l) - 1 /\ (i \in at .. Len(l) \/ (i >= gap /\ i + 1 \in at .. Len(l)))
    BY <1>7, <1>10, <1>11
  <2>2. CASE i < gap
    <3>1. i \in at .. Len(l) /\ c[i] = l[i]
      BY <1>2, <1>7, <2>1, <2>2
    <3> QED
      BY <1>9, <3>1
  <2>3. CASE ~ (i < gap)
    <3>1. i + 1 \in at .. Len(l) /\ c[i] = l[i + 1]
      BY <1>7, <1>10, <1>11, <2>1, <2>3
    <3> QED
      BY <1>9, <3>1
  <2> QED
    BY <2>2, <2>3
<1> QED
  BY <1>3, <1>4, <1>9, <1>11

-----------------------------------------------------------------------------
(* The invariant.                                                            *)

Numbers == { Signum[s] : s \in Sig }

\* No node is linked twice, no timer is on both lists of timers, and a timer on one
\* of them counts as registered; signals are only caught, kept and handled where
\* sigtab has a list for them.
Linked ==
  /\ timers \in Seq(Timer) /\ Once(timers) /\ batch \in Seq(Timer) /\ Once(batch)
  /\ ToSet(timers) \cap ToSet(batch) = {}
  /\ ToSet(timers) \subseteq treg /\ ToSet(batch) \subseteq treg
  /\ ttl \in [Timer -> Nat]
  /\ iolist \in Seq(Io) /\ Once(iolist)
  /\ sigtab \in [Numbers -> Seq(Sig)]
  /\ \A n \in Numbers : Once(sigtab[n]) /\ \A s \in ToSet(sigtab[n]) : Signum[s] = n
  /\ caught \subseteq Numbers /\ sset \subseteq caught /\ fired \subseteq caught

\* The walk is on its list: unless it was lost, the node it visits next is linked.
Walk ==
  /\ pass \in {"idle", "wait", "woken", "sig", "tm", "io"}
  /\ run \in Events \cup {None} /\ nx \in Events \cup {End}
  /\ pass \in {"idle", "wait", "woken"} => run = None /\ nx = End
  /\ ~lost /\ nx # End =>
       /\ pass = "sig" => nx \in Sig /\ nx \in ToSet(sigtab[Signum[nx]])
       /\ pass = "tm" => nx \in ToSet(batch)
       /\ pass = "io" => nx \in ToSet(iolist)

\* Between two events of a signal, one of the signal has run.
InTurn ==
  ~lost /\ pass = "sig" /\ nx # End =>
    /\ run # None => run \in Sig \cap ran /\ Signum[run] = Signum[nx]
    /\ done => \E s \in ran \cap Sig : Signum[s] = Signum[nx]

\* What has run lies behind: its signal is not looked at again, it has left the list
\* of expired timers, and the walk of the descriptors is past it.
Fresh ==
  /\ pass \in {"wait", "woken"} => ran = {}
  /\ pass = "sig" => ran \subseteq Sig /\ \A s \in ran : Signum[s] \notin fired
  /\ pass = "tm" => ran \subseteq Sig \cup Timer /\ ran \cap ToSet(batch) = {}
  /\ ~lost /\ nx # End =>
       /\ pass = "sig" => Signum[nx] \notin fired /\ Ahead(sigtab[Signum[nx]], nx) \cap ran = {}
       /\ pass = "io" => Ahead(iolist, nx) \cap ran = {}

\* The time by which ue_next will advance the timers that are on the list now.
Gone == IF Counting THEN elapsed ELSE 0

\* A timer that ue_tm_init prepared is on no list and holds the time it asks for.
Prepared ==
  /\ asked \in [Timer -> {"init", "once", "again"}]
  /\ \A t \in Timer : asked[t] = "init" =>
       t \notin ToSet(timers) /\ t \notin ToSet(batch) /\ ttl[t] = Orig[t]

\* What is left of the time a timer was promised: nothing was promised to one that
\* was registered again without ue_tm_init, or in the middle of a wait.
Owed == [t \in Timer |-> IF asked[t] = "again" THEN 0 ELSE left[t]]

\* The list gives no timer less than the time it has still to wait.
OnTime ==
  /\ left \in [Timer -> Nat] /\ elapsed \in Nat
  /\ pass = "wait" => ~eintr
  /\ \A t \in ToSet(timers) : Owed[t] = 0 \/ Owed[t] + Gone <= Remaining(timers, ttl)[t]
  /\ pass = "tm" => \A t \in ToSet(batch) : Owed[t] = 0

Inv == Linked /\ Walk /\ InTurn /\ Fresh /\ Prepared /\ OnTime

-----------------------------------------------------------------------------
(* What the operations do to the lists of timers.                            *)

\* dl_rem of a timer that may be on the list or off it.
LEMMA RemTimer ==
  ASSUME NEW l \in Seq(Timer), Once(l), NEW w \in [Timer -> Nat], NEW t \in Timer,
         NEW r, r = dl_rem(l, w, t)
  PROVE  /\ r.list \in Seq(Timer) /\ Once(r.list) /\ ToSet(r.list) = ToSet(l) \ {t}
         /\ r.ttl \in [Timer -> Nat]
         /\ \A m \in Timer : m \notin ToSet(l) => r.ttl[m] = w[m]
         /\ \A m \in ToSet(l) : m # t => Remaining(r.list, r.ttl)[m] = Remaining(l, w)[m]
         /\ t \notin ToSet(l) => r.list = l /\ r.ttl = w
<1>1. CASE t \in ToSet(l)
  BY <1>1, RemRemaining
<1>2. CASE t \notin ToSet(l)
  <2>1. ~ Contains(l, t)
    BY <1>2, ContainsIs
  <2>2. r.list = l /\ r.ttl = w
    BY <2>1 DEF dl_rem, l_rem
  <2> QED
    BY <1>2, <2>2
<1> QED
  BY <1>1, <1>2

\* The members of a list over S are of S.
LEMMA MembersAre ==
  ASSUME NEW S, NEW l \in Seq(S)
  PROVE  ToSet(l) \subseteq S
<1>1. DOMAIN l = 1 .. Len(l)
  OBVIOUS
<1> QED
  BY <1>1 DEF ToSet

\* ue_tm_init: the ttl of a timer on no list is no part of the times of the others.
LEMMA InitTimerDoes ==
  ASSUME Linked, NEW t \in Timer, InitTimer(t)
  PROVE  /\ t \notin ToSet(timers) /\ t \notin ToSet(batch) /\ ttl' \in [Timer -> Nat]
         /\ ttl'[t] = Orig[t] /\ \A m \in Timer : m # t => ttl'[m] = ttl[m]
         /\ Remaining(timers, ttl') = Remaining(timers, ttl)
<1>1. t \notin ToSet(timers) /\ t \notin ToSet(batch)
  BY ContainsIs DEF InitTimer, Linked
<1>2. ttl' = [ttl EXCEPT ![t] = Orig[t]]
  BY DEF InitTimer
<1>3. /\ ttl' \in [Timer -> Nat]
      /\ ttl'[t] = Orig[t] /\ \A m \in Timer : m # t => ttl'[m] = ttl[m]
  BY <1>2, EventAssumption DEF Linked
<1>4. ToSet(timers) \subseteq Timer
  BY MembersAre DEF Linked
<1>5. \A m \in ToSet(timers) : ttl'[m] = ttl[m]
  BY <1>1, <1>2, <1>4 DEF Linked
<1>6. timers \in Seq(Timer) /\ Once(timers)
  BY DEF Linked
<1> QED
  BY <1>1, <1>3, <1>5, <1>6, OthersWaitAlike

\* ue_tm_reg: the timer joins the list with the ttl it has.
LEMMA RegTimerDoes ==
  ASSUME Linked, NEW t \in Timer, RegTimer(t)
  PROVE  /\ t \notin ToSet(timers) /\ t \notin ToSet(batch)
         /\ timers' \in Seq(Timer) /\ Once(timers') /\ ToSet(timers') = ToSet(timers) \cup {t}
         /\ ttl' \in [Timer -> Nat]
         /\ \A m \in Timer : m \notin ToSet(timers) /\ m # t => ttl'[m] = ttl[m]
         /\ Remaining(timers', ttl')[t] = ttl[t]
         /\ \A m \in ToSet(timers) : Remaining(timers', ttl')[m] = Remaining(timers, ttl)[m]
<1>1. t \notin ToSet(timers) /\ t \notin ToSet(batch)
  BY ContainsIs DEF RegTimer, Linked
<1>2. PICK r : r = dl_ins(timers, ttl, t)
  OBVIOUS
<1>3. timers' = r.list /\ ttl' = r.ttl
  BY <1>2 DEF RegTimer
<1>4. timers \in Seq(Timer) /\ Once(timers) /\ ttl \in [Timer -> Nat]
  BY DEF Linked
<1>5. /\ r.list \in Seq(Timer) /\ Once(r.list) /\ ToSet(r.list) = ToSet(timers) \cup {t}
      /\ r.ttl \in [Timer -> Nat]
      /\ \A m \in Timer : m \notin ToSet(timers) /\ m # t => r.ttl[m] = ttl[m]
      /\ Remaining(r.list, r.ttl)[t] = ttl[t]
      /\ \A m \in ToSet(timers) : Remaining(r.list, r.ttl)[m] = Remaining(timers, ttl)[m]
  BY <1>1, <1>2, <1>4, InsRemaining
<1> QED
  BY <1>1, <1>3, <1>5 DEF Once

\* ue_tm_cancel: the timer is on neither list, and the times of the others stay.
LEMMA CancelTimerDoes ==
  ASSUME Linked, NEW t \in Timer, CancelTimer(t)
  PROVE  /\ timers' \in Seq(Timer) /\ Once(timers') /\ ToSet(timers') = ToSet(timers) \ {t}
         /\ batch' \in Seq(Timer) /\ Once(batch') /\ ToSet(batch') = ToSet(batch) \ {t}
         /\ ttl' \in [Timer -> Nat]
         /\ \A m \in Timer : m \notin ToSet(timers) /\ m \notin ToSet(batch) => ttl'[m] = ttl[m]
         /\ \A m \in ToSet(timers) : m # t => Remaining(timers', ttl')[m] = Remaining(timers, ttl)[m]
<1>1. PICK q : q = dl_rem(timers, ttl, t)
  OBVIOUS
<1>2. PICK b : b = dl_rem(batch, ttl, t)
  OBVIOUS
<1>3. /\ timers' = q.list /\ batch' = b.list
      /\ ttl' = IF Contains(batch, t) THEN b.ttl ELSE q.ttl
  BY <1>1, <1>2 DEF CancelTimer
<1>4. /\ timers \in Seq(Timer) /\ Once(timers) /\ ttl \in [Timer -> Nat]
      /\ batch \in Seq(Timer) /\ Once(batch) /\ ToSet(timers) \cap ToSet(batch) = {}
  BY DEF Linked
<1>5. /\ q.list \in Seq(Timer) /\ Once(q.list) /\ ToSet(q.list) = ToSet(timers) \ {t}
      /\ q.ttl \in [Timer -> Nat]
      /\ \A m \in Timer : m \notin ToSet(timers) => q.ttl[m] = ttl[m]
      /\ \A m \in ToSet(timers) : m # t => Remaining(q.list, q.ttl)[m] = Remaining(timers, ttl)[m]
      /\ t \notin ToSet(timers) => q.list = timers
  BY <1>1, <1>4, RemTimer
<1>6. /\ b.list \in Seq(Timer) /\ Once(b.list) /\ ToSet(b.list) = ToSet(batch) \ {t}
      /\ b.ttl \in [Timer -> Nat]
      /\ \A m \in Timer : m \notin ToSet(batch) => b.ttl[m] = ttl[m]
  <2>1. batch \in Seq(Timer) /\ Once(batch) /\ ttl \in [Timer -> Nat]
    BY <1>4
  <2>2. b.list \in Seq(Timer) /\ Once(b.list) /\ ToSet(b.list) = ToSet(batch) \ {t}
    BY <1>2, <2>1, RemTimer
  <2>3. b.ttl \in [Timer -> Nat]
    BY <1>2, <2>1, RemTimer
  <2>4. ASSUME NEW m \in Timer, m \notin ToSet(batch) PROVE b.ttl[m] = ttl[m]
    BY <1>2, <2>1, <2>4, RemTimer
  <2> QED
    BY <2>2, <2>3, <2>4
<1>7. CASE t \in ToSet(batch)
  <2>1. Contains(batch, t) /\ t \notin ToSet(timers)
    BY <1>4, <1>7, ContainsIs
  <2>2. timers' = timers /\ ttl' = b.ttl
    BY <1>3, <1>5, <2>1
  <2>3. ToSet(timers) \subseteq Timer
    BY <1>4, MembersAre
  <2>4. \A m \in ToSet(timers) : b.ttl[m] = ttl[m]
    BY <1>4, <1>6, <2>3
  <2>5. Remaining(timers, b.ttl) = Remaining(timers, ttl)
    BY <1>4, <2>4, OthersWaitAlike
  <2> QED
    BY <1>3, <1>4, <1>6, <2>1, <2>2, <2>5 DEF Once
<1>8. CASE t \notin ToSet(batch)
  <2>1. ~ Contains(batch, t)
    BY <1>4, <1>8, ContainsIs
  <2>2. ttl' = q.ttl
    BY <1>3, <2>1
  <2> QED
    BY <1>3, <1>5, <1>6, <2>2 DEF Once
<1> QED
  BY <1>7, <1>8

\* tdispatch: after ue_stop nothing changes but the place in the list; otherwise the
\* timer leaves the list of expired ones, and a periodic one joins the others again.
LEMMA VisitTimerDoes ==
  ASSUME Linked, Walk, VisitTimer
  PROVE  /\ nx \in Timer /\ nx \in ToSet(batch) /\ run' \in Timer \cup {None}
         /\ pass = "tm" /\ pass' = "tm" /\ ~lost /\ ~lost'
         /\ nx' # End => nx' \in Timer /\ nx' \in ToSet(batch')
         /\ batch' \in Seq(Timer) /\ Once(batch') /\ ToSet(batch') \subseteq ToSet(batch)
         /\ done => run' = run /\ ran' = ran
         /\ ~done => run' = nx /\ ran' = ran \cup {nx} /\ ToSet(batch') = ToSet(batch) \ {nx}
         /\ \/ UNCHANGED <<timers, ttl, left, asked>>
            \/ /\ ~done
               /\ timers' \in Seq(Timer) /\ Once(timers') /\ ToSet(timers') = ToSet(timers) \cup {nx}
               /\ ttl' \in [Timer -> Nat]
               /\ \A m \in Timer : m \notin ToSet(timers) /\ m # nx => ttl'[m] = ttl[m]
               /\ left' = [left EXCEPT ![nx] = Orig[nx]]
               /\ asked' = [asked EXCEPT ![nx] = "once"]
               /\ Remaining(timers', ttl')[nx] = Orig[nx]
               /\ \A m \in ToSet(timers) : Remaining(timers', ttl')[m] = Remaining(timers, ttl)[m]
<1>1. /\ timers \in Seq(Timer) /\ Once(timers) /\ ttl \in [Timer -> Nat]
      /\ batch \in Seq(Timer) /\ Once(batch) /\ ToSet(timers) \cap ToSet(batch) = {}
  BY DEF Linked
<1>2. pass = "tm" /\ run = None /\ ~lost /\ nx # End /\ pass' = pass /\ lost' = lost
  BY DEF VisitTimer, Walking
<1>3. nx \in ToSet(batch) /\ nx \in Timer
  <2>1. nx \in ToSet(batch)
    BY <1>2 DEF Walk
  <2> QED
    BY <1>1, <2>1, MembersAre
<1>4. nx' = After(batch, nx)
  BY DEF VisitTimer
<1>5. nx' # End => nx' \in ToSet(batch) /\ nx' # nx
  BY <1>1, <1>3, <1>4, AfterIs
<1>6. ToSet(batch) \subseteq Timer
  BY <1>1, MembersAre
<1>7. CASE done
  <2>1. run' = run /\ ran' = ran /\ timers' = timers /\ ttl' = ttl /\ batch' = batch
        /\ left' = left /\ asked' = asked
    BY <1>7 DEF VisitTimer, Skips
  <2> QED
    BY <1>1, <1>2, <1>3, <1>5, <1>6, <1>7, <2>1
<1>8. CASE ~done
  <2>1. run' = nx /\ ran' = ran \cup {nx} /\ batch' = l_rem(batch, nx)
    BY <1>8 DEF VisitTimer, Runs
  <2>2. l_rem(batch, nx) \in Seq(Timer) /\ Once(l_rem(batch, nx))
        /\ ToSet(l_rem(batch, nx)) = ToSet(batch) \ {nx}
    BY <1>1, <1>3, RemoveOnce
  <2>3. batch' \in Seq(Timer) /\ Once(batch') /\ ToSet(batch') = ToSet(batch) \ {nx}
    BY <2>1, <2>2 DEF Once
  <2>4. \/ UNCHANGED <<timers, ttl, left, asked>>
        \/ /\ timers' \in Seq(Timer) /\ Once(timers') /\ ToSet(timers') = ToSet(timers) \cup {nx}
           /\ ttl' \in [Timer -> Nat]
           /\ \A m \in Timer : m \notin ToSet(timers) /\ m # nx => ttl'[m] = ttl[m]
           /\ left' = [left EXCEPT ![nx] = Orig[nx]]
           /\ asked' = [asked EXCEPT ![nx] = "once"]
           /\ Remaining(timers', ttl')[nx] = Orig[nx]
           /\ \A m \in ToSet(timers) : Remaining(timers', ttl')[m] = Remaining(timers, ttl)[m]
    <3>1. CASE nx \notin Periodic
      BY <1>8, <3>1 DEF VisitTimer
    <3>2. CASE nx \in Periodic
      <4>1. PICK w : w = dl_init(ttl, nx, Orig[nx])
        OBVIOUS
      <4>2. Orig[nx] \in Nat /\ nx \notin ToSet(timers)
        BY <1>1, <1>3, EventAssumption
      <4>3. w \in [Timer -> Nat] /\ w[nx] = Orig[nx] /\ \A m \in Timer : m # nx => w[m] = ttl[m]
        BY <1>1, <1>3, <4>1, <4>2 DEF dl_init
      <4>4. Remaining(timers, w) = Remaining(timers, ttl)
        <5>1. ToSet(timers) \subseteq Timer
          BY <1>1, MembersAre
        <5>2. \A m \in ToSet(timers) : w[m] = ttl[m]
          BY <4>2, <4>3, <5>1
        <5> QED
          BY <1>1, <5>2, OthersWaitAlike
      <4>5. PICK r : r = dl_ins(timers, w, nx)
        OBVIOUS
      <4>6. /\ timers' = r.list /\ ttl' = r.ttl /\ left' = [left EXCEPT ![nx] = Orig[nx]]
            /\ asked' = [asked EXCEPT ![nx] = "once"]
        BY <1>8, <3>2, <4>1, <4>5 DEF VisitTimer
      <4>7. timers \in Seq(Timer) /\ Once(timers)
        BY <1>1
      <4>8. /\ r.list \in Seq(Timer) /\ Once(r.list) /\ ToSet(r.list) = ToSet(timers) \cup {nx}
            /\ r.ttl \in [Timer -> Nat]
            /\ \A m \in Timer : m \notin ToSet(timers) /\ m # nx => r.ttl[m] = w[m]
            /\ Remaining(r.list, r.ttl)[nx] = w[nx]
            /\ \A m \in ToSet(timers) : Remaining(r.list, r.ttl)[m] = Remaining(timers, w)[m]
        BY <1>3, <4>2, <4>3, <4>5, <4>7, InsRemaining
      <4> QED
        BY <4>3, <4>4, <4>6, <4>8 DEF Once
    <3> QED
      BY <3>1, <3>2
  <2>5. nx' # End => nx' \in Timer /\ nx' \in ToSet(batch')
    BY <1>5, <1>6, <2>3
  <2> QED
    BY <1>2, <1>3, <1>8, <2>1, <2>3, <2>4, <2>5
<1> QED
  BY <1>7, <1>8

\* The timers advance: the list keeps those with time left, the others have expired.
LEMMA AdvanceDoes ==
  ASSUME Linked, elapsed \in Nat, EndSignals, pass' = "tm"
  PROVE  /\ timers' \in Seq(Timer) /\ Once(timers') /\ ttl' \in [Timer -> Nat]
         /\ batch' \in Seq(Timer) /\ Once(batch') /\ timed /\ ~eintr
         /\ nx' # End => nx' \in Timer /\ nx' \in ToSet(batch')
         /\ ToSet(timers') \cap ToSet(batch') = {}
         /\ ToSet(timers') \subseteq ToSet(timers) /\ ToSet(batch') \subseteq ToSet(timers)
         /\ \A m \in Timer : m \notin ToSet(timers) => ttl'[m] = ttl[m]
         /\ \A m \in ToSet(batch') : Remaining(timers, ttl)[m] <= elapsed
         /\ \A m \in ToSet(timers') :
              Remaining(timers', ttl')[m] = Remaining(timers, ttl)[m] - elapsed
<1>1. timers \in Seq(Timer) /\ Once(timers) /\ ttl \in [Timer -> Nat]
  BY DEF Linked
<1>2. timed /\ ~eintr
  BY DEF EndSignals
<1>3. PICK d \in Nat : d = elapsed
  OBVIOUS
<1>4. PICK r : r = dl_adv(timers, ttl, d)
  OBVIOUS
<1>5. timers' = r.list /\ ttl' = r.ttl /\ batch' = r.out /\ nx' = HeadOf(r.out)
  BY <1>2, <1>3, <1>4 DEF EndSignals
<1>6. /\ r.out \in Seq(Timer) /\ Once(r.out)
      /\ r.list \in Seq(Timer) /\ Once(r.list) /\ r.ttl \in [Timer -> Nat]
      /\ ToSet(r.out) \subseteq ToSet(timers) /\ ToSet(r.list) \subseteq ToSet(timers)
  BY <1>1, <1>4, AdvSplits
<1>7. \A m \in ToSet(r.out) : Remaining(timers, ttl)[m] <= d
  BY <1>1, <1>4, AdvSplits
<1>8. \A m \in ToSet(r.list) : /\ ~ (Remaining(timers, ttl)[m] <= d)
                               /\ Remaining(r.list, r.ttl)[m] = Remaining(timers, ttl)[m] - d
  BY <1>1, <1>4, AdvSplits
<1>9. ToSet(r.list) \cap ToSet(r.out) = {}
  BY <1>7, <1>8
<1>10. nx' # End => nx' \in Timer /\ nx' \in ToSet(batch')
  BY <1>5, <1>6, HeadOfIs, MembersAre
<1>11. ASSUME NEW m \in Timer, m \notin ToSet(timers) PROVE r.ttl[m] = ttl[m]
  <2>1. PICK at : at = FirstAfter(timers, ttl, d)
    OBVIOUS
  <2>2. at \in 1 .. Len(timers) + 1
    BY <1>1, <1>3, <2>1, FirstAfterParts
  <2>3. r.ttl = IF at > Len(timers) THEN ttl
                ELSE [ttl EXCEPT ![timers[at]] = @ - (d - Dues(timers, ttl)[at - 1])]
    BY <1>4, <2>1 DEF dl_adv
  <2>4. ~ (at > Len(timers)) => timers[at] \in ToSet(timers)
    <3>1. DOMAIN timers = 1 .. Len(timers) /\ Len(timers) \in Nat
      BY <1>1
    <3> QED
      BY <2>2, <3>1 DEF ToSet
  <2> QED
    BY <1>1, <1>11, <2>3, <2>4
<1> QED
  BY <1>2, <1>3, <1>5, <1>6, <1>7, <1>8, <1>9, <1>10, <1>11 DEF Once

-----------------------------------------------------------------------------
(* The lists.                                                                *)

LEMMA NumbersAre ==
  /\ Numbers \subseteq Nat
  /\ \A s \in Sig : Signum[s] \in Numbers
BY EventAssumption DEF Numbers

\* The least of some numbers is one of them.
LEMMA MinIn ==
  ASSUME NEW F, F \subseteq Nat, F # {}
  PROVE  Min(F) \in F
<1>1. \E n \in F : \A m \in F : n <= m
  BY Least
<1> QED
  BY <1>1 DEF Min

\* ue_sig_reg and ue_sig_cancel change the list of the event's signal only.
LEMMA RegSigDoes ==
  ASSUME Linked, NEW s \in Sig, RegSig(s)
  PROVE  /\ sigtab' \in [Numbers -> Seq(Sig)]
         /\ s \notin ToSet(sigtab[Signum[s]])
         /\ sigtab'[Signum[s]] = << s >> \o sigtab[Signum[s]]
         /\ \A n \in Numbers : n # Signum[s] => sigtab'[n] = sigtab[n]
         /\ \A n \in Numbers : Once(sigtab'[n]) /\ \A e \in ToSet(sigtab'[n]) : Signum[e] = n
<1>1. Signum[s] \in Numbers
  BY NumbersAre
<1>2. sigtab \in [Numbers -> Seq(Sig)] /\ sigtab[Signum[s]] \in Seq(Sig)
  BY <1>1 DEF Linked
<1>3. \A n \in Numbers : Once(sigtab[n]) /\ \A e \in ToSet(sigtab[n]) : Signum[e] = n
  BY DEF Linked
<1>4. s \notin ToSet(sigtab[Signum[s]])
  BY <1>2, ContainsIs DEF RegSig
<1>5. PICK l : l = << s >> \o sigtab[Signum[s]]
  OBVIOUS
<1>6. l \in Seq(Sig) /\ Once(l) /\ ToSet(l) = ToSet(sigtab[Signum[s]]) \cup {s}
  BY <1>1, <1>2, <1>3, <1>4, <1>5, PushOnce
<1>7. sigtab' = [sigtab EXCEPT ![Signum[s]] = l]
  BY <1>2, <1>5 DEF RegSig
<1>8. sigtab' \in [Numbers -> Seq(Sig)] /\ sigtab'[Signum[s]] = l
      /\ \A n \in Numbers : n # Signum[s] => sigtab'[n] = sigtab[n]
  BY <1>1, <1>2, <1>6, <1>7
<1> QED
  BY <1>1, <1>3, <1>4, <1>5, <1>6, <1>8

LEMMA CancelSigDoes ==
  ASSUME Linked, NEW s \in Sig, CancelSig(s)
  PROVE  /\ sigtab' \in [Numbers -> Seq(Sig)]
         /\ s \in ToSet(sigtab[Signum[s]])
         /\ sigtab'[Signum[s]] = l_rem(sigtab[Signum[s]], s)
         /\ \A n \in Numbers : n # Signum[s] => sigtab'[n] = sigtab[n]
         /\ \A n \in Numbers : Once(sigtab'[n]) /\ \A e \in ToSet(sigtab'[n]) : Signum[e] = n
<1>1. Signum[s] \in Numbers
  BY NumbersAre
<1>2. sigtab \in [Numbers -> Seq(Sig)] /\ sigtab[Signum[s]] \in Seq(Sig)
  BY <1>1 DEF Linked
<1>3. \A n \in Numbers : Once(sigtab[n]) /\ \A e \in ToSet(sigtab[n]) : Signum[e] = n
  BY DEF Linked
<1>4. s \in ToSet(sigtab[Signum[s]])
  BY <1>2, ContainsIs DEF CancelSig
<1>5. PICK l : l = l_rem(sigtab[Signum[s]], s)
  OBVIOUS
<1>6. l \in Seq(Sig) /\ Once(l) /\ ToSet(l) = ToSet(sigtab[Signum[s]]) \ {s}
  BY <1>1, <1>2, <1>3, <1>4, <1>5, RemoveOnce
<1>7. sigtab' = [sigtab EXCEPT ![Signum[s]] = l]
  BY <1>2, <1>5 DEF CancelSig
<1>8. sigtab' \in [Numbers -> Seq(Sig)] /\ sigtab'[Signum[s]] = l
      /\ \A n \in Numbers : n # Signum[s] => sigtab'[n] = sigtab[n]
  BY <1>1, <1>2, <1>6, <1>7
<1> QED
  BY <1>1, <1>3, <1>4, <1>5, <1>6, <1>8

\* The events come and go one at a time, and the walk of ue_next moves them whole.
LEMMA LinkedStep ==
  ASSUME Linked, Walk, elapsed \in Nat, [Next]_vars
  PROVE  Linked'
<1>1. ASSUME UNCHANGED <<timers, batch, treg, ttl, iolist, sigtab, caught, sset, fired>>
      PROVE  Linked'
  BY <1>1 DEF Linked, Once
<1>2. ASSUME NEW t \in Timer, InitTimer(t) PROVE Linked'
  <2>1. t \notin ToSet(timers) /\ t \notin ToSet(batch) /\ ttl' \in [Timer -> Nat]
    BY <1>2, InitTimerDoes
  <2>2. treg' = treg \ {t} /\ UNCHANGED <<timers, batch, iolist, sigtab, caught, sset, fired>>
    BY <1>2 DEF InitTimer, signalVars, walkVars
  <2> QED
    BY <2>1, <2>2 DEF Linked, Once
<1>3. ASSUME NEW t \in Timer, RegTimer(t) PROVE Linked'
  <2>1. /\ t \notin ToSet(timers) /\ t \notin ToSet(batch)
        /\ timers' \in Seq(Timer) /\ Once(timers') /\ ToSet(timers') = ToSet(timers) \cup {t}
        /\ ttl' \in [Timer -> Nat]
    BY <1>3, RegTimerDoes
  <2>2. treg' = treg \cup {t} /\ UNCHANGED <<batch, iolist, sigtab, caught, sset, fired>>
    BY <1>3 DEF RegTimer, signalVars, walkVars
  <2> QED
    BY <2>1, <2>2 DEF Linked, Once
<1>4. ASSUME NEW t \in Timer, CancelTimer(t) PROVE Linked'
  <2>1. /\ timers' \in Seq(Timer) /\ Once(timers') /\ ToSet(timers') = ToSet(timers) \ {t}
        /\ batch' \in Seq(Timer) /\ Once(batch') /\ ToSet(batch') = ToSet(batch) \ {t}
        /\ ttl' \in [Timer -> Nat]
    BY <1>4, CancelTimerDoes
  <2>2. treg' = treg \ {t} /\ UNCHANGED <<iolist, sigtab, caught, sset, fired>>
    BY <1>4 DEF CancelTimer, signalVars, walkVars
  <2> QED
    BY <2>1, <2>2 DEF Linked, Once
<1>5. ASSUME NEW i \in Io, RegIo(i) PROVE Linked'
  <2>1. i \notin ToSet(iolist) /\ iolist' = << i >> \o iolist
    BY <1>5, ContainsIs DEF RegIo, Linked
  <2>2. iolist' \in Seq(Io) /\ Once(iolist')
    BY <2>1, PushOnce DEF Linked
  <2>3. UNCHANGED <<timers, batch, treg, ttl, sigtab, caught, sset, fired>>
    BY <1>5 DEF RegIo, signalVars, walkVars
  <2> QED
    BY <2>2, <2>3 DEF Linked, Once
<1>6. ASSUME NEW i \in Io, CancelIo(i) PROVE Linked'
  <2>1. i \in ToSet(iolist) /\ iolist' = l_rem(iolist, i)
    BY <1>6, ContainsIs DEF CancelIo, Linked
  <2>2. iolist' \in Seq(Io) /\ Once(iolist')
    BY <2>1, RemoveOnce DEF Linked
  <2>3. UNCHANGED <<timers, batch, treg, ttl, sigtab, caught, sset, fired>>
    BY <1>6 DEF CancelIo, signalVars, walkVars
  <2> QED
    BY <2>2, <2>3 DEF Linked, Once
<1>7. ASSUME NEW s \in Sig, RegSig(s) PROVE Linked'
  <2>1. /\ sigtab' \in [Numbers -> Seq(Sig)]
        /\ \A n \in Numbers : Once(sigtab'[n]) /\ \A e \in ToSet(sigtab'[n]) : Signum[e] = n
    BY <1>7, RegSigDoes
  <2>2. caught' = caught \cup {Signum[s]} /\ Signum[s] \in Numbers
        /\ UNCHANGED <<timers, batch, treg, ttl, iolist, sset, fired>>
    BY <1>7, NumbersAre DEF RegSig, signalVars, walkVars
  <2> QED
    BY <2>1, <2>2 DEF Linked, Once
<1>8. ASSUME NEW s \in Sig, CancelSig(s) PROVE Linked'
  <2>1. /\ sigtab' \in [Numbers -> Seq(Sig)]
        /\ \A n \in Numbers : Once(sigtab'[n]) /\ \A e \in ToSet(sigtab'[n]) : Signum[e] = n
    BY <1>8, CancelSigDoes
  <2>2. UNCHANGED <<timers, batch, treg, ttl, iolist, caught, sset, fired>>
    BY <1>8 DEF CancelSig, signalVars, walkVars
  <2> QED
    BY <2>1, <2>2 DEF Linked, Once
<1>9. ASSUME ClearSignals \/ Stop \/ Tick PROVE Linked'
  <2>1. sset' \subseteq sset /\ UNCHANGED <<timers, batch, treg, ttl, iolist, sigtab, caught, fired>>
    BY <1>9 DEF ClearSignals, Stop, Tick, clientVars, signalVars, walkVars
  <2> QED
    BY <2>1 DEF Linked, Once
<1>10. ASSUME NEW n \in caught, Signal(n) PROVE Linked'
  <2>1. sset' = sset \cup {n} /\ UNCHANGED <<timers, batch, treg, ttl, iolist, sigtab, caught, fired>>
    BY <1>10 DEF Signal, clientVars, walkVars
  <2> QED
    BY <1>10, <2>1 DEF Linked, Once
<1>11. ASSUME Enter \/ WakeReady \/ WakeTimeout \/ WakeInterrupted PROVE Linked'
  BY <1>1, <1>11 DEF Enter, WakeReady, WakeTimeout, WakeInterrupted, Wake, clientVars, signalVars
<1>12. ASSUME TakeSignals PROVE Linked'
  <2>1. fired' \subseteq sset /\ UNCHANGED <<timers, batch, treg, ttl, iolist, sigtab, caught, sset>>
    BY <1>12 DEF TakeSignals, clientVars
  <2> QED
    BY <2>1 DEF Linked, Once
<1>13. ASSUME NextSignal PROVE Linked'
  <2>1. fired' \subseteq fired /\ UNCHANGED <<timers, batch, treg, ttl, iolist, sigtab, caught, sset>>
    BY <1>13 DEF NextSignal, clientVars, signalVars
  <2> QED
    BY <2>1 DEF Linked, Once
<1>14. ASSUME EndSignals PROVE Linked'
  <2>1. fired' = {} /\ UNCHANGED <<treg, iolist, sigtab, caught, sset>>
    BY <1>14 DEF EndSignals, signalVars
  <2>2. CASE pass' = "tm"
    <3>1. /\ timers' \in Seq(Timer) /\ Once(timers') /\ ttl' \in [Timer -> Nat]
          /\ batch' \in Seq(Timer) /\ Once(batch')
          /\ ToSet(timers') \cap ToSet(batch') = {}
          /\ ToSet(timers') \subseteq ToSet(timers) /\ ToSet(batch') \subseteq ToSet(timers)
      BY <1>14, <2>2, AdvanceDoes
    <3> QED
      BY <2>1, <3>1 DEF Linked, Once
  <2>3. CASE pass' # "tm"
    <3>1. UNCHANGED <<timers, ttl, batch>>
      BY <1>14, <2>3 DEF EndSignals
    <3> QED
      BY <2>1, <3>1 DEF Linked, Once
  <2> QED
    BY <2>2, <2>3
<1>15. ASSUME VisitTimer PROVE Linked'
  <2>1. /\ nx \in ToSet(batch)
        /\ batch' \in Seq(Timer) /\ Once(batch') /\ ToSet(batch') \subseteq ToSet(batch)
        /\ ~done => ToSet(batch') = ToSet(batch) \ {nx}
        /\ \/ UNCHANGED <<timers, ttl, left>>
           \/ /\ ~done
              /\ timers' \in Seq(Timer) /\ Once(timers') /\ ToSet(timers') = ToSet(timers) \cup {nx}
              /\ ttl' \in [Timer -> Nat]
    BY <1>15, VisitTimerDoes
  <2>2. UNCHANGED <<treg, iolist, sigtab, caught, sset, fired>>
    BY <1>15 DEF VisitTimer, signalVars
  <2>3. timers' \in Seq(Timer) /\ Once(timers') /\ ttl' \in [Timer -> Nat]
    BY <2>1 DEF Linked, Once
  <2>4. ToSet(timers') \cap ToSet(batch') = {}
        /\ ToSet(timers') \subseteq treg /\ ToSet(batch') \subseteq treg
    BY <2>1 DEF Linked
  <2> QED
    BY <2>1, <2>2, <2>3, <2>4 DEF Linked, Once
<1>16. ASSUME VisitSig \/ EndTimers \/ VisitIo \/ EndIo \/ Return PROVE Linked'
  BY <1>1, <1>16 DEF VisitSig, EndTimers, VisitIo, EndIo, Return, clientVars, signalVars
<1>17. CASE UNCHANGED vars
  BY <1>1, <1>17 DEF vars, clientVars, signalVars, walkVars
<1> QED
  BY <1>2, <1>3, <1>4, <1>5, <1>6, <1>7, <1>8, <1>9, <1>10, <1>11, <1>12, <1>13, <1>14, <1>15,
     <1>16, <1>17 DEF Next, Step, Client

-----------------------------------------------------------------------------
(* The walks.                                                                *)

LEMMA SigList ==
  ASSUME Linked, NEW s \in Sig
  PROVE  /\ Signum[s] \in Numbers
         /\ sigtab[Signum[s]] \in Seq(Sig) /\ Once(sigtab[Signum[s]])
         /\ ToSet(sigtab[Signum[s]]) \subseteq Sig
         /\ \A e \in ToSet(sigtab[Signum[s]]) : Signum[e] = Signum[s]
<1>1. Signum[s] \in Numbers
  BY NumbersAre
<1>2. sigtab[Signum[s]] \in Seq(Sig) /\ Once(sigtab[Signum[s]])
  BY <1>1 DEF Linked
<1>3. \A e \in ToSet(sigtab[Signum[s]]) : Signum[e] = Signum[s]
  BY <1>1 DEF Linked
<1>4. ToSet(sigtab[Signum[s]]) \subseteq Sig
  BY <1>2, MembersAre
<1> QED
  BY <1>1, <1>2, <1>3, <1>4

\* run_sig_handlers starts the walk of the events of a signal that was taken.
LEMMA NextSignalDoes ==
  ASSUME Linked, Walk, NextSignal
  PROVE  /\ pass = "sig" /\ pass' = "sig" /\ run = None /\ run' = None /\ ~lost /\ ~done /\ ~done'
         /\ sigtab' = sigtab /\ ran' = ran /\ fired' \subseteq fired
         /\ nx' # End => /\ nx' \in Sig /\ nx' \in ToSet(sigtab[Signum[nx']])
                         /\ Signum[nx'] \in fired /\ Signum[nx'] \notin fired'
<1>1. /\ pass = "sig" /\ pass' = "sig" /\ run = None /\ run' = None /\ ~lost /\ ~done /\ ~done'
      /\ sigtab' = sigtab /\ ran' = ran /\ fired # {}
  BY DEF NextSignal, AtEnd, Walking, clientVars
<1>2. PICK n : n = Min(fired)
  OBVIOUS
<1>3. fired' = fired \ {n} /\ nx' = HeadOf(sigtab[n])
  BY <1>2 DEF NextSignal
<1>4. fired \subseteq Nat /\ fired \subseteq Numbers
  BY NumbersAre DEF Linked
<1>5. n \in fired /\ n \in Numbers
  BY <1>1, <1>2, <1>4, MinIn
<1>6. sigtab[n] \in Seq(Sig) /\ \A s \in ToSet(sigtab[n]) : Signum[s] = n
  BY <1>5 DEF Linked
<1>7. nx' # End => nx' \in ToSet(sigtab[n]) /\ nx' \in Sig
  BY <1>3, <1>6, HeadOfIs, MembersAre
<1> QED
  BY <1>1, <1>3, <1>5, <1>6, <1>7

\* cb_run reads the next event before it calls this one.
LEMMA VisitSigDoes ==
  ASSUME Linked, Walk, VisitSig
  PROVE  /\ pass = "sig" /\ pass' = "sig" /\ ~lost /\ ~lost' /\ nx # End /\ nx \in Sig
         /\ nx \in ToSet(sigtab[Signum[nx]])
         /\ run = None /\ run' = nx /\ ran' = ran \cup {nx}
         /\ sigtab' = sigtab /\ fired' = fired /\ done' = done
         /\ nx \in Ahead(sigtab[Signum[nx]], nx)
         /\ nx' # End => /\ nx' \in Sig /\ Signum[nx'] = Signum[nx]
                         /\ nx' \in ToSet(sigtab[Signum[nx]])
                         /\ Ahead(sigtab[Signum[nx]], nx') \subseteq
                              Ahead(sigtab[Signum[nx]], nx) \ {nx}
<1>1. /\ pass = "sig" /\ pass' = "sig" /\ ~lost /\ ~lost' /\ nx # End
      /\ run = None /\ run' = nx /\ ran' = ran \cup {nx}
      /\ sigtab' = sigtab /\ fired' = fired /\ done' = done
      /\ nx' = After(sigtab[Signum[nx]], nx)
  BY DEF VisitSig, Walking, Runs, clientVars
<1>2. nx \in Sig /\ nx \in ToSet(sigtab[Signum[nx]])
  BY <1>1 DEF Walk
<1>3. PICK l : l = sigtab[Signum[nx]]
  OBVIOUS
<1>4. /\ l \in Seq(Sig) /\ Once(l) /\ ToSet(l) \subseteq Sig
      /\ \A e \in ToSet(l) : Signum[e] = Signum[nx]
  BY <1>2, <1>3, SigList
<1>5. nx \in ToSet(l) /\ nx' = After(l, nx)
  BY <1>1, <1>2, <1>3
<1>6. /\ nx \in Ahead(l, nx)
      /\ nx' # End => nx' \in ToSet(l) /\ Ahead(l, nx') \subseteq Ahead(l, nx) \ {nx}
  BY <1>4, <1>5, AfterIs
<1> QED
  BY <1>1, <1>2, <1>3, <1>4, <1>6

\* iorun reads the next event before it calls this one.
LEMMA VisitIoDoes ==
  ASSUME Linked, Walk, VisitIo
  PROVE  /\ pass = "io" /\ pass' = "io" /\ ~lost /\ ~lost' /\ nx # End /\ nx \in Io
         /\ nx \in ToSet(iolist) /\ run = None /\ iolist' = iolist
         /\ \/ run' = None /\ ran' = ran
            \/ ~done /\ run' = nx /\ ran' = ran \cup {nx}
         /\ nx \in Ahead(iolist, nx)
         /\ nx' # End => /\ nx' \in Io /\ nx' \in ToSet(iolist)
                         /\ Ahead(iolist, nx') \subseteq Ahead(iolist, nx) \ {nx}
<1>1. /\ pass = "io" /\ pass' = "io" /\ ~lost /\ ~lost' /\ nx # End
      /\ run = None /\ iolist' = iolist
      /\ \/ run' = None /\ ran' = ran
         \/ ~done /\ run' = nx /\ ran' = ran \cup {nx}
      /\ nx' = After(iolist, nx)
  BY DEF VisitIo, Walking, Runs, Skips, clientVars
<1>2. nx \in ToSet(iolist) /\ iolist \in Seq(Io) /\ Once(iolist)
  BY <1>1 DEF Walk, Linked
<1>3. ToSet(iolist) \subseteq Io
  BY <1>2, MembersAre
<1>4. /\ nx \in Ahead(iolist, nx)
      /\ nx' # End => nx' \in ToSet(iolist) /\ Ahead(iolist, nx') \subseteq Ahead(iolist, nx) \ {nx}
  BY <1>1, <1>2, AfterIs
<1> QED
  BY <1>1, <1>2, <1>3, <1>4

\* The three ways in which the signals come to an end.
LEMMA EndSignalsDoes ==
  ASSUME Linked, Walk, elapsed \in Nat, EndSignals
  PROVE  /\ pass = "sig" /\ run = None /\ run' = None /\ nx = End
         /\ ~lost /\ ~lost' /\ ran' = ran /\ iolist' = iolist
         /\ \/ pass' = "idle" /\ nx' = End
            \/ pass' = "tm" /\ (nx' # End => nx' \in Timer /\ nx' \in ToSet(batch'))
            \/ pass' = "io" /\ (nx' # End => nx' \in Io /\ nx' \in ToSet(iolist))
<1>1. /\ pass = "sig" /\ run = None /\ run' = None /\ nx = End
      /\ ~lost /\ ~lost' /\ ran' = ran /\ iolist' = iolist
  BY DEF EndSignals, AtEnd, Walking
<1>2. CASE eintr
  BY <1>1, <1>2 DEF EndSignals
<1>3. CASE ~eintr /\ timed
  <2>1. pass' = "tm"
    BY <1>3 DEF EndSignals
  <2> QED
    BY <1>1, <2>1, AdvanceDoes
<1>4. CASE ~eintr /\ ~timed
  <2>1. pass' = "io" /\ nx' = HeadOf(iolist)
    BY <1>4 DEF EndSignals
  <2>2. nx' # End => nx' \in ToSet(iolist) /\ nx' \in Io
    BY <2>1, HeadOfIs, MembersAre DEF Linked
  <2> QED
    BY <1>1, <2>1, <2>2
<1> QED
  BY <1>2, <1>3, <1>4

\* Whatever a callback registers or cancels, the walk is on its list or lost.
LEMMA WalkStep ==
  ASSUME Linked, Walk, elapsed \in Nat, [Next]_vars
  PROVE  Walk'
<1>1. ASSUME UNCHANGED <<pass, run, nx, lost, batch, iolist, sigtab>> PROVE Walk'
  BY <1>1 DEF Walk, Events
<1>2. ASSUME NEW t \in Timer, InitTimer(t) \/ RegTimer(t) PROVE Walk'
  BY <1>1, <1>2 DEF InitTimer, RegTimer, walkVars
<1>3. ASSUME NEW t \in Timer, CancelTimer(t) PROVE Walk'
  <2>1. UNCHANGED <<pass, run, nx, iolist, sigtab>> /\ ~lost /\ (~lost' => t # nx)
    BY <1>3 DEF CancelTimer, ClientRuns, walkVars
  <2>2. ToSet(batch') = ToSet(batch) \ {t}
    BY <1>3, CancelTimerDoes
  <2> QED
    BY <2>1, <2>2 DEF Walk, Events
<1>4. ASSUME NEW i \in Io, RegIo(i) PROVE Walk'
  <2>1. UNCHANGED <<pass, run, nx, batch, lost, sigtab>>
    BY <1>4 DEF RegIo, walkVars
  <2>2. i \notin ToSet(iolist) /\ iolist' = << i >> \o iolist
    BY <1>4, ContainsIs DEF RegIo, Linked
  <2>3. ToSet(iolist') = ToSet(iolist) \cup {i}
    BY <2>2, PushOnce DEF Linked
  <2> QED
    BY <2>1, <2>3 DEF Walk, Events
<1>5. ASSUME NEW i \in Io, CancelIo(i) PROVE Walk'
  <2>1. UNCHANGED <<pass, run, nx, batch, sigtab>> /\ ~lost /\ (~lost' => i # nx)
    BY <1>5 DEF CancelIo, ClientRuns, walkVars
  <2>2. i \in ToSet(iolist) /\ iolist' = l_rem(iolist, i)
    BY <1>5, ContainsIs DEF CancelIo, Linked
  <2>3. ToSet(iolist') = ToSet(iolist) \ {i}
    BY <2>2, RemoveOnce DEF Linked
  <2> QED
    BY <2>1, <2>3 DEF Walk, Events
<1>6. ASSUME NEW s \in Sig, RegSig(s) PROVE Walk'
  <2>1. UNCHANGED <<pass, run, nx, batch, lost, iolist>>
    BY <1>6 DEF RegSig, walkVars
  <2>2. /\ s \notin ToSet(sigtab[Signum[s]])
        /\ sigtab'[Signum[s]] = << s >> \o sigtab[Signum[s]]
        /\ \A n \in Numbers : n # Signum[s] => sigtab'[n] = sigtab[n]
    BY <1>6, RegSigDoes
  <2>3. ToSet(sigtab'[Signum[s]]) = ToSet(sigtab[Signum[s]]) \cup {s}
    BY <2>2, SigList, PushOnce
  <2>4. \A e \in Sig : e \in ToSet(sigtab[Signum[e]]) => e \in ToSet(sigtab'[Signum[e]])
    BY <2>2, <2>3, NumbersAre
  <2> QED
    BY <2>1, <2>4 DEF Walk, Events
<1>7. ASSUME NEW s \in Sig, CancelSig(s) PROVE Walk'
  <2>1. UNCHANGED <<pass, run, nx, batch, iolist>> /\ ~lost /\ (~lost' => s # nx)
    BY <1>7 DEF CancelSig, ClientRuns, walkVars
  <2>2. /\ s \in ToSet(sigtab[Signum[s]])
        /\ sigtab'[Signum[s]] = l_rem(sigtab[Signum[s]], s)
        /\ \A n \in Numbers : n # Signum[s] => sigtab'[n] = sigtab[n]
    BY <1>7, CancelSigDoes
  <2>3. ToSet(sigtab'[Signum[s]]) = ToSet(sigtab[Signum[s]]) \ {s}
    BY <2>2, SigList, RemoveOnce
  <2>4. \A e \in Sig : e # s /\ e \in ToSet(sigtab[Signum[e]]) => e \in ToSet(sigtab'[Signum[e]])
    BY <2>2, <2>3, NumbersAre
  <2> QED
    BY <2>1, <2>4 DEF Walk, Events
<1>8. ASSUME ClearSignals \/ Stop \/ Tick PROVE Walk'
  BY <1>1, <1>8 DEF ClearSignals, Stop, Tick, clientVars, walkVars
<1>9. ASSUME NEW n \in caught, Signal(n) PROVE Walk'
  BY <1>1, <1>9 DEF Signal, clientVars, walkVars
<1>10. ASSUME Enter \/ WakeReady \/ WakeTimeout \/ WakeInterrupted \/ TakeSignals PROVE Walk'
  <2>1. /\ pass \in {"idle", "wait", "woken"} /\ pass' \in {"wait", "woken", "sig"}
        /\ nx' = nx /\ run' = run
    BY <1>10 DEF Enter, WakeReady, WakeTimeout, WakeInterrupted, Wake, TakeSignals
  <2> QED
    BY <2>1 DEF Walk, Events
<1>11. ASSUME NextSignal PROVE Walk'
  <2>1. /\ pass' = "sig" /\ run' = None /\ sigtab' = sigtab
        /\ nx' # End => nx' \in Sig /\ nx' \in ToSet(sigtab[Signum[nx']])
    BY <1>11, NextSignalDoes
  <2> QED
    BY <2>1 DEF Walk, Events
<1>12. ASSUME VisitSig PROVE Walk'
  <2>1. /\ pass' = "sig" /\ nx \in Sig /\ run' = nx /\ sigtab' = sigtab
        /\ nx' # End => nx' \in Sig /\ Signum[nx'] = Signum[nx] /\ nx' \in ToSet(sigtab[Signum[nx]])
    BY <1>12, VisitSigDoes
  <2> QED
    BY <2>1 DEF Walk, Events
<1>13. ASSUME EndSignals PROVE Walk'
  <2>1. /\ run' = None /\ iolist' = iolist
        /\ \/ pass' = "idle" /\ nx' = End
           \/ pass' = "tm" /\ (nx' # End => nx' \in Timer /\ nx' \in ToSet(batch'))
           \/ pass' = "io" /\ (nx' # End => nx' \in Io /\ nx' \in ToSet(iolist))
    BY <1>13, EndSignalsDoes
  <2> QED
    BY <2>1 DEF Walk, Events
<1>14. ASSUME VisitTimer PROVE Walk'
  <2>1. /\ pass' = "tm" /\ run' \in Timer \cup {None}
        /\ nx' # End => nx' \in Timer /\ nx' \in ToSet(batch')
    BY <1>14, VisitTimerDoes
  <2> QED
    BY <2>1 DEF Walk, Events
<1>15. ASSUME EndTimers PROVE Walk'
  <2>1. pass' = "io" /\ nx' = HeadOf(iolist) /\ run' = run /\ run = None /\ iolist' = iolist
    BY <1>15 DEF EndTimers, AtEnd, Walking, clientVars
  <2>2. nx' # End => nx' \in ToSet(iolist) /\ nx' \in Io
    BY <2>1, HeadOfIs, MembersAre DEF Linked
  <2> QED
    BY <2>1, <2>2 DEF Walk, Events
<1>16. ASSUME VisitIo PROVE Walk'
  <2>1. /\ pass' = "io" /\ nx \in Io /\ run' \in {None, nx} /\ iolist' = iolist
        /\ nx' # End => nx' \in Io /\ nx' \in ToSet(iolist)
    BY <1>16, VisitIoDoes
  <2> QED
    BY <2>1 DEF Walk, Events
<1>17. ASSUME EndIo PROVE Walk'
  <2>1. pass' = "idle" /\ nx = End /\ nx' = End /\ run = None /\ run' = None
    BY <1>17 DEF EndIo, AtEnd, Walking
  <2> QED
    BY <2>1 DEF Walk, Events
<1>18. ASSUME Return PROVE Walk'
  <2>1. /\ run # None /\ run' = None /\ nx' \in {nx, End}
        /\ UNCHANGED <<pass, lost, batch, iolist, sigtab>>
    BY <1>18 DEF Return, clientVars
  <2> QED
    BY <2>1 DEF Walk, Events
<1>19. CASE UNCHANGED vars
  BY <1>1, <1>19 DEF vars, clientVars, walkVars
<1> QED
  BY <1>2, <1>3, <1>4, <1>5, <1>6, <1>7, <1>8, <1>9, <1>10, <1>11, <1>12, <1>13, <1>14, <1>15,
     <1>16, <1>17, <1>18, <1>19 DEF Next, Step, Client

\* ue_stop lets only the events of the signal at hand run.
LEMMA InTurnStep ==
  ASSUME Linked, Walk, InTurn, elapsed \in Nat, [Next]_vars
  PROVE  InTurn'
<1>1. ASSUME UNCHANGED <<pass, run, nx, lost, done, ran>> PROVE InTurn'
  BY <1>1 DEF InTurn
<1>2. ASSUME ~lost, UNCHANGED <<pass, run, nx, done, ran>> PROVE InTurn'
  BY <1>2 DEF InTurn
<1>3. ASSUME NEW t \in Timer, InitTimer(t) \/ RegTimer(t) \/ CancelTimer(t) PROVE InTurn'
  BY <1>2, <1>3 DEF InitTimer, RegTimer, CancelTimer, ClientRuns, walkVars
<1>4. ASSUME NEW i \in Io, RegIo(i) \/ CancelIo(i) PROVE InTurn'
  BY <1>2, <1>4 DEF RegIo, CancelIo, ClientRuns, walkVars
<1>5. ASSUME NEW s \in Sig, RegSig(s) \/ CancelSig(s) PROVE InTurn'
  BY <1>2, <1>5 DEF RegSig, CancelSig, ClientRuns, walkVars
<1>6. ASSUME ClearSignals \/ Tick PROVE InTurn'
  BY <1>1, <1>6 DEF ClearSignals, Tick, walkVars
<1>7. ASSUME NEW n \in caught, Signal(n) PROVE InTurn'
  BY <1>1, <1>7 DEF Signal, walkVars
<1>8. ASSUME Stop PROVE InTurn'
  <2>1. (pass = "idle" \/ run # None) /\ ~lost /\ UNCHANGED <<pass, run, nx, ran>>
    BY <1>8 DEF Stop, ClientRuns, walkVars
  <2> QED
    BY <2>1 DEF InTurn
<1>9. ASSUME Enter \/ WakeReady \/ WakeTimeout \/ WakeInterrupted \/ TakeSignals PROVE InTurn'
  <2>1. pass \in {"idle", "wait", "woken"} /\ nx' = nx
    BY <1>9 DEF Enter, WakeReady, WakeTimeout, WakeInterrupted, Wake, TakeSignals
  <2> QED
    BY <2>1 DEF InTurn, Walk
<1>10. ASSUME NextSignal PROVE InTurn'
  BY <1>10, NextSignalDoes DEF InTurn
<1>11. ASSUME VisitSig PROVE InTurn'
  BY <1>11, VisitSigDoes DEF InTurn
<1>12. ASSUME EndSignals PROVE InTurn'
  <2>1. pass' # "sig"
    BY <1>12, EndSignalsDoes
  <2> QED
    BY <2>1 DEF InTurn
<1>13. ASSUME VisitTimer \/ EndTimers \/ VisitIo \/ EndIo PROVE InTurn'
  <2>1. pass' # "sig"
    BY <1>13 DEF VisitTimer, EndTimers, VisitIo, EndIo, AtEnd, Walking
  <2> QED
    BY <2>1 DEF InTurn
<1>14. ASSUME Return PROVE InTurn'
  <2>1. /\ run # None /\ run' = None /\ nx' \in {nx, End}
        /\ UNCHANGED <<pass, lost, done, ran>>
    BY <1>14 DEF Return
  <2> QED
    BY <2>1 DEF InTurn
<1>15. CASE UNCHANGED vars
  BY <1>1, <1>15 DEF vars, walkVars
<1> QED
  BY <1>3, <1>4, <1>5, <1>6, <1>7, <1>8, <1>9, <1>10, <1>11, <1>12, <1>13, <1>14, <1>15
  DEF Next, Step, Client

\* What has run in this call of ue_next stays behind the walk.
LEMMA FreshStep ==
  ASSUME Linked, Walk, Fresh, elapsed \in Nat, [Next]_vars
  PROVE  Fresh'
<1>1. ASSUME UNCHANGED <<pass, ran, fired, nx, lost, batch, iolist, sigtab>> PROVE Fresh'
  BY <1>1 DEF Fresh, Ahead, PosOf
<1>2. ASSUME NEW t \in Timer, InitTimer(t) \/ RegTimer(t) PROVE Fresh'
  BY <1>1, <1>2 DEF InitTimer, RegTimer, walkVars
<1>3. ASSUME NEW t \in Timer, CancelTimer(t) PROVE Fresh'
  <2>1. UNCHANGED <<pass, ran, fired, nx, iolist, sigtab>> /\ ~lost
    BY <1>3 DEF CancelTimer, ClientRuns, walkVars
  <2>2. ToSet(batch') = ToSet(batch) \ {t}
    BY <1>3, CancelTimerDoes
  <2> QED
    BY <2>1, <2>2 DEF Fresh
<1>4. ASSUME NEW i \in Io, RegIo(i) PROVE Fresh'
  <2>1. UNCHANGED <<pass, ran, fired, nx, lost, batch, sigtab>>
    BY <1>4 DEF RegIo, walkVars
  <2>2. i \notin ToSet(iolist) /\ iolist' = << i >> \o iolist
    BY <1>4, ContainsIs DEF RegIo, Linked
  <2>3. \A e \in ToSet(iolist) : Ahead(iolist', e) = Ahead(iolist, e)
    BY <2>2, PushAhead DEF Linked
  <2> QED
    BY <2>1, <2>3 DEF Fresh, Walk
<1>5. ASSUME NEW i \in Io, CancelIo(i) PROVE Fresh'
  <2>1. UNCHANGED <<pass, ran, fired, nx, batch, sigtab>> /\ ~lost /\ (~lost' => i # nx)
    BY <1>5 DEF CancelIo, ClientRuns, walkVars
  <2>2. i \in ToSet(iolist) /\ iolist' = l_rem(iolist, i)
    BY <1>5, ContainsIs DEF CancelIo, Linked
  <2>3. \A e \in ToSet(iolist) : e # i => Ahead(iolist', e) \subseteq Ahead(iolist, e)
    BY <2>2, RemAhead DEF Linked
  <2> QED
    BY <2>1, <2>3 DEF Fresh, Walk
<1>6. ASSUME NEW s \in Sig, RegSig(s) PROVE Fresh'
  <2>1. UNCHANGED <<pass, ran, fired, nx, lost, batch, iolist>>
    BY <1>6 DEF RegSig, walkVars
  <2>2. /\ s \notin ToSet(sigtab[Signum[s]])
        /\ sigtab'[Signum[s]] = << s >> \o sigtab[Signum[s]]
        /\ \A n \in Numbers : n # Signum[s] => sigtab'[n] = sigtab[n]
    BY <1>6, RegSigDoes
  <2>3. \A e \in ToSet(sigtab[Signum[s]]) :
          Ahead(sigtab'[Signum[s]], e) = Ahead(sigtab[Signum[s]], e)
    BY <2>2, SigList, PushAhead
  <2>4. \A e \in Sig : e \in ToSet(sigtab[Signum[e]]) =>
          Ahead(sigtab'[Signum[e]], e) = Ahead(sigtab[Signum[e]], e)
    BY <2>2, <2>3, NumbersAre
  <2> QED
    BY <2>1, <2>4 DEF Fresh, Walk
<1>7. ASSUME NEW s \in Sig, CancelSig(s) PROVE Fresh'
  <2>1. UNCHANGED <<pass, ran, fired, nx, batch, iolist>> /\ ~lost /\ (~lost' => s # nx)
    BY <1>7 DEF CancelSig, ClientRuns, walkVars
  <2>2. /\ s \in ToSet(sigtab[Signum[s]])
        /\ sigtab'[Signum[s]] = l_rem(sigtab[Signum[s]], s)
        /\ \A n \in Numbers : n # Signum[s] => sigtab'[n] = sigtab[n]
    BY <1>7, CancelSigDoes
  <2>3. \A e \in ToSet(sigtab[Signum[s]]) : e # s =>
          Ahead(sigtab'[Signum[s]], e) \subseteq Ahead(sigtab[Signum[s]], e)
    BY <2>2, SigList, RemAhead
  <2>4. \A e \in Sig : e # s /\ e \in ToSet(sigtab[Signum[e]]) =>
          Ahead(sigtab'[Signum[e]], e) \subseteq Ahead(sigtab[Signum[e]], e)
    BY <2>2, <2>3, NumbersAre
  <2> QED
    BY <2>1, <2>4 DEF Fresh, Walk
<1>8. ASSUME ClearSignals \/ Stop \/ Tick PROVE Fresh'
  BY <1>1, <1>8 DEF ClearSignals, Stop, Tick, clientVars, walkVars
<1>9. ASSUME NEW n \in caught, Signal(n) PROVE Fresh'
  BY <1>1, <1>9 DEF Signal, clientVars, walkVars
<1>10. ASSUME Enter \/ WakeReady \/ WakeTimeout \/ WakeInterrupted PROVE Fresh'
  <2>1. /\ pass \in {"idle", "wait"} /\ pass' \in {"wait", "woken"} /\ nx' = nx
        /\ (pass = "idle" /\ ran' = {}) \/ (pass = "wait" /\ ran' = ran)
    BY <1>10 DEF Enter, WakeReady, WakeTimeout, WakeInterrupted, Wake
  <2> QED
    BY <2>1 DEF Fresh, Walk
<1>11. ASSUME TakeSignals PROVE Fresh'
  <2>1. pass = "woken" /\ pass' = "sig" /\ nx' = nx /\ ran' = ran
    BY <1>11 DEF TakeSignals
  <2> QED
    BY <2>1 DEF Fresh, Walk
<1>12. ASSUME NextSignal PROVE Fresh'
  <2>1. /\ pass = "sig" /\ pass' = "sig" /\ sigtab' = sigtab /\ ran' = ran /\ fired' \subseteq fired
        /\ nx' # End => /\ nx' \in Sig /\ nx' \in ToSet(sigtab[Signum[nx']])
                        /\ Signum[nx'] \in fired /\ Signum[nx'] \notin fired'
    BY <1>12, NextSignalDoes
  <2>2. ran \subseteq Sig /\ \A s \in ran : Signum[s] \notin fired
    BY <2>1 DEF Fresh
  <2>3. ASSUME nx' # End PROVE Ahead(sigtab[Signum[nx']], nx') \cap ran = {}
    <3>1. PICK e : e = nx'
      OBVIOUS
    <3>2. e \in Sig /\ e \in ToSet(sigtab[Signum[e]]) /\ Signum[e] \in fired
      BY <2>1, <2>3, <3>1
    <3>3. Ahead(sigtab[Signum[e]], e) \subseteq ToSet(sigtab[Signum[e]])
      BY <3>2, SigList, AfterIs
    <3>4. \A s \in ToSet(sigtab[Signum[e]]) : Signum[s] = Signum[e]
      BY <3>2, SigList
    <3> QED
      BY <2>2, <3>1, <3>2, <3>3, <3>4
  <2> QED
    BY <2>1, <2>2, <2>3 DEF Fresh
<1>13. ASSUME VisitSig PROVE Fresh'
  <2>1. /\ pass = "sig" /\ pass' = "sig" /\ ~lost /\ nx # End /\ nx \in Sig
        /\ ran' = ran \cup {nx} /\ sigtab' = sigtab /\ fired' = fired
        /\ nx' # End => /\ Signum[nx'] = Signum[nx]
                        /\ Ahead(sigtab[Signum[nx]], nx') \subseteq Ahead(sigtab[Signum[nx]], nx) \ {nx}
    BY <1>13, VisitSigDoes
  <2> QED
    BY <2>1 DEF Fresh
<1>14. ASSUME EndSignals PROVE Fresh'
  <2>1. /\ pass = "sig" /\ ran' = ran /\ iolist' = iolist
        /\ \/ pass' = "idle" /\ nx' = End
           \/ pass' = "tm" /\ (nx' # End => nx' \in Timer /\ nx' \in ToSet(batch'))
           \/ pass' = "io" /\ (nx' # End => nx' \in Io /\ nx' \in ToSet(iolist))
    BY <1>14, EndSignalsDoes
  <2>2. ran \subseteq Sig /\ Timer \cap Sig = {} /\ Io \cap Sig = {}
    BY <2>1, EventAssumption DEF Fresh
  <2>3. CASE pass' = "tm"
    <3>1. ToSet(batch') \subseteq ToSet(timers) /\ ToSet(timers) \subseteq Timer
      BY <1>14, <2>3, AdvanceDoes, MembersAre DEF Linked
    <3> QED
      BY <2>1, <2>2, <2>3, <3>1 DEF Fresh
  <2>4. CASE pass' = "io"
    <3>1. ToSet(iolist) \subseteq Io
      BY MembersAre DEF Linked
    <3>2. \A e \in ToSet(iolist) : Ahead(iolist, e) \subseteq ToSet(iolist)
      BY AfterIs DEF Linked
    <3> QED
      BY <2>1, <2>2, <2>4, <3>1, <3>2 DEF Fresh
  <2>5. CASE pass' = "idle"
    BY <2>1, <2>5 DEF Fresh
  <2> QED
    BY <2>1, <2>3, <2>4, <2>5
<1>15. ASSUME VisitTimer PROVE Fresh'
  <2>1. /\ nx \in Timer /\ pass = "tm" /\ pass' = "tm" /\ ToSet(batch') \subseteq ToSet(batch)
        /\ done => run' = run /\ ran' = ran
        /\ ~done => run' = nx /\ ran' = ran \cup {nx} /\ ToSet(batch') = ToSet(batch) \ {nx}
    BY <1>15, VisitTimerDoes
  <2> QED
    BY <2>1 DEF Fresh
<1>16. ASSUME EndTimers PROVE Fresh'
  <2>1. pass = "tm" /\ pass' = "io" /\ nx' = HeadOf(iolist) /\ ran' = ran /\ iolist' = iolist
    BY <1>16 DEF EndTimers, AtEnd, Walking, clientVars
  <2>2. ran \subseteq Sig \cup Timer /\ Timer \cap Io = {} /\ Io \cap Sig = {}
    BY <2>1, EventAssumption DEF Fresh
  <2>3. nx' # End => nx' \in ToSet(iolist)
    BY <2>1, HeadOfIs DEF Linked
  <2>4. ToSet(iolist) \subseteq Io
    BY MembersAre DEF Linked
  <2>5. \A e \in ToSet(iolist) : Ahead(iolist, e) \subseteq ToSet(iolist)
    BY AfterIs DEF Linked
  <2> QED
    BY <2>1, <2>2, <2>3, <2>4, <2>5 DEF Fresh
<1>17. ASSUME VisitIo PROVE Fresh'
  <2>1. /\ pass = "io" /\ pass' = "io" /\ ~lost /\ nx # End /\ iolist' = iolist
        /\ ran' \subseteq ran \cup {nx}
        /\ nx' # End => Ahead(iolist, nx') \subseteq Ahead(iolist, nx) \ {nx}
    BY <1>17, VisitIoDoes
  <2> QED
    BY <2>1 DEF Fresh
<1>18. ASSUME EndIo PROVE Fresh'
  <2>1. pass' = "idle"
    BY <1>18 DEF EndIo
  <2> QED
    BY <2>1 DEF Fresh
<1>19. ASSUME Return PROVE Fresh'
  <2>1. nx' \in {nx, End} /\ UNCHANGED <<pass, ran, fired, lost, batch, iolist, sigtab>>
    BY <1>19 DEF Return, clientVars
  <2> QED
    BY <2>1 DEF Fresh
<1>20. CASE UNCHANGED vars
  BY <1>1, <1>20 DEF vars, clientVars, walkVars
<1> QED
  BY <1>2, <1>3, <1>4, <1>5, <1>6, <1>7, <1>8, <1>9, <1>10, <1>11, <1>12, <1>13, <1>14, <1>15,
     <1>16, <1>17, <1>18, <1>19, <1>20 DEF Next, Step, Client

-----------------------------------------------------------------------------
(* The times.                                                                *)

\* What is left of a time, never less than nothing.
LEMMA MaxZero ==
  ASSUME NEW v \in Int
  PROVE  Max({0, v}) = IF v > 0 THEN v ELSE 0
<1>1. PICK c : c = IF v > 0 THEN v ELSE 0
  OBVIOUS
<1>2. c \in {0, v} /\ \A y \in {0, v} : c >= y
  BY <1>1
<1>3. \A x \in {0, v} : (\A y \in {0, v} : x >= y) => x = c
  BY <1>1
<1>4. Max({0, v}) = CHOOSE x \in {0, v} : \A y \in {0, v} : x >= y
  BY DEF Max
<1>5. Max({0, v}) \in {0, v} /\ \A y \in {0, v} : Max({0, v}) >= y
  BY <1>2, <1>4
<1> QED
  BY <1>1, <1>3, <1>5

\* The times on the list, and those until the timers may run, are numbers.
LEMMA TimesAre ==
  ASSUME Linked, OnTime
  PROVE  /\ Gone \in Nat /\ Owed \in [Timer -> Nat]
         /\ \A t \in ToSet(timers) : t \in Timer /\ Owed[t] \in Nat
         /\ \A t \in ToSet(timers) : Remaining(timers, ttl)[t] \in Nat
<1>1. Gone \in Nat
  BY DEF OnTime, Gone
<1>2. timers \in Seq(Timer) /\ Once(timers) /\ ttl \in [Timer -> Nat]
  BY DEF Linked
<1>3. \A t \in ToSet(timers) : Remaining(timers, ttl)[t] \in Nat
  BY <1>2, RemainingGrows
<1>4. \A t \in ToSet(timers) : t \in Timer
  BY <1>2, MembersAre
<1>5. Owed \in [Timer -> Nat]
  BY DEF OnTime, Owed
<1> QED
  BY <1>1, <1>3, <1>4, <1>5

\* A step that leaves the timers where they are and counts no more of the time.
LEMMA TimesStay ==
  ASSUME Linked, OnTime, timers' = timers, left' \in [Timer -> Nat], elapsed' \in Nat,
         \A t \in ToSet(timers) : Owed'[t] = Owed[t],
         Remaining(timers', ttl') = Remaining(timers, ttl),
         Gone' \in Nat, Gone' <= Gone, pass' = "wait" => ~eintr',
         pass' = "tm" => \A t \in ToSet(batch') : Owed'[t] = 0
  PROVE  OnTime'
<1>1. PICK g \in Nat : g = Gone
  BY TimesAre
<1>2. PICK h \in Nat : h = Gone'
  OBVIOUS
<1>3. PICK R : R = Remaining(timers, ttl)
  OBVIOUS
<1>4. ASSUME NEW t \in ToSet(timers) PROVE Owed[t] = 0 \/ Owed[t] + h <= R[t]
  <2>1. Owed[t] = 0 \/ Owed[t] + g <= R[t]
    BY <1>1, <1>3 DEF OnTime
  <2>2. Owed[t] \in Nat /\ R[t] \in Nat
    BY <1>3, TimesAre
  <2> QED
    BY <1>1, <1>2, <2>1, <2>2
<1>5. \A t \in ToSet(timers') : Owed'[t] = 0 \/ Owed'[t] + Gone' <= Remaining(timers', ttl')[t]
  BY <1>2, <1>3, <1>4
<1> QED
  BY <1>5 DEF OnTime

\* Nothing but ue_tm_init touches the time of a timer that is on no list.
LEMMA PreparedStep ==
  ASSUME Linked, Walk, Prepared, elapsed \in Nat, [Next]_vars
  PROVE  Prepared'
<1>1. /\ asked \in [Timer -> {"init", "once", "again"}]
      /\ \A t \in Timer : asked[t] = "init" =>
           t \notin ToSet(timers) /\ t \notin ToSet(batch) /\ ttl[t] = Orig[t]
  BY DEF Prepared
<1>2. ASSUME UNCHANGED <<timers, ttl, batch, asked>> PROVE Prepared'
  BY <1>1, <1>2 DEF Prepared
<1>3. ASSUME NEW t \in Timer, InitTimer(t) PROVE Prepared'
  <2>1. /\ timers' = timers /\ batch' = batch
        /\ asked' = [asked EXCEPT ![t] = "init"]
    BY <1>3 DEF InitTimer
  <2>2. /\ t \notin ToSet(timers) /\ t \notin ToSet(batch)
        /\ ttl'[t] = Orig[t] /\ \A m \in Timer : m # t => ttl'[m] = ttl[m]
    BY <1>3, InitTimerDoes
  <2> QED
    BY <1>1, <2>1, <2>2 DEF Prepared
<1>4. ASSUME NEW t \in Timer, RegTimer(t) PROVE Prepared'
  <2>1. /\ batch' = batch
        /\ asked' \in [Timer -> {"init", "once", "again"}] /\ asked'[t] # "init"
        /\ \A m \in Timer : m # t => asked'[m] = asked[m]
    BY <1>1, <1>4 DEF RegTimer
  <2>2. /\ ToSet(timers') = ToSet(timers) \cup {t}
        /\ \A m \in Timer : m \notin ToSet(timers) /\ m # t => ttl'[m] = ttl[m]
    BY <1>4, RegTimerDoes
  <2> QED
    BY <1>1, <2>1, <2>2 DEF Prepared
<1>5. ASSUME NEW t \in Timer, CancelTimer(t) PROVE Prepared'
  <2>1. asked' = asked
    BY <1>5 DEF CancelTimer
  <2>2. /\ ToSet(timers') = ToSet(timers) \ {t} /\ ToSet(batch') = ToSet(batch) \ {t}
        /\ \A m \in Timer : m \notin ToSet(timers) /\ m \notin ToSet(batch) => ttl'[m] = ttl[m]
    BY <1>5, CancelTimerDoes
  <2> QED
    BY <1>1, <2>1, <2>2 DEF Prepared
<1>6. ASSUME NEW i \in Io, RegIo(i) \/ CancelIo(i) PROVE Prepared'
  BY <1>2, <1>6 DEF RegIo, CancelIo
<1>7. ASSUME NEW s \in Sig, RegSig(s) \/ CancelSig(s) PROVE Prepared'
  BY <1>2, <1>7 DEF RegSig, CancelSig
<1>8. ASSUME ClearSignals \/ Stop \/ Tick PROVE Prepared'
  BY <1>2, <1>8 DEF ClearSignals, Stop, Tick, clientVars
<1>9. ASSUME NEW n \in caught, Signal(n) PROVE Prepared'
  BY <1>2, <1>9 DEF Signal, clientVars
<1>10. ASSUME \/ Enter \/ WakeReady \/ WakeTimeout \/ WakeInterrupted \/ TakeSignals
              \/ NextSignal \/ VisitSig \/ EndTimers \/ VisitIo \/ EndIo \/ Return
       PROVE  Prepared'
  BY <1>2, <1>10 DEF Enter, WakeReady, WakeTimeout, WakeInterrupted, Wake, TakeSignals,
     NextSignal, VisitSig, EndTimers, VisitIo, EndIo, Return, clientVars
<1>11. ASSUME EndSignals PROVE Prepared'
  <2>1. asked' = asked
    BY <1>11 DEF EndSignals
  <2>2. CASE pass' = "tm"
    <3>1. /\ ToSet(timers') \subseteq ToSet(timers) /\ ToSet(batch') \subseteq ToSet(timers)
          /\ \A m \in Timer : m \notin ToSet(timers) => ttl'[m] = ttl[m]
      BY <1>11, <2>2, AdvanceDoes
    <3> QED
      BY <1>1, <2>1, <3>1 DEF Prepared
  <2>3. CASE pass' # "tm"
    <3>1. UNCHANGED <<timers, ttl, batch>>
      BY <1>11, <2>3 DEF EndSignals
    <3> QED
      BY <1>2, <2>1, <3>1
  <2> QED
    BY <2>2, <2>3
<1>12. ASSUME VisitTimer PROVE Prepared'
  <2>1. nx \in Timer /\ ToSet(batch') \subseteq ToSet(batch)
    BY <1>12, VisitTimerDoes
  <2>2. CASE UNCHANGED <<timers, ttl, left, asked>>
    BY <1>1, <2>1, <2>2 DEF Prepared
  <2>3. CASE ~ UNCHANGED <<timers, ttl, left, asked>>
    <3>1. /\ ToSet(timers') = ToSet(timers) \cup {nx}
          /\ \A m \in Timer : m \notin ToSet(timers) /\ m # nx => ttl'[m] = ttl[m]
          /\ asked' = [asked EXCEPT ![nx] = "once"]
      BY <1>12, <2>3, VisitTimerDoes
    <3> QED
      BY <1>1, <2>1, <3>1 DEF Prepared
  <2> QED
    BY <2>2, <2>3
<1>13. CASE UNCHANGED vars
  BY <1>2, <1>13 DEF vars, clientVars
<1> QED
  BY <1>3, <1>4, <1>5, <1>6, <1>7, <1>8, <1>9, <1>10, <1>11, <1>12, <1>13 DEF Next, Step, Client

\* ue_next counts from the reading of the clock, the timers from their registration:
\* neither runs ahead of the other.
LEMMA OnTimeStep ==
  ASSUME Linked, Walk, Prepared, OnTime, [Next]_vars
  PROVE  OnTime'
<1>0. elapsed \in Nat /\ left \in [Timer -> Nat] /\ (pass = "wait" => ~eintr)
      /\ (pass = "tm" => \A t \in ToSet(batch) : Owed[t] = 0) /\ Gone \in Nat
      /\ Owed \in [Timer -> Nat]
  BY TimesAre DEF OnTime
<1>same. ASSUME UNCHANGED <<left, asked>> PROVE Owed' = Owed /\ left' \in [Timer -> Nat]
  BY <1>0, <1>same DEF Owed
<1>1. ASSUME UNCHANGED <<timers, ttl, batch, left, asked, elapsed, pass, timed, eintr>>
      PROVE  OnTime'
  <2>1. Owed' = Owed
    BY <1>1, <1>same
  <2> QED
    BY <1>1, <2>1 DEF OnTime, Gone, Counting
<1>2. ASSUME NEW t \in Timer, InitTimer(t) PROVE OnTime'
  <2>1. UNCHANGED <<timers, batch, left, elapsed, pass, timed, eintr>>
    BY <1>2 DEF InitTimer, walkVars
  <2>2. Remaining(timers', ttl') = Remaining(timers, ttl)
    BY <1>2, <2>1, InitTimerDoes
  <2>3. Gone' = Gone
    BY <2>1 DEF Gone, Counting
  <2>4. t \notin ToSet(timers) /\ t \notin ToSet(batch)
    BY <1>2, InitTimerDoes
  <2>5. \A m \in Timer : m # t => Owed'[m] = Owed[m]
    BY <1>2, <2>1 DEF InitTimer, Prepared, Owed
  <2>6. ToSet(timers) \subseteq Timer /\ ToSet(batch) \subseteq Timer
    BY MembersAre DEF Linked
  <2>7. \A m \in ToSet(timers) : Owed'[m] = Owed[m]
    BY <2>4, <2>5, <2>6
  <2>8. pass' = "tm" => \A m \in ToSet(batch') : Owed'[m] = 0
    BY <1>0, <2>1, <2>4, <2>5, <2>6
  <2> QED
    BY <1>0, <2>1, <2>2, <2>3, <2>7, <2>8, TimesStay
<1>3. ASSUME NEW t \in Timer, RegTimer(t) PROVE OnTime'
  <2>1. UNCHANGED <<batch, elapsed, pass, timed, eintr>>
    BY <1>3 DEF RegTimer, walkVars
  <2>2. /\ t \notin ToSet(timers) /\ t \notin ToSet(batch)
        /\ ToSet(timers') = ToSet(timers) \cup {t}
        /\ Remaining(timers', ttl')[t] = ttl[t]
        /\ \A m \in ToSet(timers) : Remaining(timers', ttl')[m] = Remaining(timers, ttl)[m]
    BY <1>3, RegTimerDoes
  <2>3. Gone' = Gone
    BY <2>1 DEF Gone, Counting
  <2>4. Orig[t] \in Nat /\ (asked[t] = "init" => ttl[t] = Orig[t])
    BY EventAssumption DEF Prepared
  <2>5. PICK v \in Nat : /\ v = IF asked[t] = "init" /\ ~Counting THEN Orig[t] ELSE 0
                         /\ v = 0 \/ v + Gone = ttl[t]
    <3>1. CASE asked[t] = "init" /\ ~Counting
      BY <2>4, <3>1 DEF Gone
    <3>2. CASE ~ (asked[t] = "init" /\ ~Counting)
      BY <3>2
    <3> QED
      BY <3>1, <3>2
  <2>6. /\ left' = [left EXCEPT ![t] = Orig[t]]
        /\ asked' = [asked EXCEPT ![t] = IF @ = "init" /\ ~Counting THEN "once" ELSE "again"]
    BY <1>3 DEF RegTimer
  <2>7. /\ left' \in [Timer -> Nat] /\ left'[t] = Orig[t]
        /\ asked'[t] = IF asked[t] = "init" /\ ~Counting THEN "once" ELSE "again"
        /\ \A m \in Timer : m # t => left'[m] = left[m] /\ asked'[m] = asked[m]
    BY <1>0, <2>4, <2>6 DEF Prepared
  <2>8. Owed'[t] = v /\ \A m \in Timer : m # t => Owed'[m] = Owed[m]
    BY <2>5, <2>7 DEF Owed
  <2>9. \A m \in ToSet(timers) : m \in Timer /\ m # t
    BY <2>2, TimesAre
  <2>10. \A m \in ToSet(timers) : Owed'[m] = 0 \/ Owed'[m] + Gone' <= Remaining(timers', ttl')[m]
    BY <2>2, <2>3, <2>8, <2>9 DEF OnTime
  <2>11. Owed'[t] = 0 \/ Owed'[t] + Gone' <= Remaining(timers', ttl')[t]
    <3>1. v + Gone \in Nat
      BY <1>0, <2>5
    <3> QED
      BY <2>2, <2>3, <2>5, <2>8, <3>1
  <2>12. ToSet(batch) \subseteq Timer
    BY MembersAre DEF Linked
  <2>13. pass' = "tm" => \A m \in ToSet(batch') : Owed'[m] = 0
    BY <1>0, <2>1, <2>2, <2>8, <2>12
  <2> QED
    BY <1>0, <2>1, <2>2, <2>7, <2>10, <2>11, <2>13 DEF OnTime
<1>4. ASSUME NEW t \in Timer, CancelTimer(t) PROVE OnTime'
  <2>1. UNCHANGED <<asked, elapsed, pass, timed, eintr>> /\ left' = [left EXCEPT ![t] = 0]
    BY <1>4 DEF CancelTimer, walkVars
  <2>2. /\ ToSet(timers') = ToSet(timers) \ {t} /\ ToSet(batch') = ToSet(batch) \ {t}
        /\ \A m \in ToSet(timers) : m # t => Remaining(timers', ttl')[m] = Remaining(timers, ttl)[m]
    BY <1>4, CancelTimerDoes
  <2>3. Gone' = Gone
    BY <2>1 DEF Gone, Counting
  <2>4. left' \in [Timer -> Nat] /\ \A m \in Timer : m # t => Owed'[m] = Owed[m]
    BY <1>0, <2>1 DEF Owed
  <2>5. ToSet(timers) \subseteq Timer /\ ToSet(batch) \subseteq Timer
    BY MembersAre DEF Linked
  <2>6. \A m \in ToSet(timers') : Owed'[m] = 0 \/ Owed'[m] + Gone' <= Remaining(timers', ttl')[m]
    BY <2>2, <2>3, <2>4, <2>5 DEF OnTime
  <2>7. pass' = "tm" => \A m \in ToSet(batch') : Owed'[m] = 0
    BY <1>0, <2>1, <2>2, <2>4, <2>5
  <2> QED
    BY <1>0, <2>1, <2>4, <2>6, <2>7 DEF OnTime
<1>5. ASSUME NEW i \in Io, RegIo(i) \/ CancelIo(i) PROVE OnTime'
  BY <1>1, <1>5 DEF RegIo, CancelIo, walkVars
<1>6. ASSUME NEW s \in Sig, RegSig(s) \/ CancelSig(s) PROVE OnTime'
  BY <1>1, <1>6 DEF RegSig, CancelSig, walkVars
<1>7. ASSUME ClearSignals \/ Stop PROVE OnTime'
  BY <1>1, <1>7 DEF ClearSignals, Stop, clientVars, walkVars
<1>8. ASSUME NEW n \in caught, Signal(n) PROVE OnTime'
  BY <1>1, <1>8 DEF Signal, clientVars, walkVars
<1>9. ASSUME Tick PROVE OnTime'
  <2>1. /\ left' = [t \in Timer |-> Max({0, left[t] - 1})]
        /\ elapsed' = IF Counting THEN elapsed + 1 ELSE elapsed
        /\ UNCHANGED <<timers, ttl, batch, asked, pass, timed, eintr>>
    BY <1>9 DEF Tick, clientVars, walkVars
  <2>2. ASSUME NEW t \in Timer
        PROVE  /\ left'[t] \in Nat
               /\ Owed'[t] \in Nat /\ Owed'[t] <= Owed[t]
               /\ Owed'[t] = 0 \/ Owed'[t] = Owed[t] - 1
    <3>1. PICK w \in Nat : w = left[t]
      BY <1>0
    <3>2. w - 1 \in Int
      OBVIOUS
    <3>3. Max({0, w - 1}) = IF w - 1 > 0 THEN w - 1 ELSE 0
      BY <3>2, MaxZero
    <3>4. left'[t] = Max({0, w - 1})
      BY <2>1, <3>1
    <3>5. PICK x \in Nat : x = left'[t] /\ x <= w /\ (x = 0 \/ x = w - 1)
      BY <3>3, <3>4
    <3>6. CASE asked[t] = "again"
      <4>1. Owed[t] = 0 /\ Owed'[t] = 0
        BY <2>1, <3>6 DEF Owed
      <4> QED
        BY <3>5, <4>1
    <3>7. CASE asked[t] # "again"
      <4>1. Owed[t] = w /\ Owed'[t] = x
        BY <2>1, <3>1, <3>5, <3>7 DEF Owed
      <4> QED
        BY <3>5, <4>1
    <3> QED
      BY <3>6, <3>7
  <2>3. left' \in [Timer -> Nat] /\ elapsed' \in Nat
    BY <1>0, <2>1, <2>2
  <2>4. Gone' \in Nat /\ Gone' <= Gone + 1
    BY <1>0, <2>1 DEF Gone, Counting
  <2>5. ASSUME NEW t \in ToSet(timers)
        PROVE  Owed'[t] = 0 \/ Owed'[t] + Gone' <= Remaining(timers, ttl)[t]
    <3>1. Owed[t] \in Nat /\ t \in Timer /\ Remaining(timers, ttl)[t] \in Nat
      BY TimesAre
    <3>2. Owed[t] = 0 \/ Owed[t] + Gone <= Remaining(timers, ttl)[t]
      BY DEF OnTime
    <3>3. PICK g \in Nat : g = Gone
      BY <1>0
    <3>4. PICK h \in Nat : h = Gone' /\ h <= g + 1
      BY <2>4, <3>3
    <3>5. PICK q \in Nat : q = Remaining(timers, ttl)[t]
      BY <3>1
    <3>6. PICK w \in Nat : w = Owed[t]
      BY <3>1
    <3>7. PICK x \in Nat : x = Owed'[t] /\ x <= w /\ (x = 0 \/ x = w - 1)
      BY <2>2, <3>1, <3>6
    <3>8. w = 0 \/ w + g <= q
      BY <3>2, <3>3, <3>5, <3>6
    <3>9. x = 0 \/ x + h <= q
      BY <3>4, <3>7, <3>8
    <3> QED
      BY <3>4, <3>5, <3>7, <3>9
  <2>6. ToSet(batch) \subseteq Timer
    BY MembersAre DEF Linked
  <2>7. ASSUME pass = "tm", NEW t \in ToSet(batch) PROVE Owed'[t] = 0
    <3>1. t \in Timer /\ Owed[t] = 0
      BY <1>0, <2>6, <2>7
    <3>2. PICK x \in Nat : x = Owed'[t] /\ x <= 0
      BY <2>2, <3>1
    <3> QED
      BY <3>2
  <2> QED
    BY <1>0, <2>1, <2>3, <2>5, <2>7 DEF OnTime
<1>10. ASSUME Enter PROVE OnTime'
  <2>1. /\ pass' = "wait" /\ eintr' = FALSE /\ elapsed' = 0
        /\ UNCHANGED <<timers, ttl, left, asked>>
    BY <1>10 DEF Enter, clientVars
  <2>2. Gone' = 0
    BY <2>1 DEF Gone
  <2>3. 0 <= Gone
    BY <1>0
  <2> QED
    BY <1>same, <2>1, <2>2, <2>3, TimesStay
<1>11. ASSUME WakeReady \/ WakeTimeout \/ WakeInterrupted PROVE OnTime'
  <2>1. pass = "wait" /\ pass' = "woken" /\ UNCHANGED <<timers, ttl, left, asked, timed, elapsed>>
    BY <1>11 DEF WakeReady, WakeTimeout, WakeInterrupted, Wake, clientVars
  <2>2. Gone' \in Nat /\ Gone' <= Gone
    BY <1>0, <2>1 DEF Gone, Counting
  <2> QED
    BY <1>0, <1>same, <2>1, <2>2, TimesStay
<1>12. ASSUME TakeSignals \/ NextSignal \/ VisitSig PROVE OnTime'
  <2>1. /\ pass \in {"woken", "sig"} /\ pass' = "sig"
        /\ UNCHANGED <<timers, ttl, left, asked, timed, eintr, elapsed>>
    BY <1>12 DEF TakeSignals, NextSignal, VisitSig, AtEnd, Walking, clientVars
  <2>2. Gone' = Gone
    BY <2>1 DEF Gone, Counting
  <2> QED
    BY <1>0, <1>same, <2>1, <2>2, TimesStay
<1>13. ASSUME EndSignals PROVE OnTime'
  <2>1. /\ pass = "sig" /\ UNCHANGED <<left, asked, timed, eintr, elapsed>>
        /\ Owed' = Owed /\ left' \in [Timer -> Nat]
    BY <1>13, <1>same DEF EndSignals, AtEnd, Walking
  <2>2. CASE pass' = "tm"
    <3>1. /\ timed /\ ~eintr
          /\ ToSet(timers') \subseteq ToSet(timers) /\ ToSet(batch') \subseteq ToSet(timers)
          /\ \A m \in ToSet(batch') : Remaining(timers, ttl)[m] <= elapsed
          /\ \A m \in ToSet(timers') :
               Remaining(timers', ttl')[m] = Remaining(timers, ttl)[m] - elapsed
      BY <1>0, <1>13, <2>2, AdvanceDoes
    <3>2. PICK e \in Nat : e = elapsed /\ e = Gone
      BY <1>0, <2>1, <3>1 DEF Gone, Counting
    <3>3. Gone' = 0
      BY <2>2 DEF Gone, Counting
    <3>4. ASSUME NEW t \in ToSet(timers)
          PROVE  /\ Remaining(timers, ttl)[t] <= elapsed => Owed[t] = 0
                 /\ Owed[t] = 0 \/ Owed[t] <= Remaining(timers, ttl)[t] - elapsed
      <4>1. Owed[t] = 0 \/ Owed[t] + e <= Remaining(timers, ttl)[t]
        BY <3>2 DEF OnTime
      <4>2. Owed[t] \in Nat /\ Remaining(timers, ttl)[t] \in Nat
        BY TimesAre
      <4> QED
        BY <3>2, <4>1, <4>2
    <3>5. ASSUME NEW m \in ToSet(batch') PROVE Owed'[m] = 0
      BY <2>1, <3>1, <3>4, <3>5
    <3>6. ASSUME NEW m \in ToSet(timers')
          PROVE  Owed'[m] = 0 \/ Owed'[m] + Gone' <= Remaining(timers', ttl')[m]
      <4>1. Owed[m] \in Nat /\ m \in ToSet(timers)
        BY <3>1, <3>6, TimesAre
      <4>2. Owed[m] = 0 \/ Owed[m] <= Remaining(timers', ttl')[m]
        BY <3>1, <3>4, <3>6, <4>1
      <4> QED
        BY <2>1, <3>3, <4>1, <4>2
    <3> QED
      BY <1>0, <2>1, <2>2, <3>5, <3>6 DEF OnTime
  <2>3. CASE pass' # "tm"
    <3>1. UNCHANGED <<timers, ttl>> /\ pass' # "wait" /\ pass' # "woken" /\ pass' # "sig"
      BY <1>13, <2>3 DEF EndSignals
    <3>2. Gone' = 0 /\ 0 <= Gone
      BY <1>0, <3>1 DEF Gone, Counting
    <3> QED
      BY <1>0, <2>1, <2>3, <3>1, <3>2, TimesStay
  <2> QED
    BY <2>2, <2>3
<1>14. ASSUME VisitTimer PROVE OnTime'
  <2>1. /\ nx \in Timer /\ nx \in ToSet(batch) /\ pass = "tm" /\ pass' = "tm"
        /\ ToSet(batch') \subseteq ToSet(batch)
        /\ ~done => ToSet(batch') = ToSet(batch) \ {nx}
    BY <1>14, VisitTimerDoes
  <2>2. UNCHANGED <<elapsed, timed, eintr>> /\ Gone = 0 /\ Gone' = 0
    BY <1>14, <2>1 DEF VisitTimer, Gone, Counting
  <2>3. CASE UNCHANGED <<timers, ttl, left, asked>>
    <3>1. Owed' = Owed /\ left' \in [Timer -> Nat]
      BY <1>same, <2>3
    <3>2. \A t \in ToSet(batch') : Owed'[t] = 0
      BY <1>0, <2>1, <3>1
    <3> QED
      BY <1>0, <2>1, <2>2, <2>3, <3>1, <3>2, TimesStay
  <2>4. CASE ~ UNCHANGED <<timers, ttl, left, asked>>
    <3>1. /\ ~done /\ ToSet(timers') = ToSet(timers) \cup {nx}
          /\ left' = [left EXCEPT ![nx] = Orig[nx]]
          /\ asked' = [asked EXCEPT ![nx] = "once"]
          /\ Remaining(timers', ttl')[nx] = Orig[nx]
          /\ \A m \in ToSet(timers) : Remaining(timers', ttl')[m] = Remaining(timers, ttl)[m]
      BY <1>14, <2>4, VisitTimerDoes
    <3>2. PICK o \in Nat : o = Orig[nx]
      BY <2>1, EventAssumption
    <3>new. /\ left' \in [Timer -> Nat] /\ left'[nx] = o /\ asked'[nx] # "again"
          /\ \A m \in Timer : m # nx => left'[m] = left[m] /\ asked'[m] = asked[m]
      BY <1>0, <2>1, <3>1, <3>2 DEF Prepared
    <3>3. Owed'[nx] = o /\ \A m \in Timer : m # nx => Owed'[m] = Owed[m]
      BY <2>1, <3>new DEF Owed
    <3>4. ToSet(batch) \subseteq Timer /\ nx \notin ToSet(timers)
      BY <2>1, MembersAre DEF Linked
    <3>5. \A m \in ToSet(batch') : Owed'[m] = 0
      BY <1>0, <2>1, <3>1, <3>3, <3>4
    <3>6. ASSUME NEW m \in ToSet(timers)
          PROVE  Owed'[m] = 0 \/ Owed'[m] + Gone' <= Remaining(timers', ttl')[m]
      <4>1. m \in Timer /\ m # nx
        BY <3>4, TimesAre
      <4>2. Owed[m] = 0 \/ Owed[m] + Gone <= Remaining(timers, ttl)[m]
        BY DEF OnTime
      <4> QED
        BY <2>2, <3>1, <3>3, <4>1, <4>2
    <3>7. Owed'[nx] + Gone' <= Remaining(timers', ttl')[nx]
      BY <2>2, <3>1, <3>2, <3>3
    <3>8. elapsed' \in Nat /\ (pass' = "wait" => ~eintr')
      BY <1>0, <2>1, <2>2
    <3> QED
      BY <3>1, <3>new, <3>5, <3>6, <3>7, <3>8 DEF OnTime
  <2> QED
    BY <2>3, <2>4
<1>15. ASSUME EndTimers \/ EndIo PROVE OnTime'
  <2>1. /\ pass \in {"tm", "io"} /\ pass' \in {"io", "idle"}
        /\ UNCHANGED <<timers, ttl, left, asked, elapsed>>
    BY <1>15 DEF EndTimers, EndIo, AtEnd, Walking, clientVars
  <2>2. Gone' = 0 /\ 0 <= Gone
    BY <1>0, <2>1 DEF Gone, Counting
  <2> QED
    BY <1>0, <1>same, <2>1, <2>2, TimesStay
<1>16. ASSUME VisitIo \/ Return PROVE OnTime'
  BY <1>1, <1>16 DEF VisitIo, Return, clientVars
<1>17. CASE UNCHANGED vars
  BY <1>1, <1>17 DEF vars, clientVars, walkVars
<1> QED
  BY <1>2, <1>3, <1>4, <1>5, <1>6, <1>7, <1>8, <1>9, <1>10, <1>11, <1>12, <1>13, <1>14, <1>15,
     <1>16, <1>17 DEF Next, Step, Client

-----------------------------------------------------------------------------
(* The invariant holds.                                                      *)

LEMMA NothingIn ==
  ASSUME NEW S
  PROVE  << >> \in Seq(S) /\ ToSet(<< >>) = {} /\ Once(<< >>)
BY DEF ToSet, Once

LEMMA InitInv == Init => Inv
<1> SUFFICES ASSUME Init PROVE Inv
  OBVIOUS
<1>1. Orig \in [Timer -> Nat] /\ End # None
  BY EventAssumption DEF End, None
<1>2. sigtab = [n \in Numbers |-> << >>]
  BY DEF Init, Numbers
<1>3. sigtab \in [Numbers -> Seq(Sig)] /\ \A n \in Numbers : sigtab[n] = << >>
  BY <1>2, NothingIn
<1>4. \A n \in Numbers : Once(sigtab[n]) /\ \A s \in ToSet(sigtab[n]) : Signum[s] = n
  BY <1>3, NothingIn
<1>5. Linked
  BY <1>1, <1>3, <1>4, NothingIn DEF Init, Linked
<1>6. Walk
  BY DEF Init, Walk
<1>7. InTurn /\ Fresh
  BY DEF Init, InTurn, Fresh
<1>8. OnTime
  BY <1>1, NothingIn DEF Init, OnTime
<1>9. Prepared
  BY <1>1, NothingIn DEF Init, Prepared
<1> QED
  BY <1>5, <1>6, <1>7, <1>8, <1>9 DEF Inv

\* The lists, the walk and the times, whatever the callbacks do.
LEMMA Invariance == Spec => []Inv
<1>1. Inv /\ [Next]_vars => Inv'
  <2> SUFFICES ASSUME Inv, [Next]_vars PROVE Inv'
    OBVIOUS
  <2>1. Linked /\ Walk /\ InTurn /\ Fresh /\ Prepared /\ OnTime /\ elapsed \in Nat
    BY DEF Inv, OnTime
  <2>2. Linked' /\ Walk'
    BY <2>1, LinkedStep, WalkStep
  <2>3. InTurn'
    BY <2>1, InTurnStep
  <2>4. Fresh'
    BY <2>1, FreshStep
  <2>5. OnTime'
    BY <2>1, OnTimeStep
  <2>6. Prepared'
    BY <2>1, PreparedStep
  <2> QED
    BY <2>2, <2>3, <2>4, <2>5, <2>6 DEF Inv
<1> QED
  BY <1>1, InitInv, PTL DEF Spec

\* A callback starts where the walk is; ue_stop holds back the timers and descriptors.
LEMMA StartsAre ==
  ASSUME [Next]_vars, NEW e, Starts(e)
  PROVE  e = nx /\ (VisitSig \/ (VisitTimer /\ ~done) \/ (VisitIo /\ ~done))
<1>1. run = None /\ run' = e /\ e # None
  BY DEF Starts
<1>2. run' # run /\ run' # None
  BY <1>1
<1>3. VisitSig => run' = nx
  BY DEF VisitSig, Runs
<1>4. VisitTimer => IF done THEN run' = run ELSE run' = nx
  BY DEF VisitTimer, Runs, Skips
<1>5. VisitIo => \/ run' = run
                 \/ ~done /\ run' = nx
  BY DEF VisitIo, Runs, Skips
<1>6. Return => run' = None
  BY DEF Return
<1>7. ASSUME NEW t \in Timer, InitTimer(t) \/ RegTimer(t) \/ CancelTimer(t) PROVE run' = run
  BY <1>7 DEF InitTimer, RegTimer, CancelTimer, walkVars
<1>8. ASSUME NEW i \in Io, RegIo(i) \/ CancelIo(i) PROVE run' = run
  BY <1>8 DEF RegIo, CancelIo, walkVars
<1>9. ASSUME NEW s \in Sig, RegSig(s) \/ CancelSig(s) PROVE run' = run
  BY <1>9 DEF RegSig, CancelSig, walkVars
<1>10. ASSUME ClearSignals \/ Stop \/ Tick \/ \E n \in caught : Signal(n) PROVE run' = run
  BY <1>10 DEF ClearSignals, Stop, Tick, Signal, walkVars
<1>11. ASSUME \/ Enter \/ WakeReady \/ WakeTimeout \/ WakeInterrupted \/ TakeSignals
              \/ NextSignal \/ EndSignals \/ EndTimers \/ EndIo
       PROVE  run' = run
  BY <1>11 DEF Enter, WakeReady, WakeTimeout, WakeInterrupted, Wake, TakeSignals, NextSignal,
     EndSignals, EndTimers, EndIo
<1>12. UNCHANGED vars => run' = run
  BY DEF vars, walkVars
<1> QED
  BY <1>1, <1>2, <1>3, <1>4, <1>5, <1>6, <1>7, <1>8, <1>9, <1>10, <1>11, <1>12
     DEF Next, Step, Client

\* The kinds of events do not mix.
LEMMA KindsApart ==
  /\ Timer \cap Io = {} /\ Timer \cap Sig = {} /\ Io \cap Sig = {}
BY EventAssumption

-----------------------------------------------------------------------------
(* The theorems.                                                             *)

\* Two lists with nothing in common hold each node once, one behind the other.
LEMMA JoinedOnce ==
  ASSUME NEW S, NEW p \in Seq(S), NEW q \in Seq(S), Once(p), Once(q),
         ToSet(p) \cap ToSet(q) = {}
  PROVE  Once(p \o q)
<1>1. PICK c : c = p \o q
  OBVIOUS
<1>2. /\ Len(c) = Len(p) + Len(q) /\ Len(p) \in Nat /\ Len(q) \in Nat
      /\ DOMAIN c = 1 .. Len(c) /\ DOMAIN p = 1 .. Len(p) /\ DOMAIN q = 1 .. Len(q)
  BY <1>1
<1>3. ASSUME NEW at \in DOMAIN c
      PROVE  \/ at \in DOMAIN p /\ c[at] = p[at] /\ c[at] \in ToSet(p)
             \/ ~ (at \in DOMAIN p) /\ at - Len(p) \in DOMAIN q /\ c[at] = q[at - Len(p)]
                /\ c[at] \in ToSet(q)
  <2>1. CASE at <= Len(p)
    BY <1>1, <1>2, <1>3, <2>1 DEF ToSet
  <2>2. CASE ~ (at <= Len(p))
    <3>1. at - Len(p) \in DOMAIN q /\ ~ (at \in DOMAIN p) /\ c[at] = q[at - Len(p)]
      BY <1>1, <1>2, <1>3, <2>2
    <3> QED
      BY <3>1 DEF ToSet
  <2> QED
    BY <2>1, <2>2
<1>4. ASSUME NEW at \in DOMAIN c, NEW to \in DOMAIN c, c[at] = c[to] PROVE at = to
  <2>1. CASE at \in DOMAIN p
    BY <1>3, <1>4, <2>1 DEF Once
  <2>2. CASE ~ (at \in DOMAIN p)
    <3>1. at - Len(p) \in DOMAIN q /\ to - Len(p) \in DOMAIN q /\ q[at - Len(p)] = q[to - Len(p)]
      BY <1>3, <1>4, <2>2
    <3>2. at - Len(p) = to - Len(p)
      BY <3>1 DEF Once
    <3> QED
      BY <1>2, <1>4, <3>2
  <2> QED
    BY <2>1, <2>2
<1> QED
  BY <1>1, <1>4 DEF Once

\* No list of the multiplexer holds an event twice, and no timer is on two lists.
THEOREM Typing == Spec => []TypeOK
<1>1. Inv => TypeOK
  <2> SUFFICES ASSUME Inv PROVE TypeOK
    OBVIOUS
  <2>1. /\ Linked /\ Walk /\ left \in [Timer -> Nat]
        /\ asked \in [Timer -> {"init", "once", "again"}]
    BY DEF Inv, OnTime, Prepared
  <2>2. /\ timers \in Seq(Timer) /\ Once(timers) /\ batch \in Seq(Timer) /\ Once(batch)
        /\ ToSet(timers) \cap ToSet(batch) = {}
        /\ iolist \in Seq(Io) /\ Once(iolist) /\ DOMAIN sigtab = Numbers
        /\ \A n \in Numbers : Once(sigtab[n]) /\ \A s \in ToSet(sigtab[n]) : Signum[s] = n
    BY <2>1 DEF Linked
  <2>3. Once(timers \o batch)
    BY <2>2, JoinedOnce
  <2>4. ToSet(timers) \subseteq Timer /\ ToSet(batch) \subseteq Timer /\ ToSet(iolist) \subseteq Io
    BY <2>2, MembersAre
  <2>5. ASSUME NEW l \in {timers \o batch, iolist} \cup { sigtab[n] : n \in DOMAIN sigtab }
        PROVE  \A i, j \in DOMAIN l : l[i] = l[j] => i = j
    <3>1. Once(l)
      BY <2>2, <2>3
    <3> QED
      BY <3>1 DEF Once
  <2> QED
    BY <2>1, <2>2, <2>4, <2>5 DEF TypeOK, Linked, Walk
<1> QED
  BY <1>1, Invariance, PTL

\* No callback of a timer comes before the time its client asked for has passed, when
\* ue_tm_init prepared the timer for this registration or ue_next itself put it back.
THEOREM TimersAreNotEarly == Spec => NotEarly
<1>1. Inv /\ [Next]_vars =>
        [\A t \in Timer : Starts(t) => left[t] = 0 \/ asked[t] = "again"]_vars
  <2> SUFFICES ASSUME Inv, [Next]_vars, NEW t \in Timer, Starts(t)
               PROVE  left[t] = 0 \/ asked[t] = "again"
    OBVIOUS
  <2>1. Linked /\ Walk /\ OnTime
    BY DEF Inv
  <2>2. t = nx /\ (VisitSig \/ VisitTimer \/ VisitIo)
    BY StartsAre
  <2>3. VisitTimer
    BY <2>1, <2>2, VisitSigDoes, VisitIoDoes, KindsApart
  <2>4. nx \in ToSet(batch) /\ pass = "tm"
    BY <2>1, <2>3, VisitTimerDoes
  <2>5. Owed[t] = 0
    BY <2>1, <2>2, <2>4 DEF OnTime
  <2> QED
    BY <2>5 DEF Owed
<1> QED
  BY <1>1, Invariance, PTL DEF Spec, NotEarly

\* ue_tm_cancel, ue_io_cancel and ue_sig_cancel keep their event from running, also
\* in the middle of the walk that was about to run it.
THEOREM CancelledDoNotRun == Spec => CancelledStaysQuiet
<1> DEFINE Known(e) ==
      e \in treg \cup ToSet(iolist) \cup UNION { ToSet(sigtab[n]) : n \in DOMAIN sigtab }
<1>1. Inv /\ [Next]_vars => [\A e \in Events : Starts(e) => Known(e)]_vars
  <2> SUFFICES ASSUME Inv, [Next]_vars, NEW e \in Events, Starts(e) PROVE Known(e)
    OBVIOUS
  <2>1. Linked /\ Walk /\ DOMAIN sigtab = Numbers
    BY DEF Inv, Linked
  <2>2. e = nx /\ (VisitSig \/ VisitTimer \/ VisitIo)
    BY StartsAre
  <2>3. CASE VisitSig
    <3>1. nx \in Sig /\ nx \in ToSet(sigtab[Signum[nx]])
      BY <2>1, <2>3, VisitSigDoes
    <3>2. Signum[nx] \in DOMAIN sigtab
      BY <2>1, <3>1, NumbersAre
    <3> QED
      BY <2>2, <3>1, <3>2
  <2>4. CASE VisitTimer
    <3>1. nx \in ToSet(batch)
      BY <2>1, <2>4, VisitTimerDoes
    <3> QED
      BY <2>1, <2>2, <3>1 DEF Linked
  <2>5. CASE VisitIo
    BY <2>1, <2>2, <2>5, VisitIoDoes
  <2> QED
    BY <2>2, <2>3, <2>4, <2>5
<1> QED
  BY <1>1, Invariance, PTL DEF Spec, CancelledStaysQuiet

\* An event that its callback registers again waits for the next call of ue_next.
THEOREM RunsOncePerPass == Spec => OncePerPass
<1>1. Inv /\ [Next]_vars => [\A e \in Events : Starts(e) => e \notin ran]_vars
  <2> SUFFICES ASSUME Inv, [Next]_vars, NEW e \in Events, Starts(e) PROVE e \notin ran
    OBVIOUS
  <2>1. Linked /\ Walk /\ Fresh
    BY DEF Inv
  <2>2. e = nx /\ (VisitSig \/ VisitTimer \/ VisitIo)
    BY StartsAre
  <2>3. CASE VisitSig
    <3>1. pass = "sig" /\ ~lost /\ nx # End /\ nx \in Ahead(sigtab[Signum[nx]], nx)
      BY <2>1, <2>3, VisitSigDoes
    <3> QED
      BY <2>1, <2>2, <3>1 DEF Fresh
  <2>4. CASE VisitTimer
    <3>1. pass = "tm" /\ nx \in ToSet(batch)
      BY <2>1, <2>4, VisitTimerDoes
    <3> QED
      BY <2>1, <2>2, <3>1 DEF Fresh
  <2>5. CASE VisitIo
    <3>1. pass = "io" /\ ~lost /\ nx # End /\ nx \in Ahead(iolist, nx)
      BY <2>1, <2>5, VisitIoDoes
    <3> QED
      BY <2>1, <2>2, <3>1 DEF Fresh
  <2> QED
    BY <2>2, <2>3, <2>4, <2>5
<1> QED
  BY <1>1, Invariance, PTL DEF Spec, OncePerPass

\* After ue_stop only the events of the signal that is being handled still run.
THEOREM StopHolds == Spec => StopStops
<1> DEFINE Handled(e) == e \in Sig /\ \E s \in ran \cap Sig : Signum[s] = Signum[e]
<1>1. Inv /\ [Next]_vars => [\A e \in Events : done /\ Starts(e) => Handled(e)]_vars
  <2> SUFFICES ASSUME Inv, [Next]_vars, NEW e \in Events, done, Starts(e) PROVE Handled(e)
    OBVIOUS
  <2>1. Linked /\ Walk /\ InTurn
    BY DEF Inv
  <2>2. e = nx /\ VisitSig
    BY StartsAre
  <2>3. pass = "sig" /\ ~lost /\ nx # End /\ nx \in Sig
    BY <2>1, <2>2, VisitSigDoes
  <2> QED
    BY <2>1, <2>2, <2>3 DEF InTurn
<1> QED
  BY <1>1, Invariance, PTL DEF Spec, StopStops
=============================================================================
