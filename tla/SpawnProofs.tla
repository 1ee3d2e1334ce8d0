---------------------------- MODULE SpawnProofs ----------------------------
(***************************************************************************)
(* Proofs about Spawn, for any number of descriptors and entries and       *)
(* whatever fails: no launch leaks a descriptor of the client (the parent  *)
(* keeps what it has made apart from what was open), the program starts    *)
(* with what was asked for (after each dup2 of the child, what is behind   *)
(* is in place and what is to come is untouched), and ps_launch returns a  *)
(* child exactly if it was started.                                        *)
(***************************************************************************)
EXTENDS Spawn, SequenceTheorems, FiniteSetTheorems, TLAPS

\* Open file descriptions, and what a descriptor can have.
Open == {"old", "local", "remote", "file", "ret"} \X Int
Desc == Open \cup {Closed}

\* The targets of an entry do not matter here: they are in some set R.
Entry(R) == [file : BOOLEAN, locfd : Int, path : BOOLEAN, pipefd : Int, remfds : R,
             stdio : BOOLEAN, type : {"in", "out", "inout", "file", "remap"}]

\* An entry before create_pipes: it has a number only if the client had it open.
Fresh(e) == e.locfd = -1 /\ IF e.type = "remap" THEN e.pipefd \in open ELSE e.pipefd = -1

Typed(R) ==
  /\ open \subseteq Fds
  /\ spec \in Seq(Entry(R)) /\ ps \in Seq(Entry(R))
  /\ ptab \in [Fds -> Desc]
  /\ k \in Nat \ {0} /\ ret \in Int \X Int

InFlight == at \in {"pipes", "stdio", "parent", "read", "err"}

\* The launch, or the child it returned, has n.
Held(n) ==
  \/ InFlight /\ n \in {ret[1], ret[2]}
  \/ \E e \in DOMAIN ps : n \in cleanup(ps[e])

\* What a launch has was free, and the rest is as it was.
Apart == \A n \in Fds : IF Held(n) THEN n \notin open ELSE ptab[n] = Old[n]

Stages ==
  /\ \A e \in DOMAIN spec : Fresh(spec[e])
  /\ at \in {"build", "failed", "over"} => ps = << >>
  /\ at = "pipes" => \A e \in DOMAIN ps : e >= k => Fresh(ps[e])
  /\ at \in {"parent", "read"} /\ ret[2] \in Fds => ptab[ret[2]] = Closed

Inv == (\E R : Typed(R)) /\ Apart /\ Stages

-----------------------------------------------------------------------------
(* The table of descriptors. *)

LEMMA FdsAreNumbers == Fds \subseteq Nat /\ IsFiniteSet(Fds)
BY SpawnAssumption, FS_Interval DEF Fds

\* There is a lowest free number if any is free.
LEMMA LowestIsUnused ==
  ASSUME NEW tab \in [Fds -> Desc], unused(tab) # {}
  PROVE  lowest(tab) \in unused(tab)
<1>1. unused(tab) \subseteq Nat
  BY FdsAreNumbers DEF unused
<1>2. PICK m \in unused(tab) : \A n \in unused(tab) : ~(<< n, m >> \in OpToRel(<, Nat))
  BY <1>1, WFMin, NatLessThanWellFounded
<1>3. ASSUME NEW n \in unused(tab), n < m PROVE FALSE
  <2>1. << n, m >> \in Nat \X Nat /\ << n, m >>[1] < << n, m >>[2]
    BY <1>1, <1>3
  <2> QED
    BY <2>1, <1>2, Zenon DEF OpToRel
<1>4. \E n \in unused(tab) : \A o \in unused(tab) : n <= o
  BY <1>1, <1>3
<1> QED
  BY <1>4, Zenon DEF lowest

LEMMA OpenedTable ==
  ASSUME NEW tab \in [Fds -> Desc], unused(tab) # {}, NEW d \in Open
  PROVE  /\ lowest(tab) \in Fds /\ tab[lowest(tab)] = Closed
         /\ opened(tab, d) \in [Fds -> Desc]
         /\ \A n \in Fds : n # lowest(tab) => opened(tab, d)[n] = tab[n]
         /\ unused(opened(tab, d)) = unused(tab) \ {lowest(tab)}
<1>1. lowest(tab) \in Fds /\ tab[lowest(tab)] = Closed
  BY LowestIsUnused DEF unused
<1>2. d # Closed /\ d \in Desc
  <2>1. PICK s, v : d = << s, v >>
    BY DEF Open
  <2> QED
    BY <2>1 DEF Open, Desc, Closed
<1> QED
  BY <1>1, <1>2 DEF opened, unused

\* A pipe takes two free numbers and leaves the rest alone.
LEMMA PipeTakesFree ==
  ASSUME NEW tab \in [Fds -> Desc], PipeFits(tab), NEW r \in Open, NEW w \in Open
  PROVE  /\ pipe(tab, r, w) \in [Fds -> Desc]
         /\ pipe_fds(tab)[1] \in Fds /\ pipe_fds(tab)[2] \in Fds
         /\ pipe_fds(tab) \in Int \X Int
         /\ tab[pipe_fds(tab)[1]] = Closed /\ tab[pipe_fds(tab)[2]] = Closed
         /\ \A n \in Fds : n # pipe_fds(tab)[1] /\ n # pipe_fds(tab)[2]
                             => pipe(tab, r, w)[n] = tab[n]
<1>1. unused(tab) \in SUBSET Fds
  BY DEF unused
<1>2. IsFiniteSet(unused(tab)) /\ Cardinality(unused(tab)) >= 2
  BY <1>1, FdsAreNumbers, FS_Subset DEF PipeFits
<1>A. unused(tab) # {}
  BY <1>2, FS_EmptySet
<1>B. unused(tab) \ {lowest(tab)} # {}
  <2>1. lowest(tab) \in unused(tab)
    BY <1>A, LowestIsUnused
  <2>2. Cardinality(unused(tab) \ {lowest(tab)}) = Cardinality(unused(tab)) - 1
    BY <1>2, <2>1, FS_RemoveElement
  <2>3. Cardinality(unused(tab)) \in Nat
    BY <1>2, FS_CardinalityType
  <2> QED
    BY <1>2, <2>2, <2>3, FS_EmptySet
<1>3. RetR \in Open
  BY DEF RetR, Open
<1>4. /\ lowest(tab) \in Fds /\ tab[lowest(tab)] = Closed
      /\ opened(tab, r) \in [Fds -> Desc] /\ opened(tab, RetR) \in [Fds -> Desc]
      /\ \A n \in Fds : n # lowest(tab) => opened(tab, r)[n] = tab[n]
      /\ \A n \in Fds : n # lowest(tab) => opened(tab, RetR)[n] = tab[n]
      /\ unused(opened(tab, r)) = unused(tab) \ {lowest(tab)}
      /\ unused(opened(tab, RetR)) = unused(tab) \ {lowest(tab)}
  BY <1>A, <1>3, OpenedTable
<1>5. lowest(opened(tab, RetR)) = lowest(opened(tab, r))
  BY <1>4 DEF lowest
<1>6. /\ lowest(opened(tab, r)) \in unused(tab) \ {lowest(tab)}
      /\ pipe(tab, r, w) \in [Fds -> Desc]
      /\ \A n \in Fds : n # lowest(opened(tab, r)) => pipe(tab, r, w)[n] = opened(tab, r)[n]
  <2>1. unused(opened(tab, r)) # {}
    BY <1>B, <1>4
  <2> QED
    BY <2>1, <1>4, OpenedTable, LowestIsUnused DEF pipe
<1>7. /\ pipe_fds(tab) = << lowest(tab), lowest(opened(tab, r)) >>
      /\ pipe_fds(tab)[1] = lowest(tab) /\ pipe_fds(tab)[2] = lowest(opened(tab, r))
  BY <1>5 DEF pipe_fds
<1>8. lowest(opened(tab, r)) \in Fds /\ tab[lowest(opened(tab, r))] = Closed
  BY <1>6 DEF unused
<1>9. Fds \subseteq Int
  BY FdsAreNumbers
<1> QED
  <2>1. \A n \in Fds : n # pipe_fds(tab)[1] /\ n # pipe_fds(tab)[2]
                          => pipe(tab, r, w)[n] = tab[n]
    BY <1>4, <1>6, <1>7
  <2>2. pipe_fds(tab) \in Int \X Int
    BY <1>4, <1>7, <1>8, <1>9
  <2> QED
    BY <1>4, <1>6, <1>7, <1>8, <2>1, <2>2

LEMMA ClosedTable ==
  ASSUME NEW tab \in [Fds -> Desc], NEW S
  PROVE  /\ closed(tab, S) \in [Fds -> Desc]
         /\ \A n \in Fds : closed(tab, S)[n] = IF n \in S THEN Closed ELSE tab[n]
BY DEF closed, Desc

\* What was not open is closed, and the reverse.
LEMMA OldTable ==
  ASSUME NEW n \in Fds
  PROVE  n \notin open <=> Old[n] = Closed
BY DEF Old, Closed

\* cleanup names numbers, and a fresh entry has none to close.
LEMMA CleanupOf ==
  ASSUME NEW R, NEW e \in Entry(R), NEW n
  PROVE  /\ n \in cleanup(e) <=> n = e.locfd \/ (e.type # "remap" /\ n = e.pipefd)
         /\ Fresh(e) /\ n \in Fds => n \notin cleanup(e)
<1>1. n \in cleanup(e) <=> n = e.locfd \/ (e.type # "remap" /\ n = e.pipefd)
  BY DEF cleanup
<1>2. n \in Fds => n # -1
  BY FdsAreNumbers
<1> QED
  BY <1>1, <1>2 DEF Fresh

-----------------------------------------------------------------------------
(* Steps. *)

LEMMA InitEstablishes == Init => Inv
<1> SUFFICES ASSUME Init PROVE Inv
  OBVIOUS
<1>1. open \subseteq Fds
  BY SpawnAssumption DEF Init
<1>2. Old \in [Fds -> Desc]
  <2>1. \A n \in Fds : << "old", n >> \in Open
    BY FdsAreNumbers DEF Open
  <2> QED
    BY <2>1 DEF Old, Desc
<1>3. Typed({})
  BY <1>1, <1>2 DEF Init, Typed
<1>4. Apart
  BY DEF Init, Apart, Held, InFlight
<1>5. Stages
  BY DEF Init, Stages
<1> QED
  BY <1>3, <1>4, <1>5 DEF Inv

\* The child, and reading the client's state, change nothing here.
LEMMA OthersKeep ==
  ASSUME Inv, UNCHANGED <<open, spec, at, parentVars>>
  PROVE  Inv'
<1>1. /\ open' = open /\ spec' = spec /\ at' = at /\ ps' = ps /\ k' = k
      /\ ptab' = ptab /\ ret' = ret
  BY DEF parentVars
<1>2. PICK R : Typed(R)
  BY DEF Inv
<1>3. Typed(R)'
  BY <1>1, <1>2 DEF Typed
<1>4. Apart'
  BY <1>1 DEF Inv, Apart, Held, InFlight, Old
<1>5. Stages'
  BY <1>1 DEF Inv, Stages, Fresh
<1> QED
  BY <1>3, <1>4, <1>5 DEF Inv

LEMMA BuildKeeps ==
  ASSUME Inv, Build
  PROVE  Inv'
<1>1. /\ at = "build" /\ at' = at /\ open' = open /\ ps' = ps /\ k' = k
      /\ ptab' = ptab /\ ret' = ret
  BY DEF Build, ps_spec_add_pipe, ps_spec_add_fsrdr, ps_spec_add_remap, ps_spec_keepfd,
         newfde, ps_spec_del_fde, ps_fde_addfd, ps_fde_delfd, Building, parentVars
<1>2. PICK R : Typed(R)
  BY DEF Inv
<1>3. spec \in Seq(Entry(R)) /\ \A e \in DOMAIN spec : Fresh(spec[e])
  BY <1>2 DEF Typed, Inv, Stages
<1>4. \E Q : spec' \in Seq(Entry(Q)) /\ \A e \in DOMAIN spec' : Fresh(spec'[e])
  <2>1. ASSUME NEW type \in {"in", "out", "inout", "file", "remap"}, NEW stdio \in BOOLEAN,
               NEW pipefd \in Int, NEW path \in BOOLEAN, NEW remfds,
               IF type = "remap" THEN pipefd \in open ELSE pipefd = -1,
               newfde(type, stdio, pipefd, path, remfds)
        PROVE  \E Q : spec' \in Seq(Entry(Q)) /\ \A e \in DOMAIN spec' : Fresh(spec'[e])
    <3> DEFINE x == [file |-> FALSE, locfd |-> -1, path |-> path, pipefd |-> pipefd,
                     remfds |-> remfds, stdio |-> stdio, type |-> type]
               Q == R \cup {remfds}
    <3>1. x \in Entry(Q) /\ Fresh(x)
      BY <2>1 DEF Entry, Fresh
    <3>2. spec' = Append(spec, x)
      BY <2>1 DEF newfde
    <3>3. spec \in Seq(Entry(Q))
      <4>1. Entry(R) \subseteq Entry(Q)
        BY DEF Entry
      <4> QED
        BY <1>3, <4>1, SeqMonotonic
    <3> HIDE DEF x, Q
    <3>4. /\ Append(spec, x) \in Seq(Entry(Q)) /\ Len(Append(spec, x)) = Len(spec) + 1
          /\ \A e \in 1 .. Len(spec) : Append(spec, x)[e] = spec[e]
          /\ Append(spec, x)[Len(spec) + 1] = x
      BY <3>1, <3>3, AppendProperties
    <3>5. \A e \in DOMAIN Append(spec, x) : Fresh(Append(spec, x)[e])
      BY <1>3, <3>1, <3>3, <3>4
    <3> QED
      BY <3>2, <3>4, <3>5
  <2>2. ASSUME NEW e \in DOMAIN spec, ps_spec_del_fde(e)
        PROVE  \E Q : spec' \in Seq(Entry(Q)) /\ \A f \in DOMAIN spec' : Fresh(spec'[f])
    <3> DEFINE a == SubSeq(spec, 1, e - 1)
               b == SubSeq(spec, e + 1, Len(spec))
    <3>1. e \in 1 .. Len(spec) /\ Len(spec) \in Nat
      BY <1>3, <2>2
    <3>2. /\ a \in Seq(Entry(R)) /\ Len(a) = e - 1
          /\ \A m \in 1 .. (e - 1) : a[m] = spec[m]
      <4>1. \A m \in 1 .. (e - 1) : spec[m] \in Entry(R)
        BY <1>3, <3>1
      <4> QED
        BY <3>1, <4>1, SubSeqProperties
    <3>3. /\ b \in Seq(Entry(R)) /\ Len(b) = Len(spec) - e
          /\ \A m \in 1 .. (Len(spec) - e) : b[m] = spec[e + m]
      <4>1. \A m \in (e + 1) .. Len(spec) : spec[m] \in Entry(R)
        BY <1>3, <3>1
      <4> QED
        BY <3>1, <4>1, SubSeqProperties
    <3>4. spec' = a \o b
      BY <2>2 DEF ps_spec_del_fde, RemoveAt
    <3> HIDE DEF a, b
    <3>5. /\ a \o b \in Seq(Entry(R)) /\ Len(a \o b) = Len(a) + Len(b)
          /\ \A m \in 1 .. (Len(a) + Len(b)) :
               (a \o b)[m] = IF m <= Len(a) THEN a[m] ELSE b[m - Len(a)]
      BY <3>2, <3>3, ConcatProperties
    <3>6. ASSUME NEW m \in DOMAIN (a \o b) PROVE Fresh((a \o b)[m])
      <4>1. m \in 1 .. (Len(a) + Len(b)) /\ Len(a) = e - 1 /\ Len(b) = Len(spec) - e
        BY <3>2, <3>3, <3>5, <3>6
      <4>2. CASE m <= Len(a)
        <5>1. m \in 1 .. (e - 1) /\ m \in 1 .. Len(spec)
          BY <3>1, <4>1, <4>2
        <5>2. (a \o b)[m] = spec[m]
          BY <3>2, <3>5, <4>1, <4>2, <5>1
        <5> QED
          BY <1>3, <5>1, <5>2
      <4>3. CASE m > Len(a)
        <5> DEFINE o == m - Len(a)
        <5>1. o \in 1 .. (Len(spec) - e) /\ e + o \in 1 .. Len(spec)
          <6>1. PICK x \in Nat, y \in Nat, z \in Nat : /\ x = e /\ y = Len(spec) /\ z = m
                                                     /\ 1 <= x /\ x <= y /\ z <= y - 1
            BY <3>1, <4>1
          <6>2. o = z - (x - 1) /\ z > x - 1
            BY <4>1, <4>3, <6>1
          <6> HIDE DEF o
          <6> QED
            BY <6>1, <6>2, SMTT(30)
        <5>2. (a \o b)[m] = b[o]
          BY <3>5, <4>1, <4>3
        <5> HIDE DEF o
        <5>3. (a \o b)[m] = spec[e + o]
          BY <3>3, <5>1, <5>2
        <5> QED
          BY <1>3, <5>1, <5>3
      <4>4. m <= Len(a) \/ m > Len(a)
        BY <3>1, <4>1
      <4> QED
        BY <4>2, <4>3, <4>4
    <3> QED
      BY <3>4, <3>5, <3>6
  <2>3. ASSUME NEW e \in DOMAIN spec, NEW q, spec' = [spec EXCEPT ![e].remfds = q]
        PROVE  \E Q : spec' \in Seq(Entry(Q)) /\ \A f \in DOMAIN spec' : Fresh(spec'[f])
    <3> DEFINE Q == R \cup {q}
    <3>1. spec \in Seq(Entry(Q))
      <4>1. Entry(R) \subseteq Entry(Q)
        BY DEF Entry
      <4> QED
        BY <1>3, <4>1, SeqMonotonic
    <3>2. q \in Q
      OBVIOUS
    <3> HIDE DEF Q
    <3>3. spec[e] \in Entry(Q)
      BY <3>1, <2>3
    <3>4. [spec[e] EXCEPT !.remfds = q] \in Entry(Q) /\ Fresh([spec[e] EXCEPT !.remfds = q])
      BY <1>3, <3>2, <3>3 DEF Entry, Fresh
    <3>5. spec' = [spec EXCEPT ![e] = [spec[e] EXCEPT !.remfds = q]]
      BY <2>3
    <3>6. spec' \in Seq(Entry(Q))
      BY <3>1, <3>4, <3>5, ExceptSeq
    <3>7. \A f \in DOMAIN spec' : Fresh(spec'[f])
      BY <1>3, <3>4, <3>5
    <3> QED
      BY <3>6, <3>7
  <2>4. -1 \in Int /\ open \subseteq Int
    BY <1>2, FdsAreNumbers DEF Typed
  <2>5. CASE ps_spec_add_pipe
    <3>1. PICK p \in Pipes : newfde(p[1], p[2], -1, FALSE, << >>)
      BY <2>5 DEF ps_spec_add_pipe
    <3>2. p[1] \in {"in", "out", "inout"} /\ p[2] \in BOOLEAN
      BY SpawnAssumption
    <3> QED
      BY <2>1, <2>4, <3>1, <3>2
  <2>6. CASE ps_spec_add_fsrdr
    BY <2>1, <2>4, <2>6 DEF ps_spec_add_fsrdr
  <2>7. CASE ps_spec_add_remap
    BY <2>1, <2>4, <2>7 DEF ps_spec_add_remap
  <2>8. CASE ps_spec_keepfd
    BY <2>1, <2>4, <2>8 DEF ps_spec_keepfd
  <2>9. ASSUME NEW e \in DOMAIN spec, NEW fd \in Targets, ps_fde_addfd(e, fd) \/ ps_fde_delfd(e, fd)
        PROVE  \E q : spec' = [spec EXCEPT ![e].remfds = q]
    BY <2>9 DEF ps_fde_addfd, ps_fde_delfd
  <2> QED
    BY <2>2, <2>3, <2>5, <2>6, <2>7, <2>8, <2>9 DEF Build
<1>5. PICK Q : spec' \in Seq(Entry(Q)) /\ \A e \in DOMAIN spec' : Fresh(spec'[e])
  BY <1>4
<1>6. Typed(R \cup Q)'
  <2>1. Entry(R) \subseteq Entry(R \cup Q) /\ Entry(Q) \subseteq Entry(R \cup Q)
    BY DEF Entry
  <2>2. ps' \in Seq(Entry(R \cup Q)) /\ spec' \in Seq(Entry(R \cup Q))
    BY <1>1, <1>2, <1>5, <2>1, SeqMonotonic DEF Typed
  <2> QED
    BY <1>1, <1>2, <2>2 DEF Typed
<1>7. Apart'
  BY <1>1 DEF Inv, Apart, Held, InFlight, Old
<1>8. Stages'
  BY <1>1, <1>5 DEF Inv, Stages, Fresh
<1> QED
  BY <1>6, <1>7, <1>8 DEF Inv

LEMMA LaunchKeeps ==
  ASSUME Inv, Launch
  PROVE  Inv'
<1>1. PICK R : Typed(R)
  BY DEF Inv
<1>2. at = "build" /\ open' = open /\ spec' = spec /\ ps = << >>
  BY DEF Launch, Inv, Stages
<1>3. \A n \in Fds : ~Held(n) /\ ptab[n] = Old[n]
  BY <1>2 DEF Inv, Apart, Held, InFlight
<1>4. CASE at' = "failed" /\ UNCHANGED parentVars
  <2>1. Typed(R)'
    BY <1>1, <1>2, <1>4 DEF Typed, parentVars
  <2>2. Apart'
    BY <1>2, <1>3, <1>4 DEF Apart, Held, InFlight, parentVars, Old
  <2>3. Stages'
    BY <1>2, <1>4 DEF Inv, Stages, parentVars, Fresh
  <2> QED
    BY <2>1, <2>2, <2>3 DEF Inv
<1>5. CASE /\ PipeFits(ptab) /\ at' = "pipes" /\ ps' = ps_spec_copy(spec) /\ k' = 1
           /\ ptab' = pipe(ptab, RetR, RetW) /\ ret' = pipe_fds(ptab)
  <2>1. RetR \in Open /\ RetW \in Open
    BY DEF RetR, RetW, Open
  <2>2. /\ ptab' \in [Fds -> Desc] /\ ret' \in Int \X Int
        /\ ret'[1] \in Fds /\ ret'[2] \in Fds
        /\ ptab[ret'[1]] = Closed /\ ptab[ret'[2]] = Closed
        /\ \A n \in Fds : n # ret'[1] /\ n # ret'[2] => ptab'[n] = ptab[n]
    BY <1>1, <1>5, <2>1, PipeTakesFree DEF Typed
  <2>3. spec \in Seq(Entry(R)) /\ \A e \in DOMAIN spec : Fresh(spec[e])
    BY <1>1 DEF Typed, Inv, Stages
  <2>4. ps' \in Seq(Entry(R)) /\ \A e \in DOMAIN ps' : Fresh(ps'[e])
    <3>1. ASSUME NEW e \in DOMAIN spec
          PROVE  /\ [spec[e] EXCEPT !.path = FALSE] \in Entry(R)
                 /\ Fresh([spec[e] EXCEPT !.path = FALSE])
      <4>1. spec[e] \in Entry(R) /\ Fresh(spec[e])
        BY <2>3
      <4> QED
        BY <4>1 DEF Entry, Fresh
    <3>2. ps' = [e \in 1 .. Len(spec) |-> [spec[e] EXCEPT !.path = FALSE]]
      BY <1>5, <2>3 DEF ps_spec_copy
    <3>3. Len(spec) \in Nat /\ DOMAIN spec = 1 .. Len(spec)
      BY <2>3
    <3> QED
      BY <3>1, <3>2, <3>3
  <2>5. Typed(R)'
    BY <1>1, <1>2, <1>5, <2>2, <2>4 DEF Typed
  <2>6. ASSUME NEW n \in Fds
        PROVE  IF Held(n)' THEN n \notin open' ELSE ptab'[n] = Old'[n]
    <3>1. Held(n)' => n = ret'[1] \/ n = ret'[2]
      BY <2>4, CleanupOf DEF Held
    <3>2. n = ret'[1] \/ n = ret'[2] => n \notin open /\ Held(n)'
      <4>1. n = ret'[1] \/ n = ret'[2] => ptab[n] = Closed
        BY <2>2
      <4>2. Old[n] = Closed => n \notin open
        BY OldTable
      <4>3. n = ret'[1] \/ n = ret'[2] => Held(n)'
        BY <1>5 DEF Held, InFlight
      <4> QED
        BY <1>3, <4>1, <4>2, <4>3
    <3>3. Old' = Old
      BY <1>2 DEF Old
    <3> QED
      BY <1>2, <1>3, <2>2, <3>1, <3>2, <3>3
  <2>7. Stages'
    BY <1>2, <1>5, <2>3, <2>4 DEF Stages, Fresh
  <2> QED
    BY <2>5, <2>6, <2>7 DEF Inv, Apart
<1> QED
  BY <1>4, <1>5 DEF Launch

LEMMA FailKeeps ==
  ASSUME Inv, InFlight, Fail, UNCHANGED <<open, spec>>
  PROVE  Inv'
<1>1. PICK R : Typed(R)
  BY DEF Inv
<1>2. /\ open' = open /\ spec' = spec /\ ps' = ps /\ k' = k /\ ptab' = ptab /\ ret' = ret
      /\ at' = "err"
  BY DEF Fail, parentVars
<1>3. Typed(R)'
  BY <1>1, <1>2 DEF Typed
<1>4. Apart'
  BY <1>2 DEF Inv, Apart, Held, InFlight, Old
<1>5. Stages'
  BY <1>2 DEF Inv, Stages, Fresh
<1> QED
  BY <1>3, <1>4, <1>5 DEF Inv

LEMMA CreateKeeps ==
  ASSUME Inv, CreatePipe
  PROVE  Inv'
<1>1. PICK R : Typed(R)
  BY DEF Inv
<1>2. /\ at = "pipes" /\ k \in 1 .. Len(ps) /\ open' = open /\ spec' = spec
      /\ ps \in Seq(Entry(R)) /\ ps[k] \in Entry(R) /\ k \in DOMAIN ps
  BY <1>1 DEF CreatePipe, Typed
<1>3. CASE Fail
  BY <1>2, <1>3, FailKeeps DEF InFlight
<1>4. CASE k' = k + 1 /\ UNCHANGED <<at, ps, ptab, ret>>
  <2>1. Typed(R)'
    BY <1>1, <1>2, <1>4 DEF Typed
  <2>2. Apart'
    BY <1>2, <1>4 DEF Inv, Apart, Held, InFlight, Old
  <2>3. Stages'
    BY <1>2, <1>4 DEF Inv, Stages, Fresh
  <2> QED
    BY <2>1, <2>2, <2>3 DEF Inv
<1>5. ASSUME NEW r \in Open, NEW w \in Open, NEW down \in BOOLEAN,
             ps[k].type # "remap", PipeFits(ptab), ptab' = pipe(ptab, r, w),
             ps' = [ps EXCEPT ![k].pipefd = IF down THEN pipe_fds(ptab)[1] ELSE pipe_fds(ptab)[2],
                              ![k].locfd  = IF down THEN pipe_fds(ptab)[2] ELSE pipe_fds(ptab)[1]],
             k' = k + 1, UNCHANGED <<at, ret>>
      PROVE  Inv'
  <2> DEFINE f == pipe_fds(ptab)
             p == IF down THEN f[1] ELSE f[2]
             l == IF down THEN f[2] ELSE f[1]
             x == [ps[k] EXCEPT !.pipefd = p, !.locfd = l]
  <2>1. /\ ptab' \in [Fds -> Desc] /\ f[1] \in Fds /\ f[2] \in Fds
        /\ ptab[f[1]] = Closed /\ ptab[f[2]] = Closed
        /\ \A n \in Fds : n # f[1] /\ n # f[2] => ptab'[n] = ptab[n]
    BY <1>1, <1>5, PipeTakesFree DEF Typed
  <2>2. p \in Int /\ l \in Int
    <3>1. p \in Fds /\ l \in Fds
      BY <1>5, <2>1
    <3> HIDE DEF p, l
    <3> QED
      BY <3>1, FdsAreNumbers
  <2>3. ps' = [ps EXCEPT ![k] = x]
    BY <1>5
  <2> HIDE DEF f, p, l
  <2>4. x \in Entry(R) /\ x.type = ps[k].type /\ x.pipefd = p /\ x.locfd = l
    BY <1>2, <2>2 DEF Entry
  <2> HIDE DEF x
  <2>5. /\ ps' \in Seq(Entry(R)) /\ DOMAIN ps' = DOMAIN ps /\ ps'[k] = x
        /\ \A e \in DOMAIN ps : e # k => ps'[e] = ps[e]
    BY <1>2, <2>3, <2>4, ExceptSeq
  <2>6. Typed(R)'
    BY <1>1, <1>2, <1>5, <2>1, <2>5 DEF Typed
  <2>7. ASSUME NEW n \in Fds
        PROVE  IF Held(n)' THEN n \notin open' ELSE ptab'[n] = Old'[n]
    <3>1. n \notin cleanup(ps[k])
      BY <1>2, CleanupOf DEF Inv, Stages
    <3>2. n \in cleanup(x) <=> n = f[1] \/ n = f[2]
      <4>1. n \in cleanup(x) <=> n = l \/ n = p
        BY <1>5, <2>4, CleanupOf
      <4> QED
        BY <4>1 DEF l, p
    <3>3. Held(n)' <=> Held(n) \/ n = f[1] \/ n = f[2]
      BY <1>2, <1>5, <2>5, <3>1, <3>2 DEF Held, InFlight
    <3>4. n = f[1] \/ n = f[2] => n \notin open
      BY <2>1, OldTable DEF Inv, Apart
    <3>5. Old' = Old
      BY <1>2 DEF Old
    <3> QED
      BY <1>2, <2>1, <3>3, <3>4, <3>5 DEF Inv, Apart
  <2>8. Stages'
    <3>1. at' = "pipes" /\ \A e \in DOMAIN spec' : Fresh(spec'[e])
      BY <1>2, <1>5 DEF Inv, Stages
    <3>2. \A e \in DOMAIN ps' : e >= k' => Fresh(ps'[e])
      BY <1>1, <1>2, <1>5, <2>5 DEF Inv, Stages, Typed
    <3> QED
      BY <1>2, <3>1, <3>2 DEF Stages, Fresh
  <2> QED
    BY <2>6, <2>7, <2>8 DEF Inv, Apart
<1>6. ASSUME ~Fail, ps[k].type \notin {"remap", "file"}
      PROVE  Inv'
  <2> DEFINE down == ps[k].type = "in"
             r    == << IF down THEN "remote" ELSE "local", k >>
             w    == << IF down THEN "local" ELSE "remote", k >>
  <2>1. r \in Open /\ w \in Open /\ down \in BOOLEAN
    BY <1>1 DEF Open, Typed
  <2>2. /\ PipeFits(ptab) /\ ptab' = pipe(ptab, r, w) /\ k' = k + 1 /\ UNCHANGED <<at, ret>>
        /\ ps' = [ps EXCEPT ![k].pipefd = IF down THEN pipe_fds(ptab)[1] ELSE pipe_fds(ptab)[2],
                            ![k].locfd  = IF down THEN pipe_fds(ptab)[2] ELSE pipe_fds(ptab)[1]]
    BY <1>6 DEF CreatePipe
  <2> HIDE DEF down, r, w
  <2> QED
    BY <1>5, <1>6, <2>1, <2>2
<1> QED
  BY <1>3, <1>4, <1>6 DEF CreatePipe

\* Closing numbers that the launch has, and keeping no others.
LEMMA CloseKeeps ==
  ASSUME NEW R, Typed(R), Apart, NEW S, ptab' = closed(ptab, S), open' = open,
         \A n \in Fds : /\ n \in S \/ Held(n)' => Held(n)
                        /\ Held(n) => Held(n)' \/ n \in S \/ ptab[n] = Closed
  PROVE  Apart'
<1> SUFFICES ASSUME NEW n \in Fds
             PROVE  IF Held(n)' THEN n \notin open' ELSE ptab'[n] = Old'[n]
  BY DEF Apart
<1>1. ptab'[n] = IF n \in S THEN Closed ELSE ptab[n]
  BY ClosedTable DEF Typed
<1>2. Old' = Old
  BY DEF Old
<1>3. Held(n) => n \notin open /\ Old[n] = Closed
  BY OldTable DEF Apart
<1> QED
  BY <1>1, <1>2, <1>3 DEF Apart

LEMMA PipesCreatedKeeps ==
  ASSUME Inv, PipesCreated
  PROVE  Inv'
<1>1. PICK R : Typed(R)
  BY DEF Inv
<1>2. /\ at = "pipes" /\ at' = "stdio" /\ k' = 1
      /\ open' = open /\ spec' = spec /\ ps' = ps /\ ptab' = ptab /\ ret' = ret
  BY DEF PipesCreated
<1>3. Typed(R)'
  BY <1>1, <1>2 DEF Typed
<1>4. Apart'
  BY <1>2 DEF Inv, Apart, Held, InFlight, Old
<1>5. Stages'
  BY <1>2 DEF Inv, Stages, Fresh
<1> QED
  BY <1>3, <1>4, <1>5 DEF Inv

LEMMA OpenStdioKeeps ==
  ASSUME Inv, OpenStdio
  PROVE  Inv'
<1>1. PICK R : Typed(R)
  BY DEF Inv
<1>2. /\ at = "stdio" /\ k \in 1 .. Len(ps) /\ open' = open /\ spec' = spec
      /\ ps \in Seq(Entry(R)) /\ ps[k] \in Entry(R) /\ k \in DOMAIN ps
  BY <1>1 DEF OpenStdio, Typed
<1>3. CASE Fail
  BY <1>2, <1>3, FailKeeps DEF InFlight
<1>4. CASE /\ ps' = [ps EXCEPT ![k].file = ps[k].stdio]
           /\ k' = k + 1 /\ UNCHANGED <<at, ptab, ret>>
  <2> DEFINE x == [ps[k] EXCEPT !.file = ps[k].stdio]
  <2>1. x \in Entry(R) /\ cleanup(x) = cleanup(ps[k])
    BY <1>2 DEF Entry, cleanup
  <2>2. ps' = [ps EXCEPT ![k] = x]
    BY <1>4
  <2> HIDE DEF x
  <2>3. /\ ps' \in Seq(Entry(R)) /\ DOMAIN ps' = DOMAIN ps /\ ps'[k] = x
        /\ \A e \in DOMAIN ps : e # k => ps'[e] = ps[e]
    BY <1>2, <2>1, <2>2, ExceptSeq
  <2>4. Typed(R)'
    BY <1>1, <1>2, <1>4, <2>3 DEF Typed
  <2>5. \A n : Held(n)' <=> Held(n)
    BY <1>2, <1>4, <2>1, <2>3 DEF Held, InFlight
  <2>6. Apart'
    BY <1>2, <1>4, <2>5 DEF Inv, Apart, Old
  <2>7. Stages'
    BY <1>2, <1>4 DEF Inv, Stages, Fresh
  <2> QED
    BY <2>4, <2>6, <2>7 DEF Inv
<1> QED
  BY <1>2, <1>3, <1>4 DEF OpenStdio

LEMMA ForkKeeps ==
  ASSUME Inv, Fork
  PROVE  Inv'
<1>1. PICK R : Typed(R)
  BY DEF Inv
<1>2. at = "stdio" /\ open' = open /\ spec' = spec
  BY DEF Fork
<1>3. CASE Fail
  BY <1>2, <1>3, FailKeeps DEF InFlight
<1>4. CASE at' = "parent" /\ ptab' = parent_side /\ UNCHANGED <<ps, k, ret>>
  <2>1. ptab' = closed(ptab, {ret[2]})
    BY <1>4 DEF parent_side
  <2>2. /\ ptab' \in [Fds -> Desc]
        /\ \A n \in Fds : ptab'[n] = IF n \in {ret[2]} THEN Closed ELSE ptab[n]
    BY <1>1, <2>1, ClosedTable DEF Typed
  <2>3. Typed(R)'
    BY <1>1, <1>2, <1>4, <2>2 DEF Typed
  <2>4. \A n : (Held(n)' <=> Held(n)) /\ (n \in {ret[2]} => Held(n))
    BY <1>2, <1>4 DEF Held, InFlight
  <2>5. Apart'
    BY <1>1, <1>2, <2>1, <2>4, CloseKeeps DEF Inv
  <2>6. Stages'
    BY <1>2, <1>4, <2>2 DEF Inv, Stages, Fresh
  <2> QED
    BY <2>3, <2>5, <2>6 DEF Inv
<1> QED
  BY <1>3, <1>4 DEF Fork

LEMMA ParentClosesKeeps ==
  ASSUME Inv, ParentCloses
  PROVE  Inv'
<1>1. PICK R : Typed(R)
  BY DEF Inv
<1> DEFINE S == { ps[e].pipefd : e \in { e \in DOMAIN ps : ps[e].type # "remap" } }
<1>2. /\ at = "parent" /\ at' = "read" /\ open' = open /\ spec' = spec /\ k' = k
      /\ ret' = ret /\ ptab' = closed(ptab, S) /\ ps \in Seq(Entry(R))
      /\ ps' = [e \in DOMAIN ps |->
                  IF ps[e].type = "remap" THEN ps[e] ELSE [ps[e] EXCEPT !.pipefd = -1]]
  BY <1>1 DEF ParentCloses, Typed
<1>3. /\ ptab' \in [Fds -> Desc]
      /\ \A n \in Fds : ptab'[n] = IF n \in S THEN Closed ELSE ptab[n]
  BY <1>1, <1>2, ClosedTable DEF Typed
<1>4. ASSUME NEW e \in DOMAIN ps
      PROVE  /\ ps'[e] \in Entry(R) /\ ps[e] \in Entry(R) /\ ps'[e].type = ps[e].type
             /\ ps'[e].locfd = ps[e].locfd
             /\ ps[e].type # "remap" => ps'[e].pipefd = -1
  <2>1. ps[e] \in Entry(R)
    BY <1>2
  <2>2. CASE ps[e].type = "remap"
    BY <1>2, <2>1, <2>2
  <2>3. CASE ps[e].type # "remap"
    <3>1. ps'[e] = [ps[e] EXCEPT !.pipefd = -1]
      BY <1>2, <2>3
    <3> QED
      BY <2>1, <3>1 DEF Entry
  <2> QED
    BY <2>2, <2>3
<1>5. DOMAIN ps' = DOMAIN ps /\ ps' \in Seq(Entry(R))
  <2>1. Len(ps) \in Nat /\ DOMAIN ps = 1 .. Len(ps) /\ DOMAIN ps' = DOMAIN ps
    BY <1>2
  <2>2. ps' \in [1 .. Len(ps) -> Entry(R)]
    BY <1>2, <1>4, <2>1
  <2> QED
    BY <2>1, <2>2, SeqDef
<1>6. Typed(R)'
  BY <1>1, <1>2, <1>3, <1>5 DEF Typed
<1>7. ASSUME NEW n \in Fds
      PROVE  /\ n \in S \/ Held(n)' => Held(n)
             /\ Held(n) => Held(n)' \/ n \in S
  <2>1. n # -1
    BY FdsAreNumbers
  <2>2. \A e \in DOMAIN ps :
          /\ n \in cleanup(ps[e]) <=> n = ps[e].locfd \/ (ps[e].type # "remap" /\ n = ps[e].pipefd)
          /\ n \in cleanup(ps'[e]) <=> n = ps'[e].locfd \/ (ps'[e].type # "remap" /\ n = ps'[e].pipefd)
    BY <1>4, CleanupOf
  <2>3. n \in S => Held(n)
    BY <2>2 DEF Held
  <2>4. Held(n)' => Held(n)
    <3>1. ASSUME NEW e \in DOMAIN ps, n \in cleanup(ps'[e]) PROVE n \in cleanup(ps[e])
      BY <1>4, <2>1, <2>2, <3>1
    <3>2. InFlight => (InFlight' /\ ret' = ret)
      BY <1>2 DEF InFlight
    <3>3. InFlight
      BY <1>2 DEF InFlight
    <3>4. \A e \in DOMAIN ps' : n \in cleanup(ps'[e]) => n \in cleanup(ps[e])
      BY <1>5, <3>1
    <3> QED
      BY <1>5, <3>2, <3>3, <3>4 DEF Held
  <2>5. Held(n) => Held(n)' \/ n \in S
    BY <1>2, <1>4, <1>5, <2>2 DEF Held, InFlight
  <2> QED
    BY <2>3, <2>4, <2>5
<1> HIDE DEF S
<1>8. Apart'
  BY <1>1, <1>2, <1>7, CloseKeeps DEF Inv
<1>9. Stages'
  BY <1>2, <1>3 DEF Inv, Stages, Fresh
<1> QED
  BY <1>6, <1>8, <1>9 DEF Inv

LEMMA ParentReadsKeeps ==
  ASSUME Inv, ParentReads
  PROVE  Inv'
<1>1. PICK R : Typed(R)
  BY DEF Inv
<1>2. /\ at = "read" /\ open' = open /\ spec' = spec /\ ps' = ps /\ k' = k /\ ret' = ret
  BY DEF ParentReads
<1>3. CASE at' = "err" /\ UNCHANGED ptab
  <2>1. Typed(R)'
    BY <1>1, <1>2, <1>3 DEF Typed
  <2>2. Apart'
    BY <1>2, <1>3 DEF Inv, Apart, Held, InFlight, Old
  <2>3. Stages'
    BY <1>2, <1>3 DEF Inv, Stages, Fresh
  <2> QED
    BY <2>1, <2>2, <2>3 DEF Inv
<1>4. CASE at' = "launched" /\ ptab' = closed(ptab, {ret[1]})
  <2>1. ptab' \in [Fds -> Desc]
    BY <1>1, <1>4, ClosedTable DEF Typed
  <2>2. Typed(R)'
    BY <1>1, <1>2, <2>1 DEF Typed
  <2>3. \A n \in Fds : /\ n \in {ret[1]} \/ Held(n)' => Held(n)
                       /\ Held(n) => Held(n)' \/ n \in {ret[1]} \/ ptab[n] = Closed
    BY <1>2, <1>4 DEF Inv, Stages, Held, InFlight
  <2>4. Apart'
    BY <1>1, <1>2, <1>4, <2>3, CloseKeeps DEF Inv
  <2>5. Stages'
    BY <1>2, <1>4 DEF Inv, Stages, Fresh
  <2> QED
    BY <2>2, <2>4, <2>5 DEF Inv
<1> QED
  BY <1>3, <1>4 DEF ParentReads

LEMMA ReadFailsKeeps ==
  ASSUME Inv, ReadFails
  PROVE  Inv'
<1>1. PICK R : Typed(R)
  BY DEF Inv
<1>2. /\ at = "read" /\ at' = "err" /\ UNCHANGED <<open, spec, ps, k, ptab, ret>>
  BY DEF ReadFails, parentVars
<1>3. Typed(R)'
  BY <1>1, <1>2 DEF Typed
<1>4. Apart'
  BY <1>2 DEF Inv, Apart, Held, InFlight, Old
<1>5. Stages'
  BY <1>2 DEF Inv, Stages, Fresh
<1> QED
  BY <1>3, <1>4, <1>5 DEF Inv

\* ps_spec_cleanup, with the numbers of retpipe before ps_launch returns.
LEMMA CleanupKeeps ==
  ASSUME Inv, NEW more, ps_spec_cleanup(more), UNCHANGED <<open, spec, k, ret>>,
         at' \in {"failed", "over"},
         IF InFlight THEN more = Range(ret) ELSE more = {}
  PROVE  Inv'
<1>1. PICK R : Typed(R)
  BY DEF Inv
<1> DEFINE S == more \cup UNION { cleanup(ps[e]) : e \in DOMAIN ps }
<1>2. ptab' = closed(ptab, S) /\ ps' = << >> /\ open' = open
  BY DEF ps_spec_cleanup
<1>3. Range(ret) = {ret[1], ret[2]}
  <2>1. DOMAIN ret = {1, 2}
    BY <1>1 DEF Typed
  <2> QED
    BY <2>1 DEF Range
<1>4. \A n : ~Held(n)' /\ (n \in S <=> Held(n))
  BY <1>2, <1>3 DEF Held, InFlight
<1> HIDE DEF S
<1>5. Apart'
  BY <1>1, <1>2, <1>4, CloseKeeps DEF Inv
<1>6. Typed(R)'
  BY <1>1, <1>2, ClosedTable DEF Typed
<1>7. Stages'
  BY <1>2 DEF Inv, Stages, Fresh
<1> QED
  BY <1>5, <1>6, <1>7 DEF Inv

LEMMA CloseioKeeps ==
  ASSUME Inv, NEW e, ps_closeio(e)
  PROVE  Inv'
<1>1. PICK R : Typed(R)
  BY DEF Inv
<1>2. /\ at \in {"launched", "finished"} /\ at' = at /\ open' = open /\ spec' = spec
      /\ k' = k /\ ret' = ret /\ ptab' = closed(ptab, {ps[e].locfd})
      /\ e \in DOMAIN ps /\ ps \in Seq(Entry(R)) /\ ps[e] \in Entry(R)
  BY <1>1 DEF ps_closeio, After, Typed
<1> DEFINE x == [ps[e] EXCEPT !.locfd = -1, !.file = FALSE]
<1>3. ps' = [ps EXCEPT ![e] = x]
  BY DEF ps_closeio
<1>4. x \in Entry(R) /\ x.locfd = -1 /\ x.type = ps[e].type /\ x.pipefd = ps[e].pipefd
  <2> DEFINE y == [ps[e] EXCEPT !.locfd = -1]
  <2>1. y \in Entry(R) /\ y.locfd = -1 /\ y.type = ps[e].type /\ y.pipefd = ps[e].pipefd
    <3>1. ps[e] \in Entry(R)
      BY <1>2
    <3> QED
      BY <3>1 DEF Entry
  <2>2. x = [y EXCEPT !.file = FALSE]
    OBVIOUS
  <2> HIDE DEF x, y
  <2> QED
    BY <2>1, <2>2 DEF Entry
<1> HIDE DEF x
<1>5. /\ ps' \in Seq(Entry(R)) /\ DOMAIN ps' = DOMAIN ps /\ ps'[e] = x
      /\ \A f \in DOMAIN ps : f # e => ps'[f] = ps[f]
  BY <1>2, <1>3, <1>4, ExceptSeq
<1>6. Typed(R)'
  <2>1. ptab' \in [Fds -> Desc]
    BY <1>1, <1>2, ClosedTable DEF Typed
  <2> QED
    BY <1>1, <1>2, <1>5, <2>1 DEF Typed
<1>7. ASSUME NEW n \in Fds
      PROVE  /\ n \in {ps[e].locfd} \/ Held(n)' => Held(n)
             /\ Held(n) => Held(n)' \/ n \in {ps[e].locfd}
  <2>1. n # -1
    BY FdsAreNumbers
  <2>2. /\ n \in cleanup(ps[e]) <=> n = ps[e].locfd \/ (ps[e].type # "remap" /\ n = ps[e].pipefd)
        /\ n \in cleanup(x) <=> n = x.locfd \/ (x.type # "remap" /\ n = x.pipefd)
    BY <1>2, <1>4, CleanupOf
  <2> QED
    BY <1>2, <1>4, <1>5, <2>1, <2>2 DEF Held, InFlight
<1>8. Apart'
  BY <1>1, <1>2, <1>7, CloseKeeps DEF Inv
<1>9. Stages'
  BY <1>2 DEF Inv, Stages, Fresh
<1> QED
  BY <1>6, <1>8, <1>9 DEF Inv

LEMMA RunningKeeps ==
  ASSUME Inv, ps_running
  PROVE  Inv'
<1>1. PICK R : Typed(R)
  BY DEF Inv
<1>2. /\ at = "launched" /\ at' \in {"finished", "aborted"} /\ open' = open /\ spec' = spec
      /\ ps' = ps /\ k' = k /\ ptab' = ptab /\ ret' = ret
  BY DEF ps_running, After
<1>3. Typed(R)'
  BY <1>1, <1>2 DEF Typed
<1>4. Apart'
  BY <1>2 DEF Inv, Apart, Held, InFlight, Old
<1>5. Stages'
  BY <1>2 DEF Inv, Stages, Fresh
<1> QED
  BY <1>3, <1>4, <1>5 DEF Inv

LEMMA StepKeeps == Inv /\ [Next]_vars => Inv'
<1> SUFFICES ASSUME Inv, [Next]_vars PROVE Inv'
  OBVIOUS
<1>1. CASE Child \/ ProgramExits
  <2>1. UNCHANGED <<open, spec, at, parentVars>>
    BY <1>1 DEF Child, OpenFile, CloseOthers, SetUpFd, NextEntry, Execve, ChildExits,
                ProgramExits
  <2> QED
    BY <2>1, OthersKeep
<1>2. CASE UNCHANGED vars
  BY <1>2, OthersKeep DEF vars
<1>3. CASE LaunchFails
  BY <1>3, CleanupKeeps DEF LaunchFails, InFlight
<1>4. ASSUME NEW wait \in BOOLEAN, ps_cleanup(wait) PROVE Inv'
  BY <1>4, CleanupKeeps DEF ps_cleanup, After, InFlight
<1>5. CASE Parent
  BY <1>3, <1>5, CreateKeeps, PipesCreatedKeeps, OpenStdioKeeps, ForkKeeps,
     ParentClosesKeeps, ParentReadsKeeps DEF Parent
<1> QED
  BY <1>1, <1>2, <1>4, <1>5, BuildKeeps, LaunchKeeps, ReadFailsKeeps, CloseioKeeps,
     RunningKeeps DEF Next

\* What the launch has and what the client had stay apart.
THEOREM Separation == Spec => []Inv
BY InitEstablishes, StepKeeps, PTL DEF Spec

\* A failed ps_launch, and ps_cleanup, leave the client the descriptors it had before.
THEOREM NothingLeaks == Spec => []NoLeak
<1>1. Inv => NoLeak
  <2> SUFFICES ASSUME Inv, at \in {"failed", "over"} PROVE ptab = Old
    BY DEF NoLeak
  <2>1. ps = << >> /\ ~InFlight
    BY DEF Inv, Stages, InFlight
  <2>2. \A n \in Fds : ptab[n] = Old[n]
    BY <2>1 DEF Inv, Apart, Held
  <2>3. PICK R : Typed(R)
    BY DEF Inv
  <2> QED
    BY <2>2, <2>3 DEF Typed, Old
<1> QED
  BY <1>1, Separation, PTL

-----------------------------------------------------------------------------
(* What the child is given.                                                  *)

\* The description that an entry stands for.
wanted(e) == IF spec[e].type = "remap" THEN << "old", spec[e].pipefd >> ELSE << "remote", e >>

\* Entries of the client's specification, as a process has copied them.
Copy(q) ==
  /\ DOMAIN q = DOMAIN spec
  /\ \A e \in DOMAIN q : q[e].type = spec[e].type /\ q[e].remfds = spec[e].remfds /\ ~q[e].path

\* create_pipes has come to entry e, a pipe.
Made(e) == ps[e].type \notin {"remap", "file"} /\ (at = "stdio" \/ e < k)

\* The parent has the pipes made up to now, and the one that tells.
Prepared ==
  at \in {"pipes", "stdio"} =>
    /\ spec_ok(spec) /\ Copy(ps)
    /\ ret[1] \in Fds /\ ret[2] \in Fds /\ ptab[ret[1]] = RetR /\ ptab[ret[2]] = RetW
    /\ \A e \in DOMAIN ps :
         /\ Made(e) => /\ ps[e].pipefd \in Fds /\ ptab[ps[e].pipefd] = << "remote", e >>
                       /\ ps[e].locfd \in Fds /\ ptab[ps[e].locfd] = << "local", e >>
         /\ ~Made(e) => ps[e].locfd = -1 /\ ps[e].pipefd = spec[e].pipefd

\* The child's entry e has the description it stands for.
Has(e) == cps[e].pipefd \in Fds /\ ctab[cps[e].pipefd] = wanted(e)

\* The child can tell the parent.
Tells == cret \in Fds /\ ctab[cret] = RetW

ChildTyped ==
  cat \in {"files", "map"} =>
    /\ \E R : cps \in Seq(Entry(R))
    /\ ctab \in [Fds -> Desc] /\ i \in Nat \ {0} /\ j \in Nat \ {0}
    /\ spec_ok(spec) /\ Copy(cps)

\* Before the moves each entry has the description it stands for, but a file is to be opened.
Inherited ==
  cat = "files" =>
    /\ Tells /\ j = 1
    /\ \A e \in DOMAIN cps :
         /\ cps[e].type = "file" => e >= i
         /\ cps[e].type # "file" => Has(e)
         /\ cps[e].locfd = -1 \/ (cps[e].locfd \in Fds /\ ctab[cps[e].locfd] = << "local", e >>)

\* Target t of entry e has been set up, and has number fd.
Placed(e, fd) ==
  \E t \in DOMAIN cps[e].remfds : cps[e].remfds[t] = fd /\ (e < i \/ (e = i /\ t < j))

\* The targets behind have what they are to have.
Settled == \A e \in DOMAIN cps, fd \in Fds : Placed(e, fd) => ctab[fd] = wanted(e)

\* The entries to come have theirs, each where only its own target can have been placed.
Pending ==
  \A e \in DOMAIN cps : e >= i =>
    /\ Has(e)
    /\ \A f \in DOMAIN cps : Placed(f, cps[e].pipefd) => cps[f].pipefd = cps[e].pipefd

\* An entry that is done has given its number up, or one of its targets is there.
Done == \A e \in DOMAIN cps : e < i => cps[e].pipefd = -1 \/ Placed(e, cps[e].pipefd)

\* Nothing else is open.
NoOther ==
  \A n \in Fds : ctab[n] # Closed =>
    n = cret \/ \E e \in DOMAIN cps : Placed(e, n) \/ (e >= i /\ cps[e].pipefd = n)

\* set_up_fds keeps the number of the entry it is at exactly if that is one of its targets.
Keeps == i \in DOMAIN cps => (nomap = TRUE <=> Placed(i, cps[i].pipefd))

Moving ==
  cat = "map" =>
    /\ Tells /\ cret \in pipefds /\ cloexec = {cret}
    /\ \A e \in DOMAIN cps : cps[e].type # "file"
    /\ Settled /\ Pending /\ Done /\ NoOther /\ Keeps

Failing == cat = "err" => Tells

ChildSide ==
  /\ cat \in {"none", "files"} => nomap = FALSE
  /\ ~spoiled => ChildTyped /\ Inherited /\ Moving /\ Failing
  /\ AsAsked

\* Who is where.
Phases ==
  /\ cat \in {"none", "files", "map", "err", "program", "exited", "killed", "died"}
  /\ at \in {"build", "pipes", "stdio"} => cat = "none"
  /\ at \in {"parent", "read", "launched", "finished", "over", "aborted"} => cat # "none"
  /\ at \in {"err", "failed"} => cat \in {"none", "died"} \/ "read" \in broken
  /\ told => cat = "died"
  /\ cat = "died" /\ ~spoiled => told \/ "write" \in broken
  /\ LaunchTrue

-----------------------------------------------------------------------------
(* The parent's side.                                                        *)

\* What the two ends of a pipe are.
LEMMA PipeEnds ==
  ASSUME NEW tab \in [Fds -> Desc], PipeFits(tab), NEW r \in Open, NEW w \in Open
  PROVE  pipe(tab, r, w)[pipe_fds(tab)[1]] = r /\ pipe(tab, r, w)[pipe_fds(tab)[2]] = w
<1>1. /\ pipe_fds(tab)[1] \in Fds /\ pipe_fds(tab)[2] \in Fds
      /\ tab[pipe_fds(tab)[1]] = Closed /\ tab[pipe_fds(tab)[2]] = Closed
  BY PipeTakesFree
<1>2. unused(tab) # {}
  BY <1>1 DEF unused
<1>3. RetR \in Open
  BY DEF RetR, Open
<1>4. /\ opened(tab, r) \in [Fds -> Desc] /\ lowest(tab) \in Fds
      /\ unused(opened(tab, r)) = unused(tab) \ {lowest(tab)}
      /\ unused(opened(tab, RetR)) = unused(tab) \ {lowest(tab)}
  BY <1>2, <1>3, OpenedTable
<1>5. lowest(opened(tab, RetR)) = lowest(opened(tab, r))
  BY <1>4 DEF lowest
<1>6. pipe_fds(tab)[1] = lowest(tab) /\ pipe_fds(tab)[2] = lowest(opened(tab, r))
  BY <1>5 DEF pipe_fds
<1>7. opened(tab, r)[lowest(tab)] = r
  BY <1>4 DEF opened
<1>8. r # Closed
  <2>1. PICK s, v : r = << s, v >>
    BY DEF Open
  <2> QED
    BY <2>1 DEF Closed
<1>9. unused(opened(tab, r)) # {}
  <2>1. unused(tab) \in SUBSET Fds
    BY DEF unused
  <2>2. IsFiniteSet(unused(tab)) /\ Cardinality(unused(tab)) >= 2
    BY <2>1, FdsAreNumbers, FS_Subset DEF PipeFits
  <2>3. Cardinality(unused(tab) \ {lowest(tab)}) = Cardinality(unused(tab)) - 1
    BY <1>2, <2>2, LowestIsUnused, FS_RemoveElement
  <2>4. Cardinality(unused(tab)) \in Nat
    BY <2>2, FS_CardinalityType
  <2>5. unused(tab) \ {lowest(tab)} # {}
    BY <2>2, <2>3, <2>4, FS_EmptySet
  <2> QED
    BY <1>4, <2>5
<1>10. /\ lowest(opened(tab, r)) \in Fds /\ opened(tab, r)[lowest(opened(tab, r))] = Closed
       /\ \A n \in Fds : n # lowest(opened(tab, r)) =>
            opened(opened(tab, r), w)[n] = opened(tab, r)[n]
  BY <1>4, <1>9, OpenedTable
<1>11. lowest(tab) # lowest(opened(tab, r))
  BY <1>7, <1>8, <1>10
<1>12. opened(opened(tab, r), w)[lowest(opened(tab, r))] = w
  BY <1>4, <1>10 DEF opened
<1> QED
  BY <1>4, <1>6, <1>7, <1>10, <1>11, <1>12 DEF pipe

\* What is said of the parent depends on its own state only.
LEMMA ParentFrame ==
  ASSUME Prepared, UNCHANGED <<open, spec, at, parentVars>>
  PROVE  Prepared'
BY DEF parentVars, Prepared, Copy, Made, spec_ok, AllTargets

\* Each target of a specification that is in order is the target of one entry.
LEMMA OneTarget ==
  ASSUME spec_ok(spec), NEW e \in DOMAIN spec, NEW f \in DOMAIN spec,
         NEW t \in DOMAIN spec[e].remfds, NEW u \in DOMAIN spec[f].remfds,
         spec[e].remfds[t] = spec[f].remfds[u]
  PROVE  e = f /\ t = u
<1>1. << e, t >> \in AllTargets(spec) /\ << f, u >> \in AllTargets(spec)
  BY DEF AllTargets
<1>2. << e, t >> = << f, u >>
  BY <1>1 DEF spec_ok
<1> QED
  BY <1>2

\* Targets are descriptors.
LEMMA TargetsAreFds ==
  ASSUME spec_ok(spec), NEW e \in DOMAIN spec
  PROVE  /\ Len(spec[e].remfds) \in Nat /\ DOMAIN spec[e].remfds = 1 .. Len(spec[e].remfds)
         /\ \A t \in DOMAIN spec[e].remfds : spec[e].remfds[t] \in Fds
<1>1. spec[e].remfds \in Seq(Fds)
  BY DEF spec_ok
<1> QED
  BY <1>1

\* Descriptions of different things differ.
LEMMA Descriptions ==
  /\ \A d \in Open : d # Closed
  /\ RetR \in Open /\ RetW \in Open /\ RetR # RetW
  /\ \A e : /\ wanted(e) # RetR /\ wanted(e) # RetW /\ wanted(e) # Closed
            /\ \A f : wanted(e) # << "local", f >>
  /\ \A e : << "local", e >> # RetR /\ << "local", e >> # RetW /\ << "local", e >> # Closed
  /\ \A e : << "remote", e >> # RetR /\ << "remote", e >> # RetW /\ << "remote", e >> # Closed
<1>1. \A d \in Open : d # Closed
  <2>1. \A d \in Open : \E s, v : d = << s, v >>
    BY DEF Open
  <2> QED
    BY <2>1 DEF Closed
<1>2. RetR \in Open /\ RetW \in Open /\ RetR # RetW
  BY DEF RetR, RetW, Open
<1>3. ASSUME NEW e
      PROVE  /\ wanted(e) # RetR /\ wanted(e) # RetW /\ wanted(e) # Closed
             /\ \A f : wanted(e) # << "local", f >>
  BY DEF wanted, RetR, RetW, Closed
<1>4. ASSUME NEW e
      PROVE  /\ << "local", e >> # RetR /\ << "local", e >> # RetW /\ << "local", e >> # Closed
             /\ << "remote", e >> # RetR /\ << "remote", e >> # RetW /\ << "remote", e >> # Closed
  BY DEF RetR, RetW, Closed
<1> QED
  BY <1>1, <1>2, <1>3, <1>4

LEMMA LaunchPrepares ==
  ASSUME Inv, Launch
  PROVE  Prepared'
<1>1. PICK R : Typed(R)
  BY DEF Inv
<1> SUFFICES ASSUME at' # "failed" PROVE Prepared'
  BY DEF Prepared
<1>2. /\ spec_ok(spec) /\ PipeFits(ptab) /\ at' = "pipes" /\ ps' = ps_spec_copy(spec) /\ k' = 1
      /\ ptab' = pipe(ptab, RetR, RetW) /\ ret' = pipe_fds(ptab)
      /\ open' = open /\ spec' = spec
  BY DEF Launch
<1>3. ptab \in [Fds -> Desc] /\ spec \in Seq(Entry(R)) /\ \A e \in DOMAIN spec : Fresh(spec[e])
  BY <1>1 DEF Typed, Inv, Stages
<1>4. /\ ret'[1] \in Fds /\ ret'[2] \in Fds /\ ptab'[ret'[1]] = RetR /\ ptab'[ret'[2]] = RetW
  BY <1>2, <1>3, Descriptions, PipeTakesFree, PipeEnds
<1>5. DOMAIN ps' = DOMAIN spec /\ \A e \in DOMAIN spec : ps'[e] = [spec[e] EXCEPT !.path = FALSE]
  BY <1>2 DEF ps_spec_copy
<1>6. ASSUME NEW e \in DOMAIN spec
      PROVE  /\ ps'[e].type = spec[e].type /\ ps'[e].remfds = spec[e].remfds /\ ~ps'[e].path
             /\ ps'[e].locfd = -1 /\ ps'[e].pipefd = spec[e].pipefd
  <2>1. spec[e] \in Entry(R) /\ Fresh(spec[e])
    BY <1>3
  <2> QED
    BY <1>5, <2>1 DEF Entry, Fresh
<1>7. \A e \in DOMAIN spec : ~Made(e)'
  <2>1. \A e \in DOMAIN spec : ~(e < 1)
    BY <1>3
  <2> QED
    BY <1>2, <2>1 DEF Made
<1>8. Copy(ps)'
  BY <1>2, <1>5, <1>6 DEF Copy
<1>9. spec_ok(spec)'
  BY <1>2 DEF spec_ok, AllTargets
<1> QED
  BY <1>2, <1>4, <1>5, <1>6, <1>7, <1>8, <1>9 DEF Prepared

LEMMA CreatePrepares ==
  ASSUME Inv, Prepared, CreatePipe
  PROVE  Prepared'
<1>1. PICK R : Typed(R)
  BY DEF Inv
<1>2. /\ at = "pipes" /\ k \in 1 .. Len(ps) /\ open' = open /\ spec' = spec
      /\ ps \in Seq(Entry(R)) /\ ps[k] \in Entry(R) /\ k \in DOMAIN ps
      /\ DOMAIN ps \subseteq Nat /\ k \in Nat
  BY <1>1 DEF CreatePipe, Typed
<1>3. /\ spec_ok(spec) /\ Copy(ps)
      /\ ret[1] \in Fds /\ ret[2] \in Fds /\ ptab[ret[1]] = RetR /\ ptab[ret[2]] = RetW
      /\ \A e \in DOMAIN ps :
           /\ Made(e) => /\ ps[e].pipefd \in Fds /\ ptab[ps[e].pipefd] = << "remote", e >>
                         /\ ps[e].locfd \in Fds /\ ptab[ps[e].locfd] = << "local", e >>
           /\ ~Made(e) => ps[e].locfd = -1 /\ ps[e].pipefd = spec[e].pipefd
  BY <1>2 DEF Prepared
<1>4. spec_ok(spec)'
  BY <1>2, <1>3 DEF spec_ok, AllTargets
<1>5. CASE Fail
  BY <1>5 DEF Fail, Prepared
<1>6. CASE ps[k].type \in {"remap", "file"}
  <2>1. k' = k + 1 /\ at' = at /\ ps' = ps /\ ptab' = ptab /\ ret' = ret
    BY <1>6 DEF CreatePipe
  <2>2. \A e \in DOMAIN ps : Made(e)' <=> Made(e)
    BY <1>2, <1>6, <2>1 DEF Made
  <2>3. Copy(ps)'
    BY <1>2, <1>3, <2>1 DEF Copy
  <2> QED
    BY <1>2, <1>3, <1>4, <2>1, <2>2, <2>3 DEF Prepared
<1>7. CASE ~Fail /\ ps[k].type \notin {"remap", "file"}
  <2> DEFINE f    == pipe_fds(ptab)
             down == ps[k].type = "in"
             r    == << IF down THEN "remote" ELSE "local", k >>
             w    == << IF down THEN "local" ELSE "remote", k >>
             p    == IF down THEN f[1] ELSE f[2]
             l    == IF down THEN f[2] ELSE f[1]
             x    == [ps[k] EXCEPT !.pipefd = p, !.locfd = l]
  <2>1. /\ PipeFits(ptab) /\ ptab' = pipe(ptab, r, w) /\ k' = k + 1 /\ at' = at /\ ret' = ret
        /\ ps' = [ps EXCEPT ![k] = x]
    BY <1>7 DEF CreatePipe
  <2>2. r \in Open /\ w \in Open /\ ptab \in [Fds -> Desc]
    BY <1>1 DEF Open, Typed
  <2> HIDE DEF f
  <2>3. /\ f[1] \in Fds /\ f[2] \in Fds /\ ptab[f[1]] = Closed /\ ptab[f[2]] = Closed
        /\ \A n \in Fds : n # f[1] /\ n # f[2] => ptab'[n] = ptab[n]
        /\ ptab'[f[1]] = r /\ ptab'[f[2]] = w
    <3> HIDE DEF r, w
    <3> QED
      BY <2>1, <2>2, PipeTakesFree, PipeEnds DEF f
  <2>4. /\ p \in Fds /\ ptab'[p] = << "remote", k >>
        /\ l \in Fds /\ ptab'[l] = << "local", k >>
    <3>1. CASE down
      BY <2>3, <3>1
    <3>2. CASE ~down
      BY <2>3, <3>2
    <3> QED
      BY <3>1, <3>2
  <2>5. \A n \in Fds : ptab[n] # Closed => ptab'[n] = ptab[n]
    BY <2>3
  <2> HIDE DEF r, w, p, l, down
  <2>6. /\ x.pipefd = p /\ x.locfd = l /\ x.type = ps[k].type /\ x.remfds = ps[k].remfds
        /\ x.path = ps[k].path
    BY <1>2 DEF Entry
  <2> HIDE DEF x
  <2>7. DOMAIN ps' = DOMAIN ps /\ ps'[k] = x /\ \A e \in DOMAIN ps : e # k => ps'[e] = ps[e]
    BY <1>2, <2>1
  <2>8. Copy(ps)'
    BY <1>2, <1>3, <2>6, <2>7 DEF Copy
  <2>9. \A e \in DOMAIN ps : Made(e)' <=> Made(e) \/ e = k
    BY <1>2, <1>7, <2>1, <2>6, <2>7 DEF Made
  <2>10. ret'[1] \in Fds /\ ret'[2] \in Fds /\ ptab'[ret'[1]] = RetR /\ ptab'[ret'[2]] = RetW
    BY <1>3, <2>1, <2>5, Descriptions
  <2>11. ASSUME NEW e \in DOMAIN ps
         PROVE  /\ Made(e)' => /\ ps'[e].pipefd \in Fds /\ ptab'[ps'[e].pipefd] = << "remote", e >>
                               /\ ps'[e].locfd \in Fds /\ ptab'[ps'[e].locfd] = << "local", e >>
                /\ ~Made(e)' => ps'[e].locfd = -1 /\ ps'[e].pipefd = spec'[e].pipefd
    <3>1. CASE e = k
      BY <2>4, <2>6, <2>7, <2>9, <3>1
    <3>2. CASE e # k
      <4>1. ps'[e] = ps[e] /\ (Made(e)' <=> Made(e))
        BY <2>7, <2>9, <3>2
      <4>2. ASSUME Made(e)
            PROVE  /\ ps[e].pipefd \in Fds /\ ptab'[ps[e].pipefd] = << "remote", e >>
                   /\ ps[e].locfd \in Fds /\ ptab'[ps[e].locfd] = << "local", e >>
        <5>1. /\ ps[e].pipefd \in Fds /\ ptab[ps[e].pipefd] = << "remote", e >>
              /\ ps[e].locfd \in Fds /\ ptab[ps[e].locfd] = << "local", e >>
          BY <1>3, <4>2
        <5>2. << "remote", e >> # Closed /\ << "local", e >> # Closed
          BY Descriptions
        <5> QED
          BY <2>5, <5>1, <5>2
      <4> QED
        BY <1>2, <1>3, <4>1, <4>2
    <3> QED
      BY <3>1, <3>2
  <2> QED
    BY <1>2, <1>4, <2>1, <2>7, <2>8, <2>10, <2>11 DEF Prepared
<1> QED
  BY <1>5, <1>6, <1>7

LEMMA CreatedPrepares ==
  ASSUME Inv, Prepared, PipesCreated
  PROVE  Prepared'
<1>1. PICK R : Typed(R)
  BY DEF Inv
<1>2. /\ at = "pipes" /\ k > Len(ps) /\ at' = "stdio" /\ spec' = spec /\ ps' = ps /\ ptab' = ptab
      /\ ret' = ret /\ open' = open /\ ps \in Seq(Entry(R)) /\ k \in Nat
  BY <1>1 DEF PipesCreated, Typed
<1>3. \A e \in DOMAIN ps : Made(e)' <=> Made(e)
  BY <1>2 DEF Made
<1>4. spec_ok(spec)' /\ Copy(ps)'
  BY <1>2 DEF Prepared, spec_ok, AllTargets, Copy
<1> QED
  BY <1>2, <1>3, <1>4 DEF Prepared

LEMMA StdioPrepares ==
  ASSUME Inv, Prepared, OpenStdio
  PROVE  Prepared'
<1>1. PICK R : Typed(R)
  BY DEF Inv
<1>2. /\ at = "stdio" /\ k \in 1 .. Len(ps) /\ open' = open /\ spec' = spec
      /\ ps \in Seq(Entry(R)) /\ ps[k] \in Entry(R) /\ k \in DOMAIN ps
  BY <1>1 DEF OpenStdio, Typed
<1>3. CASE Fail
  BY <1>3 DEF Fail, Prepared
<1>4. CASE ps' = [ps EXCEPT ![k].file = ps[k].stdio] /\ UNCHANGED <<at, ptab, ret>>
  <2> DEFINE x == [ps[k] EXCEPT !.file = ps[k].stdio]
  <2>1. /\ x.pipefd = ps[k].pipefd /\ x.locfd = ps[k].locfd /\ x.type = ps[k].type
        /\ x.remfds = ps[k].remfds /\ x.path = ps[k].path
    BY <1>2 DEF Entry
  <2>2. ps' = [ps EXCEPT ![k] = x]
    BY <1>4
  <2> HIDE DEF x
  <2>3. DOMAIN ps' = DOMAIN ps /\ ps'[k] = x /\ \A e \in DOMAIN ps : e # k => ps'[e] = ps[e]
    BY <1>2, <2>2
  <2>4. \A e \in DOMAIN ps : /\ ps'[e].pipefd = ps[e].pipefd /\ ps'[e].locfd = ps[e].locfd
                             /\ ps'[e].type = ps[e].type /\ ps'[e].remfds = ps[e].remfds
                             /\ ps'[e].path = ps[e].path
    BY <2>1, <2>3
  <2>5. \A e \in DOMAIN ps : Made(e)' <=> Made(e)
    BY <1>2, <1>4, <2>4 DEF Made
  <2>6. spec_ok(spec)' /\ Copy(ps)'
    BY <1>2, <2>3, <2>4 DEF Prepared, spec_ok, AllTargets, Copy
  <2>7. \A e \in DOMAIN ps :
          /\ Made(e) => /\ ps[e].pipefd \in Fds /\ ptab[ps[e].pipefd] = << "remote", e >>
                        /\ ps[e].locfd \in Fds /\ ptab[ps[e].locfd] = << "local", e >>
          /\ ~Made(e) => ps[e].locfd = -1 /\ ps[e].pipefd = spec[e].pipefd
    BY <1>2 DEF Prepared
  <2>8. ret[1] \in Fds /\ ret[2] \in Fds /\ ptab[ret[1]] = RetR /\ ptab[ret[2]] = RetW
    BY <1>2 DEF Prepared
  <2>9. at' = at /\ ptab' = ptab /\ ret' = ret /\ spec' = spec
    BY <1>2, <1>4
  <2>10. ASSUME NEW e \in DOMAIN ps
         PROVE  /\ Made(e)' => /\ ps'[e].pipefd \in Fds /\ ptab'[ps'[e].pipefd] = << "remote", e >>
                               /\ ps'[e].locfd \in Fds /\ ptab'[ps'[e].locfd] = << "local", e >>
                /\ ~Made(e)' => ps'[e].locfd = -1 /\ ps'[e].pipefd = spec'[e].pipefd
    BY <2>4, <2>5, <2>7, <2>9
  <2> QED
    BY <2>3, <2>6, <2>8, <2>9, <2>10 DEF Prepared
<1> QED
  BY <1>3, <1>4 DEF OpenStdio

\* Before and after create_pipes and open_stdio_files there is nothing to say.
LEMMA NothingPrepared ==
  ASSUME at' \notin {"pipes", "stdio"}
  PROVE  Prepared'
BY DEF Prepared

LEMMA StepPrepares == Inv /\ Prepared /\ [Next]_vars => Prepared'
<1> SUFFICES ASSUME Inv, Prepared, [Next]_vars PROVE Prepared'
  OBVIOUS
<1>1. CASE Child \/ ProgramExits \/ UNCHANGED vars
  <2>1. UNCHANGED <<open, spec, at, parentVars>>
    BY <1>1 DEF Child, OpenFile, CloseOthers, SetUpFd, NextEntry, Execve, ChildExits,
                ProgramExits, vars
  <2> QED
    BY <2>1, ParentFrame
<1>2. CASE Build
  <2>1. at' = "build"
    BY <1>2 DEF Build, ps_spec_add_pipe, ps_spec_add_fsrdr, ps_spec_add_remap, ps_spec_keepfd,
                newfde, ps_spec_del_fde, ps_fde_addfd, ps_fde_delfd, Building
  <2> QED
    BY <2>1, NothingPrepared
<1>3. CASE Fork \/ ParentCloses \/ ParentReads \/ ReadFails \/ LaunchFails
  <2>1. at' \in {"parent", "err", "read", "launched", "failed"}
    BY <1>3 DEF Fork, Fail, ParentCloses, ParentReads, ReadFails, LaunchFails
  <2> QED
    BY <2>1, NothingPrepared
<1>4. CASE \/ \E e \in 1 .. MaxEntries : ps_closeio(e)
           \/ ps_running \/ \E wait \in BOOLEAN : ps_cleanup(wait)
  <2>1. at' \in {"launched", "finished", "over", "aborted"}
    BY <1>4 DEF ps_closeio, ps_running, ps_cleanup
  <2> QED
    BY <2>1, NothingPrepared
<1> QED
  BY <1>1, <1>2, <1>3, <1>4, LaunchPrepares, CreatePrepares, CreatedPrepares,
     StdioPrepares DEF Next, Parent

-----------------------------------------------------------------------------
(* The child's side.                                                         *)

LEMMA SpoiledStays == [Next]_vars /\ spoiled => spoiled'
BY DEF Next, vars, Build, ps_spec_add_pipe, ps_spec_add_fsrdr, ps_spec_add_remap,
       ps_spec_keepfd, newfde, ps_spec_del_fde, ps_fde_addfd, ps_fde_delfd, Building, Launch,
       Parent, CreatePipe, PipesCreated, OpenStdio, Fork, ParentCloses, ParentReads,
       ReadFails, LaunchFails, Child, OpenFile, CloseOthers, SetUpFd, NextEntry, Execve, ChildExits,
       ProgramExits, ps_closeio, After, ps_running, ps_cleanup, childVars

\* As long as the child is to move descriptors it can tell the parent.
LEMMA CanTell ==
  ASSUME ChildSide, ~spoiled, cat \in {"files", "map", "err"}
  PROVE  Tells
BY DEF ChildSide, Inherited, Moving, Failing

LEMMA ChildFrame ==
  ASSUME ChildSide, spec' = spec, UNCHANGED childVars
  PROVE  ChildSide'
<1>1. /\ cat' = cat /\ cps' = cps /\ i' = i /\ j' = j /\ nomap' = nomap /\ ctab' = ctab
      /\ cret' = cret /\ cloexec' = cloexec /\ pipefds' = pipefds /\ spoiled' = spoiled
  BY DEF childVars
<1>2. ChildTyped => ChildTyped'
  <2>1. spec_ok(spec) => spec_ok(spec)'
    BY DEF spec_ok, AllTargets
  <2>2. Copy(cps) => Copy(cps)'
    BY <1>1 DEF Copy
  <2>3. (\E R : cps \in Seq(Entry(R))) => (\E R : cps' \in Seq(Entry(R)))
    BY <1>1
  <2> QED
    BY <1>1, <2>1, <2>2, <2>3 DEF ChildTyped
<1>3. Tells' = Tells /\ \A e : Has(e)' = Has(e)
  BY <1>1 DEF Tells, Has, wanted
<1>4. (Inherited => Inherited') /\ (Failing => Failing')
  BY <1>1, <1>3 DEF Inherited, Failing
<1>5. Moving => Moving'
  BY <1>1 DEF Moving, Settled, Pending, Done, NoOther, Keeps, Tells, Has, wanted, Placed
<1>6. AsAsked => AsAsked'
  BY <1>1 DEF AsAsked, asked
<1> QED
  BY <1>1, <1>2, <1>4, <1>5, <1>6 DEF ChildSide

\* Another number for one entry changes nothing else of a specification.
repiped(q, b, d) == [q EXCEPT ![b].pipefd = d]

LEMMA Repiped ==
  ASSUME NEW R, NEW q \in Seq(Entry(R)), Copy(q), NEW b \in DOMAIN q, NEW d \in Int
  PROVE  /\ repiped(q, b, d) \in Seq(Entry(R)) /\ Copy(repiped(q, b, d))
         /\ DOMAIN repiped(q, b, d) = DOMAIN q
         /\ repiped(q, b, d)[b].pipefd = d
         /\ \A e \in DOMAIN q : e # b => repiped(q, b, d)[e].pipefd = q[e].pipefd
<1> DEFINE x == [q[b] EXCEPT !.pipefd = d]
           z == repiped(q, b, d)
<1>1. q[b] \in Entry(R)
  OBVIOUS
<1>2. /\ x \in Entry(R) /\ x.pipefd = d /\ x.type = q[b].type /\ x.remfds = q[b].remfds
      /\ x.path = q[b].path
  BY <1>1 DEF Entry
<1>3. z = [q EXCEPT ![b] = x]
  BY DEF repiped
<1> HIDE DEF x
<1>4. /\ z \in Seq(Entry(R)) /\ DOMAIN z = DOMAIN q /\ z[b] = x
      /\ \A e \in DOMAIN q : e # b => z[e] = q[e]
  BY <1>2, <1>3, ExceptSeq
<1> HIDE DEF z
<1>5. Copy(z)
  BY <1>2, <1>4 DEF Copy
<1>6. z[b].pipefd = d /\ \A e \in DOMAIN q : e # b => z[e].pipefd = q[e].pipefd
  BY <1>2, <1>4
<1> QED
  BY <1>4, <1>5, <1>6 DEF z

\* The child starts with a copy of all that the parent has made.
LEMMA ForkInherits ==
  ASSUME Inv, Prepared, Phases, ChildSide, Fork
  PROVE  ChildSide'
<1>1. PICK R : Typed(R)
  BY DEF Inv
<1>2. CASE UNCHANGED childVars
  BY <1>2, ChildFrame DEF Fork
<1>3. CASE ~UNCHANGED childVars
  <2>1. /\ at = "stdio" /\ spec' = spec /\ nomap' = nomap
        /\ cat' = "files" /\ cps' = ps /\ i' = 1 /\ j' = 1
        /\ ctab' = closed(ptab, {ret[1]}) /\ cret' = ret[2]
    BY <1>3 DEF Fork
  <2>2. cat = "none" /\ nomap = FALSE
    BY <2>1 DEF Phases, ChildSide
  <2>3. /\ spec_ok(spec) /\ Copy(ps)
        /\ ret[1] \in Fds /\ ret[2] \in Fds /\ ptab[ret[1]] = RetR /\ ptab[ret[2]] = RetW
    BY <2>1 DEF Prepared
  <2>4. ps \in Seq(Entry(R)) /\ ptab \in [Fds -> Desc] /\ \A e \in DOMAIN spec : Fresh(spec[e])
    BY <1>1 DEF Typed, Inv, Stages
  <2>5. /\ ctab' \in [Fds -> Desc]
        /\ \A n \in Fds : ptab[n] # RetR => ctab'[n] = ptab[n]
    BY <2>1, <2>3, <2>4, ClosedTable
  <2>6. Tells'
    BY <2>1, <2>3, <2>5, Descriptions DEF Tells
  <2>7. \A e : wanted(e)' = wanted(e)
    BY <2>1 DEF wanted
  <2>8. ASSUME NEW e \in DOMAIN ps, ps[e].type # "file" PROVE Has(e)'
    <3>1. CASE ps[e].type = "remap"
      <4>1. spec[e].type = "remap" /\ e \in DOMAIN spec
        BY <2>3, <3>1 DEF Copy
      <4>2. ps[e].pipefd = spec[e].pipefd /\ spec[e].pipefd \in open
        <5>1. ~Made(e)
          BY <3>1 DEF Made
        <5> QED
          BY <2>1, <2>4, <4>1, <5>1 DEF Prepared, Fresh
      <4>3. spec[e].pipefd \in Fds
        BY <1>1, <4>2 DEF Typed
      <4>4. ptab[spec[e].pipefd] = << "old", spec[e].pipefd >>
        BY <4>2, <4>3 DEF Inv, Apart, Old
      <4>5. wanted(e) = << "old", spec[e].pipefd >>
        BY <4>1 DEF wanted
      <4> QED
        BY <2>1, <2>5, <2>7, <4>2, <4>3, <4>4, <4>5, Descriptions DEF Has
    <3>2. CASE ps[e].type # "remap"
      <4>1. Made(e)
        BY <2>1, <2>8, <3>2 DEF Made
      <4>2. ps[e].pipefd \in Fds /\ ptab[ps[e].pipefd] = << "remote", e >>
        BY <2>1, <4>1 DEF Prepared
      <4>3. wanted(e) = << "remote", e >>
        BY <2>3, <3>2 DEF Copy, wanted
      <4> QED
        BY <2>1, <2>5, <2>7, <4>2, <4>3, Descriptions DEF Has
    <3> QED
      BY <3>1, <3>2
  <2>9. ASSUME NEW e \in DOMAIN ps
        PROVE  ps[e].locfd = -1 \/ (ps[e].locfd \in Fds /\ ctab'[ps[e].locfd] = << "local", e >>)
    <3>1. CASE Made(e)
      <4>1. ps[e].locfd \in Fds /\ ptab[ps[e].locfd] = << "local", e >>
        BY <2>1, <3>1 DEF Prepared
      <4> QED
        BY <2>5, <4>1, Descriptions
    <3>2. CASE ~Made(e)
      BY <2>1, <3>2 DEF Prepared
    <3> QED
      BY <3>1, <3>2
  <2>10. Inherited'
    <3>1. \A e \in DOMAIN ps : e >= 1
      BY <2>4
    <3> QED
      BY <2>1, <2>6, <2>8, <2>9, <3>1 DEF Inherited
  <2>11. ChildTyped'
    <3>1. spec_ok(spec)' /\ Copy(cps)'
      BY <2>1, <2>3 DEF spec_ok, AllTargets, Copy
    <3>2. \E Q : cps' \in Seq(Entry(Q))
      BY <2>1, <2>4
    <3> QED
      BY <2>1, <2>5, <3>1, <3>2 DEF ChildTyped
  <2>12. Moving' /\ Failing' /\ AsAsked'
    BY <2>1 DEF Moving, Failing, AsAsked
  <2> QED
    BY <2>1, <2>2, <2>10, <2>11, <2>12 DEF ChildSide
<1> QED
  BY <1>2, <1>3

\* What a step of the child starts from.
LEMMA FilesFacts ==
  ASSUME ChildSide, ~spoiled, cat = "files"
  PROVE  /\ nomap = FALSE /\ j = 1 /\ i \in Nat \ {0} /\ ctab \in [Fds -> Desc]
         /\ spec_ok(spec) /\ Copy(cps) /\ Tells /\ \E R : cps \in Seq(Entry(R))
         /\ \A e \in DOMAIN cps : cps[e].type = "file" => e >= i
         /\ \A e \in DOMAIN cps : cps[e].type # "file" => Has(e)
         /\ \A e \in DOMAIN cps :
              cps[e].locfd = -1 \/ (cps[e].locfd \in Fds /\ ctab[cps[e].locfd] = << "local", e >>)
<1>1. ChildTyped /\ Inherited /\ nomap = FALSE
  BY DEF ChildSide
<1>2. /\ i \in Nat \ {0} /\ ctab \in [Fds -> Desc]
      /\ spec_ok(spec) /\ Copy(cps) /\ \E R : cps \in Seq(Entry(R))
  BY <1>1 DEF ChildTyped
<1> QED
  BY <1>1, <1>2 DEF Inherited

\* A child that has given up has only to tell so.
LEMMA GivesUp ==
  ASSUME ChildSide, cat \in {"files", "map"}, ChildFails,
         UNCHANGED <<spec, cret, spoiled>>
  PROVE  ChildSide'
<1>1. cat' = "err" /\ ctab' = ctab /\ cret' = cret /\ spoiled' = spoiled
  BY DEF ChildFails
<1>2. ~spoiled => Tells'
  BY <1>1, CanTell DEF Tells
<1>3. ~spoiled' => ChildTyped' /\ Inherited' /\ Moving' /\ Failing'
  BY <1>1, <1>2 DEF ChildTyped, Inherited, Moving, Failing
<1>4. AsAsked'
  BY <1>1 DEF AsAsked
<1> QED
  BY <1>1, <1>3, <1>4 DEF ChildSide

LEMMA OpenFileKeeps ==
  ASSUME ChildSide, OpenFile
  PROVE  ChildSide'
<1>1. /\ cat = "files" /\ i <= Len(cps) /\ spec' = spec /\ j' = j /\ nomap' = nomap
      /\ cret' = cret /\ spoiled' = spoiled
  BY DEF OpenFile
<1>2. CASE ChildFails
  BY <1>1, <1>2, GivesUp
<1>3. CASE ~ChildFails
  <2> SUFFICES ASSUME ~spoiled PROVE ChildSide'
    <3>1. cat' = "files"
      BY <1>1, <1>3 DEF OpenFile
    <3>2. nomap' = FALSE
      BY <1>1 DEF ChildSide
    <3>3. AsAsked'
      BY <3>1 DEF AsAsked
    <3> QED
      BY <1>1, <3>1, <3>2, <3>3 DEF ChildSide
  <2>1. /\ nomap = FALSE /\ j = 1 /\ i \in Nat \ {0} /\ ctab \in [Fds -> Desc]
        /\ spec_ok(spec) /\ Copy(cps) /\ Tells /\ \E R : cps \in Seq(Entry(R))
        /\ \A e \in DOMAIN cps : cps[e].type = "file" => e >= i
    BY <1>1, FilesFacts
  <2>2. i \in DOMAIN cps /\ DOMAIN cps \subseteq Nat
    BY <1>1, <2>1
  <2>3. ~cps[i].path
    BY <2>1, <2>2 DEF Copy
  <2>4. /\ cps[i].type # "file" /\ i' = i + 1
        /\ cat' = cat /\ cps' = cps /\ ctab' = ctab /\ cloexec' = cloexec
    BY <1>1, <1>3, <2>3 DEF OpenFile
  <2>5. \A e \in DOMAIN cps : cps[e].type = "file" => e >= i'
    <3>1. \A e \in DOMAIN cps : e # i /\ e >= i => e >= i + 1
      BY <2>1, <2>2
    <3> QED
      BY <2>1, <2>4, <3>1
  <2>6. \A e : Has(e)' = Has(e)
    BY <1>1, <2>4 DEF Has, wanted
  <2>7. Tells'
    BY <1>1, <2>1, <2>4 DEF Tells
  <2>8. Inherited'
    <3>1. \A e \in DOMAIN cps :
            /\ cps[e].type # "file" => Has(e)
            /\ cps[e].locfd = -1 \/ (cps[e].locfd \in Fds /\ ctab[cps[e].locfd] = << "local", e >>)
      BY <1>1, FilesFacts
    <3> QED
      BY <1>1, <2>1, <2>4, <2>5, <2>6, <2>7, <3>1 DEF Inherited
  <2>9. ChildTyped'
    <3>1. spec_ok(spec)' /\ Copy(cps)'
      BY <1>1, <2>1, <2>4 DEF spec_ok, AllTargets, Copy
    <3>2. \E R : cps' \in Seq(Entry(R))
      BY <2>1, <2>4
    <3>3. i' \in Nat \ {0} /\ j' \in Nat \ {0} /\ ctab' \in [Fds -> Desc]
      BY <1>1, <2>1, <2>4
    <3> QED
      BY <3>1, <3>2, <3>3 DEF ChildTyped
  <2>10. cat' = "files" /\ nomap' = FALSE
    BY <1>1, <2>1, <2>4
  <2>11. Moving' /\ Failing' /\ AsAsked'
    BY <2>10 DEF Moving, Failing, AsAsked
  <2> QED
    BY <2>8, <2>9, <2>10, <2>11 DEF ChildSide
<1> QED
  BY <1>2, <1>3

\* All that is open when the moves begin belongs to an entry, or tells.
LEMMA CloseOthersKeeps ==
  ASSUME ChildSide, CloseOthers
  PROVE  ChildSide'
<1>1. /\ cat = "files" /\ i > Len(cps) /\ spec' = spec /\ j' = j /\ nomap' = nomap
      /\ cret' = cret /\ spoiled' = spoiled
  BY DEF CloseOthers
<1>2. CASE ChildFails
  BY <1>1, <1>2, GivesUp
<1>3. CASE ~ChildFails
  <2> DEFINE S == (Fds \ pipefds') \cup { cps[e].locfd : e \in DOMAIN cps }
  <2>1. /\ cat' = "map" /\ i' = 1 /\ cloexec' = {cret} /\ cps' = cps
        /\ pipefds' = {cret} \cup { cps[e].pipefd : e \in DOMAIN cps }
        /\ ctab' = closed(ctab, S)
    BY <1>3 DEF CloseOthers
  <2>2. AsAsked'
    BY <2>1 DEF AsAsked
  <2> SUFFICES ASSUME ~spoiled PROVE ChildTyped' /\ Inherited' /\ Moving' /\ Failing'
    BY <1>1, <2>1, <2>2 DEF ChildSide
  <2>3. /\ nomap = FALSE /\ j = 1 /\ i \in Nat \ {0} /\ ctab \in [Fds -> Desc]
        /\ spec_ok(spec) /\ Copy(cps) /\ Tells /\ \E R : cps \in Seq(Entry(R))
        /\ \A e \in DOMAIN cps : cps[e].type = "file" => e >= i
        /\ \A e \in DOMAIN cps : cps[e].type # "file" => Has(e)
        /\ \A e \in DOMAIN cps :
             cps[e].locfd = -1 \/ (cps[e].locfd \in Fds /\ ctab[cps[e].locfd] = << "local", e >>)
    BY <1>1, FilesFacts
  <2>4. DOMAIN cps \subseteq Nat \ {0} /\ \A e \in DOMAIN cps : e < i
    BY <1>1, <2>3
  <2>5. \A e \in DOMAIN cps : cps[e].type # "file" /\ Has(e)
    <3>1. \A e \in DOMAIN cps : ~(e >= i)
      BY <2>3, <2>4
    <3> QED
      BY <2>3, <3>1
  <2>6. /\ ctab' \in [Fds -> Desc]
        /\ \A n \in Fds : ctab'[n] = IF n \in S THEN Closed ELSE ctab[n]
    BY <2>1, <2>3, ClosedTable
  <2>7. \A n \in Fds : n \in S <=> n \notin pipefds' \/ \E e \in DOMAIN cps : n = cps[e].locfd
    OBVIOUS
  <2> HIDE DEF S
  <2>8. -1 \notin Fds
    BY FdsAreNumbers
  <2>9. Tells'
    <3>1. cret \in Fds /\ ctab[cret] = RetW
      BY <2>3 DEF Tells
    <3>2. \A e \in DOMAIN cps : cret # cps[e].locfd
      BY <2>3, <2>8, <3>1, Descriptions
    <3>3. ctab'[cret] = RetW
      BY <2>1, <2>6, <2>7, <3>1, <3>2
    <3> QED
      BY <1>1, <3>1, <3>3 DEF Tells
  <2>10. \A e : wanted(e)' = wanted(e)
    BY <1>1 DEF wanted
  <2>11. ASSUME NEW e \in DOMAIN cps PROVE Has(e)'
    <3>1. cps[e].pipefd \in Fds /\ ctab[cps[e].pipefd] = wanted(e)
      BY <2>5 DEF Has
    <3>2. \A f \in DOMAIN cps : cps[e].pipefd # cps[f].locfd
      BY <2>3, <2>8, <3>1, Descriptions
    <3>3. ctab'[cps[e].pipefd] = wanted(e)
      BY <2>1, <2>6, <2>7, <3>1, <3>2
    <3> QED
      BY <2>1, <2>10, <3>1, <3>3 DEF Has
  <2>12. ASSUME NEW e \in DOMAIN cps, NEW fd PROVE ~Placed(e, fd)'
    <3>1. cps[e].remfds = spec[e].remfds /\ e \in DOMAIN spec
      BY <2>3 DEF Copy
    <3>2. DOMAIN spec[e].remfds \subseteq Nat \ {0}
      BY <2>3, <3>1, TargetsAreFds
    <3> QED
      BY <1>1, <2>1, <2>3, <2>4, <3>1, <3>2 DEF Placed
  <2>13. \A e \in DOMAIN cps : e >= 1 /\ ~(e < 1)
    BY <2>4
  <2>14. Settled' /\ Pending' /\ Done' /\ Keeps'
    <3>1. Settled'
      BY <2>1, <2>12 DEF Settled
    <3>2. Pending'
      BY <2>1, <2>11, <2>12 DEF Pending
    <3>3. Done'
      BY <2>1, <2>13 DEF Done
    <3>4. Keeps'
      BY <1>1, <2>1, <2>3, <2>12 DEF Keeps
    <3> QED
      BY <3>1, <3>2, <3>3, <3>4
  <2>15. NoOther'
    <3> SUFFICES ASSUME NEW n \in Fds, ctab'[n] # Closed
                 PROVE  n = cret' \/ \E e \in DOMAIN cps' : e >= i' /\ cps'[e].pipefd = n
      BY DEF NoOther
    <3>1. n \in pipefds'
      BY <2>6, <2>7
    <3> QED
      BY <1>1, <2>1, <2>13, <3>1
  <2>16. Moving'
    BY <1>1, <2>1, <2>5, <2>9, <2>14, <2>15 DEF Moving
  <2>17. ChildTyped'
    <3>1. spec_ok(spec)' /\ Copy(cps)'
      BY <1>1, <2>1, <2>3 DEF spec_ok, AllTargets, Copy
    <3>2. \E R : cps' \in Seq(Entry(R))
      BY <2>1, <2>3
    <3>3. i' \in Nat \ {0} /\ j' \in Nat \ {0} /\ ctab' \in [Fds -> Desc]
      BY <1>1, <2>1, <2>3, <2>6
    <3> QED
      BY <3>1, <3>2, <3>3 DEF ChildTyped
  <2>18. Inherited' /\ Failing'
    BY <2>1 DEF Inherited, Failing
  <2> QED
    BY <2>16, <2>17, <2>18
<1> QED
  BY <1>2, <1>3

LEMMA MapFacts ==
  ASSUME ChildSide, ~spoiled, cat = "map"
  PROVE  /\ i \in Nat \ {0} /\ j \in Nat \ {0} /\ ctab \in [Fds -> Desc]
         /\ spec_ok(spec) /\ Copy(cps) /\ \E R : cps \in Seq(Entry(R))
         /\ cret \in Fds /\ ctab[cret] = RetW /\ cret \in pipefds /\ cloexec = {cret}
         /\ \A e \in DOMAIN cps : cps[e].type # "file"
         /\ Settled /\ Pending /\ Done /\ NoOther /\ Keeps
<1>1. ChildTyped /\ Moving
  BY DEF ChildSide
<1>2. /\ i \in Nat \ {0} /\ j \in Nat \ {0} /\ ctab \in [Fds -> Desc]
      /\ spec_ok(spec) /\ Copy(cps) /\ \E R : cps \in Seq(Entry(R))
  BY <1>1 DEF ChildTyped
<1> QED
  BY <1>1, <1>2 DEF Moving, Tells

\* A target that is placed is a descriptor.
LEMMA PlacedIsFd ==
  ASSUME spec_ok(spec), Copy(cps), NEW e \in DOMAIN cps, NEW fd, Placed(e, fd)
  PROVE  fd \in Fds
<1>1. cps[e].remfds = spec[e].remfds /\ e \in DOMAIN spec
  BY DEF Copy
<1> QED
  BY <1>1, TargetsAreFds DEF Placed

\* A target that is still to come is not placed.
LEMMA NotYetPlaced ==
  ASSUME spec_ok(spec), Copy(cps), i \in DOMAIN cps, j \in DOMAIN cps[i].remfds,
         NEW e \in DOMAIN cps, DOMAIN cps \subseteq Nat
  PROVE  ~Placed(e, cps[i].remfds[j])
<1> SUFFICES ASSUME NEW t \in DOMAIN cps[e].remfds, cps[e].remfds[t] = cps[i].remfds[j],
                    e < i \/ (e = i /\ t < j)
             PROVE  FALSE
  BY DEF Placed
<1>1. /\ cps[e].remfds = spec[e].remfds /\ e \in DOMAIN spec
      /\ cps[i].remfds = spec[i].remfds /\ i \in DOMAIN spec
  BY DEF Copy
<1>2. e = i /\ t = j
  BY <1>1, OneTarget
<1>3. j \in Nat
  BY <1>1, TargetsAreFds
<1> QED
  BY <1>2, <1>3

\* What an entry has as its number is open, if it is a number.
LEMMA NumbersAreOpen ==
  ASSUME ChildSide, ~spoiled, cat = "map", NEW e \in DOMAIN cps
  PROVE  cps[e].pipefd = -1 \/ (cps[e].pipefd \in Fds /\ ctab[cps[e].pipefd] = wanted(e))
<1>1. /\ spec_ok(spec) /\ Copy(cps) /\ \E R : cps \in Seq(Entry(R))
      /\ Settled /\ Pending /\ Done /\ i \in Nat
  BY MapFacts
<1>2. e \in Nat
  BY <1>1
<1>3. CASE e >= i
  BY <1>1, <1>3 DEF Pending, Has
<1>4. CASE e < i
  <2>1. cps[e].pipefd = -1 \/ Placed(e, cps[e].pipefd)
    BY <1>1, <1>4 DEF Done
  <2>2. Placed(e, cps[e].pipefd) => cps[e].pipefd \in Fds
    BY <1>1, PlacedIsFd
  <2> QED
    BY <1>1, <2>1, <2>2 DEF Settled
<1> QED
  BY <1>1, <1>2, <1>3, <1>4

\* With the move of tfd one more target is placed.
LEMMA OneMorePlaced ==
  ASSUME spec_ok(spec), Copy(cps), Copy(cps)', spec' = spec, i \in DOMAIN cps,
         j \in DOMAIN cps[i].remfds, i' = i, j' = j + 1, NEW e \in DOMAIN cps, NEW fd
  PROVE  Placed(e, fd)' <=> Placed(e, fd) \/ (e = i /\ fd = cps[i].remfds[j])
<1>1. /\ cps[e].remfds = spec[e].remfds /\ e \in DOMAIN spec
      /\ cps[i].remfds = spec[i].remfds /\ i \in DOMAIN spec
  BY DEF Copy
<1>2. cps'[e].remfds = spec[e].remfds
  BY <1>1 DEF Copy
<1>3. DOMAIN spec[e].remfds \subseteq Nat /\ j \in Nat
  BY <1>1, TargetsAreFds
<1>4. \A t \in DOMAIN spec[e].remfds : t < j + 1 <=> t < j \/ t = j
  BY <1>3
<1> QED
  BY <1>1, <1>2, <1>4 DEF Placed

\* A target that has the right description already.
LEMMA StaysInPlace ==
  ASSUME ChildSide, ~spoiled, cat = "map", i \in DOMAIN cps, j \in DOMAIN cps[i].remfds,
         cps[i].remfds[j] = cps[i].pipefd, nomap' = TRUE, j' = j + 1,
         UNCHANGED <<spec, cat, cret, cps, i, ctab, cloexec, pipefds>>
  PROVE  ChildTyped' /\ Moving'
<1>1. /\ i \in Nat \ {0} /\ j \in Nat \ {0} /\ ctab \in [Fds -> Desc]
      /\ spec_ok(spec) /\ Copy(cps) /\ \E R : cps \in Seq(Entry(R))
      /\ cret \in Fds /\ ctab[cret] = RetW /\ cret \in pipefds /\ cloexec = {cret}
      /\ \A e \in DOMAIN cps : cps[e].type # "file"
      /\ Settled /\ Pending /\ Done /\ NoOther /\ Keeps
  BY MapFacts
<1> DEFINE tfd == cps[i].remfds[j]
<1>2. spec_ok(spec)' /\ Copy(cps)'
  BY <1>1 DEF spec_ok, AllTargets, Copy
<1>3. \A e \in DOMAIN cps : \A fd : Placed(e, fd)' <=> Placed(e, fd) \/ (e = i /\ fd = tfd)
  BY <1>1, <1>2, OneMorePlaced
<1>4. \A e : Has(e)' = Has(e) /\ wanted(e)' = wanted(e)
  BY DEF Has, wanted
<1>5. Has(i) /\ i >= i
  BY <1>1 DEF Pending
<1>6. tfd = cps[i].pipefd
  OBVIOUS
<1> HIDE DEF tfd
<1>7. Settled'
  BY <1>1, <1>3, <1>4, <1>5, <1>6 DEF Settled, Has
<1>8. Pending'
  <2> SUFFICES ASSUME NEW e \in DOMAIN cps, e >= i
               PROVE  /\ Has(e)
                      /\ \A f \in DOMAIN cps :
                           Placed(f, cps[e].pipefd)' => cps[f].pipefd = cps[e].pipefd
    BY <1>4 DEF Pending
  <2> QED
    BY <1>1, <1>3, <1>6 DEF Pending
<1>9. Done'
  BY <1>1, <1>3 DEF Done
<1>10. NoOther'
  BY <1>1, <1>3 DEF NoOther
<1>11. Keeps'
  BY <1>3, <1>6 DEF Keeps
<1>12. Tells'
  BY <1>1 DEF Tells
<1>13. Moving'
  BY <1>1, <1>7, <1>8, <1>9, <1>10, <1>11, <1>12 DEF Moving
<1>14. ChildTyped'
  <2>1. \E R : cps' \in Seq(Entry(R))
    BY <1>1
  <2>2. i' \in Nat \ {0} /\ j' \in Nat \ {0} /\ ctab' \in [Fds -> Desc]
    BY <1>1
  <2> QED
    BY <1>2, <2>1, <2>2 DEF ChildTyped
<1> QED
  BY <1>13, <1>14

\* What a dup2 to tfd has to leave behind for the moves to go on as they should: the
\* number of an entry changes only if it was tfd, and then to one that had been free.
Moves(tfd) ==
  /\ Copy(cps)' /\ ctab' \in [Fds -> Desc] /\ \E R : cps' \in Seq(Entry(R))
  /\ ctab'[tfd] = wanted(i)
  /\ \A n \in Fds : n # tfd /\ ctab[n] # Closed => ctab'[n] = ctab[n]
  /\ \A n \in Fds : n # tfd /\ ctab'[n] # Closed /\ ctab[n] = Closed =>
       \E e \in DOMAIN cps : e >= i /\ cps'[e].pipefd = n
  /\ \A e \in DOMAIN cps :
       \/ cps'[e].pipefd = cps[e].pipefd /\ cps[e].pipefd # tfd
       \/ /\ e > i /\ cps[e].pipefd = tfd /\ cps'[e].pipefd \in Fds /\ cps'[e].pipefd # tfd
          /\ ctab[cps'[e].pipefd] = Closed /\ ctab'[cps'[e].pipefd] = wanted(e)
       \/ e < i /\ cps'[e].pipefd = cps[e].pipefd

LEMMA MovesInPlace ==
  ASSUME ChildSide, ~spoiled, cat = "map", i \in DOMAIN cps, j \in DOMAIN cps[i].remfds,
         cps[i].remfds[j] # cps[i].pipefd, Moves(cps[i].remfds[j]),
         j' = j + 1, cloexec' = cloexec \ {cps[i].remfds[j]},
         pipefds' = pipefds \ {cps[i].pipefd}, cps[i].remfds[j] # cret,
         UNCHANGED <<spec, cat, cret, i, nomap>>
  PROVE  ChildTyped' /\ Moving'
<1>1. /\ i \in Nat \ {0} /\ j \in Nat \ {0} /\ ctab \in [Fds -> Desc]
      /\ spec_ok(spec) /\ Copy(cps) /\ \E R : cps \in Seq(Entry(R))
      /\ cret \in Fds /\ ctab[cret] = RetW /\ cret \in pipefds /\ cloexec = {cret}
      /\ \A e \in DOMAIN cps : cps[e].type # "file"
      /\ Settled /\ Pending /\ Done /\ NoOther /\ Keeps
  BY MapFacts
<1> DEFINE tfd == cps[i].remfds[j]
           sfd == cps[i].pipefd
<1>2. /\ Copy(cps)' /\ ctab' \in [Fds -> Desc] /\ \E R : cps' \in Seq(Entry(R))
      /\ ctab'[tfd] = wanted(i)
      /\ \A n \in Fds : n # tfd /\ ctab[n] # Closed => ctab'[n] = ctab[n]
      /\ \A n \in Fds : n # tfd /\ ctab'[n] # Closed /\ ctab[n] = Closed =>
           \E e \in DOMAIN cps : e >= i /\ cps'[e].pipefd = n
  BY DEF Moves
<1>3. \A e \in DOMAIN cps :
       \/ cps'[e].pipefd = cps[e].pipefd /\ cps[e].pipefd # tfd
       \/ /\ e > i /\ cps[e].pipefd = tfd /\ cps'[e].pipefd \in Fds /\ cps'[e].pipefd # tfd
          /\ ctab[cps'[e].pipefd] = Closed /\ ctab'[cps'[e].pipefd] = wanted(e)
       \/ e < i /\ cps'[e].pipefd = cps[e].pipefd
  BY DEF Moves
<1>4. DOMAIN cps \subseteq Nat /\ DOMAIN cps' = DOMAIN cps
  BY <1>1, <1>2 DEF Copy
<1>5. spec_ok(spec)'
  BY <1>1 DEF spec_ok, AllTargets
<1>6. \A e \in DOMAIN cps : \A fd : Placed(e, fd)' <=> Placed(e, fd) \/ (e = i /\ fd = tfd)
  BY <1>1, <1>2, OneMorePlaced
<1>7. \A e : wanted(e)' = wanted(e) /\ wanted(e) # RetW /\ wanted(e) # Closed
  BY Descriptions DEF wanted
<1>8. \A e \in DOMAIN cps : ~Placed(e, tfd)
  BY <1>1, <1>4, NotYetPlaced
<1>9. tfd # sfd /\ tfd # cret /\ tfd \in Fds
  <2>1. cps[i].remfds = spec[i].remfds /\ i \in DOMAIN spec
    BY <1>1 DEF Copy
  <2> QED
    BY <1>1, <2>1, TargetsAreFds
<1>10. sfd \in Fds /\ ctab[sfd] = wanted(i)
  BY <1>1 DEF Pending, Has
<1>11. sfd # cret
  BY <1>1, <1>7, <1>10
<1>12. pipefds' = pipefds \ {sfd} /\ cloexec' = cloexec \ {tfd} /\ sfd = cps[i].pipefd
  OBVIOUS
<1> HIDE DEF tfd, sfd
\* The number of an entry that is still to come.
<1>13. ASSUME NEW e \in DOMAIN cps, e >= i
       PROVE  /\ cps'[e].pipefd \in Fds /\ cps'[e].pipefd # tfd
              /\ ctab'[cps'[e].pipefd] = wanted(e)
              /\ \/ cps'[e].pipefd = cps[e].pipefd
                 \/ ctab[cps'[e].pipefd] = Closed
  <2>1. cps[e].pipefd \in Fds /\ ctab[cps[e].pipefd] = wanted(e)
    BY <1>1, <1>13 DEF Pending, Has
  <2>2. CASE cps'[e].pipefd = cps[e].pipefd /\ cps[e].pipefd # tfd
    BY <1>2, <1>7, <2>1, <2>2
  <2>3. CASE cps'[e].pipefd # cps[e].pipefd \/ cps[e].pipefd = tfd
    <3>1. ~(e < i)
      BY <1>1, <1>4, <1>13
    <3> QED
      BY <1>3, <2>3, <3>1
  <2> QED
    BY <2>2, <2>3
<1>14. Settled'
  <2> SUFFICES ASSUME NEW e \in DOMAIN cps, NEW fd \in Fds, Placed(e, fd)'
               PROVE  ctab'[fd] = wanted(e)
    BY <1>4, <1>7 DEF Settled
  <2>1. CASE Placed(e, fd)
    <3>1. fd # tfd /\ ctab[fd] = wanted(e)
      BY <1>1, <1>8, <2>1 DEF Settled
    <3> QED
      BY <1>2, <1>7, <3>1
  <2>2. CASE e = i /\ fd = tfd
    BY <1>2, <2>2
  <2> QED
    BY <1>6, <2>1, <2>2
<1>15. Pending'
  <2> SUFFICES ASSUME NEW e \in DOMAIN cps, e >= i
               PROVE  /\ Has(e)'
                      /\ \A f \in DOMAIN cps : \A n :
                           n = cps'[e].pipefd /\ Placed(f, n)' => cps'[f].pipefd = n
    BY <1>4 DEF Pending
  <2>1. /\ cps'[e].pipefd \in Fds /\ cps'[e].pipefd # tfd
        /\ ctab'[cps'[e].pipefd] = wanted(e)
        /\ \/ cps'[e].pipefd = cps[e].pipefd
           \/ ctab[cps'[e].pipefd] = Closed
    BY <1>13
  <2>2. Has(e)'
    BY <1>7, <2>1 DEF Has
  <2>3. ASSUME NEW f \in DOMAIN cps, NEW n, n = cps'[e].pipefd, Placed(f, n)'
        PROVE  cps'[f].pipefd = n
    <3>1. Placed(f, n)
      BY <1>6, <2>1, <2>3
    <3>2. ctab[n] # Closed
      BY <1>1, <1>7, <2>1, <2>3, <3>1 DEF Settled
    <3>3. n = cps[e].pipefd
      BY <2>1, <2>3, <3>2
    <3>4. cps[f].pipefd = cps[e].pipefd
      BY <1>1, <3>1, <3>3 DEF Pending
    <3>5. cps[f].pipefd # tfd
      BY <2>1, <2>3, <3>3, <3>4
    <3>6. cps'[f].pipefd = cps[f].pipefd
      BY <1>3, <3>5
    <3> QED
      BY <3>3, <3>4, <3>6
  <2> QED
    BY <2>2, <2>3
<1>16. Done'
  <2> SUFFICES ASSUME NEW e \in DOMAIN cps, e < i, NEW n, n = cps'[e].pipefd
               PROVE  n = -1 \/ Placed(e, n)'
    BY <1>4 DEF Done
  <2>1. cps[e].pipefd = -1 \/ Placed(e, cps[e].pipefd)
    BY <1>1 DEF Done
  <2>2. ~(e > i)
    BY <1>1, <1>4
  <2>3. cps'[e].pipefd = cps[e].pipefd
    BY <1>3, <2>2
  <2> QED
    BY <1>6, <2>1, <2>3
<1>17. NoOther'
  <2> SUFFICES ASSUME NEW n \in Fds, ctab'[n] # Closed
               PROVE  \/ n = cret
                      \/ \E e \in DOMAIN cps : Placed(e, n)' \/ (e >= i /\ cps'[e].pipefd = n)
    BY <1>4 DEF NoOther
  <2>1. CASE n = tfd
    BY <1>6, <2>1
  <2>2. CASE n # tfd /\ ctab[n] = Closed
    BY <1>2, <2>2
  <2>3. CASE n # tfd /\ ctab[n] # Closed
    <3>1. n = cret \/ \E e \in DOMAIN cps : Placed(e, n) \/ (e >= i /\ cps[e].pipefd = n)
      BY <1>1, <2>3 DEF NoOther
    <3>2. \A e \in DOMAIN cps : cps[e].pipefd = n => cps'[e].pipefd = n
      BY <1>3, <2>3
    <3> QED
      BY <1>6, <3>1, <3>2
  <2> QED
    BY <2>1, <2>2, <2>3
<1>18. Keeps'
  <2>1. ~(i > i) /\ ~(i < i)
    BY <1>1
  <2>2. PICK n : n = sfd
    OBVIOUS
  <2>3. cps'[i].pipefd = n /\ cps[i].pipefd = n
    BY <1>3, <1>12, <2>1, <2>2
  <2>4. Placed(i, n)' <=> Placed(i, n)
    BY <1>6, <1>9, <2>2
  <2> QED
    BY <1>1, <2>3, <2>4 DEF Keeps
<1>19. Tells'
  BY <1>1, <1>2, <1>9, Descriptions DEF Tells
<1>20. cret' \in pipefds' /\ cloexec' = {cret'}
  BY <1>1, <1>9, <1>11, <1>12
<1>21. \A e \in DOMAIN cps' : cps'[e].type # "file"
  BY <1>1, <1>2, <1>4 DEF Copy
<1>22. Moving'
  BY <1>14, <1>15, <1>16, <1>17, <1>18, <1>19, <1>20, <1>21 DEF Moving
<1>23. ChildTyped'
  <2>1. i' \in Nat \ {0} /\ j' \in Nat \ {0}
    BY <1>1
  <2> QED
    BY <1>2, <1>5, <2>1 DEF ChildTyped
<1> QED
  BY <1>22, <1>23

\* A target that nobody needs is overwritten.
LEMMA MovesOver ==
  ASSUME ChildSide, ~spoiled, cat = "map", i \in DOMAIN cps, NEW tfd \in Fds,
         users(tfd) = {}, cps' = cps, ctab' = [ctab EXCEPT ![tfd] = ctab[cps[i].pipefd]],
         spec' = spec
  PROVE  Moves(tfd)
<1>1. /\ i \in Nat /\ ctab \in [Fds -> Desc] /\ Copy(cps) /\ \E R : cps \in Seq(Entry(R))
      /\ Pending
  BY MapFacts
<1>2. cps[i].pipefd \in Fds /\ ctab[cps[i].pipefd] = wanted(i)
  BY <1>1 DEF Pending, Has
<1>3. /\ ctab' \in [Fds -> Desc] /\ ctab'[tfd] = wanted(i)
      /\ \A n \in Fds : n # tfd => ctab'[n] = ctab[n]
  BY <1>1, <1>2
<1>4. Copy(cps)' /\ \E R : cps' \in Seq(Entry(R))
  BY <1>1 DEF Copy
<1>5. \A e \in DOMAIN cps : cps'[e].pipefd = cps[e].pipefd /\ cps[e].pipefd # tfd
  BY DEF users
<1> QED
  BY <1>3, <1>4, <1>5 DEF Moves

\* A target that one entry needs goes to the lowest free number first.
LEMMA MovesAside ==
  ASSUME ChildSide, ~spoiled, cat = "map", i \in DOMAIN cps, j \in DOMAIN cps[i].remfds,
         NEW tfd \in Fds, tfd = cps[i].remfds[j], tfd # cps[i].pipefd,
         Cardinality(users(tfd)) = 1, unused(ctab) # {}, ctab[tfd] # Closed,
         cps' = [cps EXCEPT ![blocked(tfd)].pipefd = lowest(ctab)],
         ctab' = [opened(ctab, ctab[tfd]) EXCEPT ![tfd] = ctab[cps[i].pipefd]],
         spec' = spec
  PROVE  Moves(tfd)
<1>1. /\ i \in Nat /\ ctab \in [Fds -> Desc] /\ spec_ok(spec) /\ Copy(cps)
      /\ Settled /\ Pending /\ Done
  BY MapFacts
<1>2. PICK R : cps \in Seq(Entry(R))
  BY MapFacts
<1>3. DOMAIN cps \subseteq Nat
  BY <1>2
<1>4. cps[i].pipefd \in Fds /\ ctab[cps[i].pipefd] = wanted(i) /\ wanted(i) # Closed
  BY <1>1, Descriptions DEF Pending, Has
<1>5. PICK b : users(tfd) = {b}
  <2>1. IsFiniteSet(users(tfd))
    <3>1. users(tfd) \subseteq 1 .. Len(cps) /\ Len(cps) \in Nat
      BY <1>2 DEF users
    <3>2. \A hi \in Int : IsFiniteSet(1 .. hi)
      BY FS_Interval
    <3> QED
      BY <3>1, <3>2, FS_Subset
  <2> QED
    BY <2>1, FS_Singleton
<1>6. b \in DOMAIN cps /\ cps[b].pipefd = tfd /\ \A e \in DOMAIN cps : cps[e].pipefd = tfd => e = b
  BY <1>5 DEF users
<1>7. blocked(tfd) = b
  <2>1. b <= b
    BY <1>3, <1>6
  <2> QED
    BY <1>5, <2>1 DEF blocked
<1>8. b > i
  <2>1. b # i
    BY <1>6
  <2>2. ~(b < i)
    <3>1. tfd # -1
      BY FdsAreNumbers
    <3>2. ~Placed(b, tfd)
      BY <1>1, <1>3, <1>6, NotYetPlaced
    <3> QED
      BY <1>1, <1>6, <3>1, <3>2 DEF Done
  <2> QED
    BY <1>1, <1>3, <1>6, <2>1, <2>2
<1>9. PICK dfd : dfd = lowest(ctab)
  OBVIOUS
<1>10. ctab[tfd] = wanted(b)
  <2>1. b >= i
    BY <1>1, <1>3, <1>6, <1>8
  <2> QED
    BY <1>1, <1>6, <2>1 DEF Pending, Has
<1>11. ctab[tfd] \in Open
  BY <1>1 DEF Desc
<1>12. /\ dfd \in Fds /\ ctab[dfd] = Closed
       /\ opened(ctab, ctab[tfd]) \in [Fds -> Desc]
       /\ \A n \in Fds : n # dfd => opened(ctab, ctab[tfd])[n] = ctab[n]
  BY <1>1, <1>9, <1>11, OpenedTable
<1>13. opened(ctab, ctab[tfd])[dfd] = ctab[tfd]
  BY <1>1, <1>9, <1>12 DEF opened
<1>14. dfd # tfd
  BY <1>12
<1>15. /\ ctab' \in [Fds -> Desc] /\ ctab'[tfd] = wanted(i) /\ ctab'[dfd] = wanted(b)
       /\ \A n \in Fds : n # tfd /\ n # dfd => ctab'[n] = ctab[n]
  <2>1. ctab[cps[i].pipefd] \in Desc
    BY <1>1, <1>4
  <2> QED
    BY <1>4, <1>10, <1>12, <1>13, <1>14, <2>1
<1>16. dfd \in Int /\ cps' = repiped(cps, b, dfd)
  BY <1>7, <1>9, <1>12, FdsAreNumbers DEF repiped
<1>17. /\ cps' \in Seq(Entry(R)) /\ Copy(cps)'
       /\ DOMAIN cps' = DOMAIN cps /\ cps'[b].pipefd = dfd
       /\ \A e \in DOMAIN cps : e # b => cps'[e].pipefd = cps[e].pipefd
  <2>1. /\ cps' \in Seq(Entry(R)) /\ Copy(cps')
        /\ DOMAIN cps' = DOMAIN cps /\ cps'[b].pipefd = dfd
        /\ \A e \in DOMAIN cps : e # b => cps'[e].pipefd = cps[e].pipefd
    <3>1. /\ repiped(cps, b, dfd) \in Seq(Entry(R)) /\ Copy(repiped(cps, b, dfd))
          /\ DOMAIN repiped(cps, b, dfd) = DOMAIN cps
          /\ repiped(cps, b, dfd)[b].pipefd = dfd
          /\ \A e \in DOMAIN cps : e # b => repiped(cps, b, dfd)[e].pipefd = cps[e].pipefd
      <4>1. dfd \in Int /\ b \in DOMAIN cps /\ Copy(cps)
        BY <1>1, <1>6, <1>16
      <4> QED
        BY <1>2, <4>1, Repiped
    <3>2. cps' = repiped(cps, b, dfd)
      BY <1>16
    <3> QED
      BY <3>1, <3>2
  <2>2. Copy(cps') => Copy(cps)'
    BY DEF Copy
  <2> QED
    BY <2>1, <2>2
<1>18. \A n \in Fds : n # tfd /\ ctab[n] # Closed => ctab'[n] = ctab[n]
  BY <1>12, <1>15
<1>19. \A n \in Fds : n # tfd /\ ctab'[n] # Closed /\ ctab[n] = Closed =>
         \E e \in DOMAIN cps : e >= i /\ cps'[e].pipefd = n
  <2>1. b >= i
    BY <1>1, <1>3, <1>6, <1>8
  <2> QED
    BY <1>6, <1>15, <1>17, <2>1
<1>20. ASSUME NEW e \in DOMAIN cps
       PROVE  \/ cps'[e].pipefd = cps[e].pipefd /\ cps[e].pipefd # tfd
              \/ /\ e > i /\ cps[e].pipefd = tfd /\ cps'[e].pipefd \in Fds /\ cps'[e].pipefd # tfd
                 /\ ctab[cps'[e].pipefd] = Closed /\ ctab'[cps'[e].pipefd] = wanted(e)
  <2>1. CASE e = b
    BY <1>6, <1>8, <1>12, <1>14, <1>15, <1>17, <2>1
  <2>2. CASE e # b
    BY <1>6, <1>17, <2>2
  <2> QED
    BY <2>1, <2>2
<1>21. \E Q : cps' \in Seq(Entry(Q))
  BY <1>17
<1> QED
  BY <1>15, <1>17, <1>18, <1>19, <1>20, <1>21 DEF Moves

\* No entry has the number that tells.
LEMMA NobodyNeedsIt ==
  ASSUME ChildSide, ~spoiled, cat = "map"
  PROVE  users(cret) = {}
<1>1. cret \in Fds /\ ctab[cret] = RetW
  BY MapFacts
<1>2. cret # -1
  BY <1>1, FdsAreNumbers
<1>3. \A e \in DOMAIN cps : cps[e].pipefd # cret
  BY <1>1, <1>2, NumbersAreOpen, Descriptions
<1> QED
  BY <1>3 DEF users

LEMMA SetUpFdKeeps ==
  ASSUME ChildSide, SetUpFd
  PROVE  ChildSide'
<1> DEFINE tfd == cps[i].remfds[j]
           sfd == cps[i].pipefd
<1>1. /\ cat = "map" /\ i <= Len(cps) /\ j <= Len(cps[i].remfds)
      /\ spec' = spec /\ cret' = cret
  BY DEF SetUpFd
<1>2. CASE ChildFails /\ UNCHANGED spoiled
  BY <1>1, <1>2, GivesUp
<1>3. CASE ~(ChildFails /\ UNCHANGED spoiled)
  <2>1. cat' = cat /\ i' = i /\ j' = j + 1 /\ (spoiled => spoiled')
    <3>1. cat' = cat /\ i' = i /\ j' = j + 1
      BY <1>3 DEF SetUpFd
    <3>2. spoiled => spoiled'
      BY Zenon DEF SetUpFd
    <3> QED
      BY <3>1, <3>2
  <2>2. AsAsked' /\ Inherited' /\ Failing'
    BY <1>1, <2>1 DEF AsAsked, Inherited, Failing
  <2> SUFFICES ASSUME ~spoiled, ~spoiled' PROVE ChildTyped' /\ Moving'
    BY <1>1, <2>1, <2>2 DEF ChildSide
  <2>3. /\ i \in Nat \ {0} /\ j \in Nat \ {0} /\ ctab \in [Fds -> Desc]
        /\ spec_ok(spec) /\ Copy(cps) /\ \E R : cps \in Seq(Entry(R))
        /\ cret \in Fds /\ ctab[cret] = RetW /\ cret \in pipefds
    BY <1>1, MapFacts
  <2>4. i \in DOMAIN cps
    BY <1>1, <2>3
  <2>5. cps[i].remfds = spec[i].remfds /\ i \in DOMAIN spec
    BY <2>3, <2>4 DEF Copy
  <2>6. j \in DOMAIN cps[i].remfds /\ tfd \in Fds
    <3>1. /\ Len(spec[i].remfds) \in Nat /\ DOMAIN spec[i].remfds = 1 .. Len(spec[i].remfds)
          /\ \A t \in DOMAIN spec[i].remfds : spec[i].remfds[t] \in Fds
      BY <2>3, <2>5, TargetsAreFds
    <3>2. j \in 1 .. Len(spec[i].remfds)
      BY <1>1, <2>3, <2>5, <3>1
    <3> QED
      BY <2>5, <3>1, <3>2
  <2>7. CASE /\ tfd = sfd /\ nomap' = TRUE
             /\ UNCHANGED <<cps, ctab, cloexec, pipefds>>
    BY <1>1, <2>1, <2>4, <2>6, <2>7, StaysInPlace
  <2>8. CASE /\ tfd # sfd /\ ctab[sfd] # Closed
             /\ blocking(tfd) => unused(ctab) # {} /\ ctab[tfd] # Closed
             /\ ctab' = [(IF blocking(tfd) THEN opened(ctab, ctab[tfd]) ELSE ctab)
                           EXCEPT ![tfd] = ctab[sfd]]
             /\ cps' = IF blocking(tfd) THEN [cps EXCEPT ![blocked(tfd)].pipefd = lowest(ctab)]
                                        ELSE cps
             /\ cloexec' = cloexec \ {tfd} /\ pipefds' = pipefds \ {sfd} /\ nomap' = nomap
             /\ spoiled' = (spoiled \/ IF tfd \in pipefds THEN Cardinality(users(tfd)) # 1
                                       ELSE users(tfd) # {})
    <3>1. IF tfd \in pipefds THEN Cardinality(users(tfd)) = 1 ELSE users(tfd) = {}
      BY <2>8
    <3>2. tfd # cret
      <4>1. users(cret) = {} /\ Cardinality({}) = 0
        BY <1>1, NobodyNeedsIt, FS_EmptySet
      <4>2. Cardinality(users(cret)) = 0
        BY <4>1
      <4>3. ASSUME tfd = cret PROVE FALSE
        <5> HIDE DEF tfd
        <5>1. Cardinality(users(tfd)) = 1
          BY <2>3, <3>1, <4>3
        <5>2. Cardinality(users(tfd)) = 0
          BY <4>2, <4>3
        <5> QED
          BY <5>1, <5>2
      <4> QED
        BY <4>3
    <3>3. Moves(tfd)
      <4>1. CASE tfd \in pipefds
        <5>1. /\ unused(ctab) # {} /\ ctab[tfd] # Closed /\ Cardinality(users(tfd)) = 1
              /\ ctab' = [opened(ctab, ctab[tfd]) EXCEPT ![tfd] = ctab[sfd]]
              /\ cps' = [cps EXCEPT ![blocked(tfd)].pipefd = lowest(ctab)]
          BY <2>8, <3>1, <4>1 DEF blocking
        <5> QED
          BY <1>1, <2>4, <2>6, <2>8, <5>1, MovesAside
      <4>2. CASE tfd \notin pipefds
        <5>1. users(tfd) = {} /\ cps' = cps /\ ctab' = [ctab EXCEPT ![tfd] = ctab[sfd]]
          BY <2>8, <3>1, <4>2 DEF blocking
        <5> QED
          BY <1>1, <2>4, <2>6, <5>1, MovesOver
      <4> QED
        BY <4>1, <4>2
    <3> QED
      BY <1>1, <2>1, <2>4, <2>6, <2>8, <3>2, <3>3, MovesInPlace
  <2> QED
    BY <1>3, <2>7, <2>8 DEF SetUpFd
<1> QED
  BY <1>2, <1>3

\* When an entry is done all its targets are placed, and none of the next.
LEMMA EntryPlaced ==
  ASSUME spec_ok(spec), Copy(cps), Copy(cps)', spec' = spec, i \in DOMAIN cps,
         DOMAIN cps \subseteq Nat, j > Len(cps[i].remfds), j \in Nat, i' = i + 1, j' = 1,
         NEW e \in DOMAIN cps, NEW fd
  PROVE  Placed(e, fd)' <=> Placed(e, fd)
<1>1. /\ cps[e].remfds = spec[e].remfds /\ e \in DOMAIN spec
      /\ cps[i].remfds = spec[i].remfds /\ i \in DOMAIN spec
  BY DEF Copy
<1>2. cps'[e].remfds = spec[e].remfds
  BY <1>1 DEF Copy
<1>3. \A t \in DOMAIN spec[e].remfds : t \in Nat \ {0}
  BY <1>1, TargetsAreFds
<1>4. ASSUME NEW t \in DOMAIN spec[e].remfds
      PROVE  e < i + 1 \/ (e = i + 1 /\ t < 1) <=> e < i \/ (e = i /\ t < j)
  <2>1. CASE e = i
    <3>1. t \in 1 .. Len(spec[i].remfds) /\ Len(spec[i].remfds) \in Nat
      BY <1>1, <2>1, TargetsAreFds
    <3> QED
      BY <1>1, <2>1, <3>1
  <2>2. CASE e # i
    BY <1>3, <2>2
  <2> QED
    BY <2>1, <2>2
<1> QED
  BY <1>1, <1>2, <1>4 DEF Placed

\* The number of an entry is given up unless it is a target of the entry.
LEMMA NextEntryKeeps ==
  ASSUME ChildSide, NextEntry
  PROVE  ChildSide'
<1>1. /\ cat = "map" /\ i <= Len(cps) /\ j > Len(cps[i].remfds)
      /\ i' = i + 1 /\ j' = 1 /\ nomap' = FALSE
      /\ spec' = spec /\ cat' = cat /\ cret' = cret /\ cloexec' = cloexec /\ pipefds' = pipefds
  BY DEF NextEntry
<1>2. AsAsked' /\ Inherited' /\ Failing'
  BY <1>1 DEF AsAsked, Inherited, Failing
<1>3. spoiled => spoiled'
  BY Zenon DEF NextEntry
<1> SUFFICES ASSUME ~spoiled, ~spoiled' PROVE ChildTyped' /\ Moving'
  BY <1>1, <1>2, <1>3 DEF ChildSide
<1>4. /\ i \in Nat \ {0} /\ j \in Nat \ {0} /\ ctab \in [Fds -> Desc]
      /\ spec_ok(spec) /\ Copy(cps)
      /\ cret \in Fds /\ ctab[cret] = RetW /\ cret \in pipefds /\ cloexec = {cret}
      /\ \A e \in DOMAIN cps : cps[e].type # "file"
      /\ Settled /\ Pending /\ Done /\ NoOther /\ Keeps
  BY <1>1, MapFacts
<1>5. PICK R : cps \in Seq(Entry(R))
  BY <1>1, MapFacts
<1>6. i \in DOMAIN cps /\ DOMAIN cps \subseteq Nat
  BY <1>1, <1>4, <1>5
<1>7. PICK sfd : sfd = cps[i].pipefd
  OBVIOUS
<1>8. sfd \in Fds /\ ctab[sfd] = wanted(i)
  BY <1>4, <1>6, <1>7 DEF Pending, Has
<1>9. sfd # cret
  BY <1>4, <1>8, Descriptions
\* What is left as it was.
<1>10. /\ \E Q : cps' \in Seq(Entry(Q))
       /\ Copy(cps)' /\ ctab' \in [Fds -> Desc]
       /\ \A n \in Fds : ctab'[n] # Closed => ctab'[n] = ctab[n]
       /\ \A n \in Fds : ctab'[n] = ctab[n] \/ (nomap # TRUE /\ n = sfd)
       /\ \A e \in DOMAIN cps : e # i => cps'[e].pipefd = cps[e].pipefd
       /\ nomap = TRUE => cps'[i].pipefd = sfd
       /\ nomap # TRUE => /\ cps'[i].pipefd = -1 /\ ctab'[sfd] = Closed
                          /\ \A e \in DOMAIN cps : cps[e].pipefd = sfd => e = i
  <2>1. CASE nomap = TRUE
    <3>1. ctab' = ctab /\ cps' = cps
      BY <2>1 DEF NextEntry
    <3>2. Copy(cps)'
      BY <1>1, <1>4, <3>1 DEF Copy
    <3> QED
      BY <1>4, <1>5, <1>7, <2>1, <3>1, <3>2
  <2>2. CASE nomap # TRUE
    <3>1. /\ ctab' = closed(ctab, {sfd}) /\ users(sfd) = {i} /\ cps' = repiped(cps, i, -1)
      BY <1>7, <2>2 DEF NextEntry, repiped
    <3>2. /\ ctab' \in [Fds -> Desc]
          /\ \A n \in Fds : ctab'[n] = IF n \in {sfd} THEN Closed ELSE ctab[n]
      BY <1>4, <3>1, ClosedTable
    <3>3. /\ cps' \in Seq(Entry(R)) /\ Copy(cps') /\ cps'[i].pipefd = -1
          /\ \A e \in DOMAIN cps : e # i => cps'[e].pipefd = cps[e].pipefd
      <4>1. /\ repiped(cps, i, -1) \in Seq(Entry(R)) /\ Copy(repiped(cps, i, -1))
            /\ repiped(cps, i, -1)[i].pipefd = -1
            /\ \A e \in DOMAIN cps : e # i => repiped(cps, i, -1)[e].pipefd = cps[e].pipefd
        <5>1. -1 \in Int
          OBVIOUS
        <5> QED
          BY <1>4, <1>5, <1>6, <5>1, Repiped
      <4> QED
        BY <3>1, <4>1
    <3>4. Copy(cps') => Copy(cps)'
      BY <1>1 DEF Copy
    <3>5. \A e \in DOMAIN cps : cps[e].pipefd = sfd => e = i
      BY <3>1 DEF users
    <3> QED
      BY <1>8, <2>2, <3>2, <3>3, <3>4, <3>5
  <2> QED
    BY <2>1, <2>2
<1>11. DOMAIN cps' = DOMAIN cps /\ \A e \in DOMAIN cps : cps'[e].type # "file"
  BY <1>1, <1>4, <1>10 DEF Copy
<1>12. \A e \in DOMAIN cps : \A fd : Placed(e, fd)' <=> Placed(e, fd)
  BY <1>1, <1>4, <1>6, <1>10, EntryPlaced
<1>13. \A e : wanted(e)' = wanted(e) /\ wanted(e) # Closed
  BY <1>1, Descriptions DEF wanted
<1>14. nomap = TRUE <=> Placed(i, sfd)
  BY <1>4, <1>6, <1>7 DEF Keeps
<1>15. nomap # TRUE => \A e \in DOMAIN cps : ~Placed(e, sfd)
  <2> SUFFICES ASSUME nomap # TRUE, NEW e \in DOMAIN cps, Placed(e, sfd) PROVE FALSE
    OBVIOUS
  <2>1. i >= i
    BY <1>4
  <2>2. cps[e].pipefd = sfd
    BY <1>4, <1>6, <1>7, <2>1 DEF Pending
  <2> QED
    BY <1>10, <1>14, <2>2
<1>16. Settled'
  <2> SUFFICES ASSUME NEW e \in DOMAIN cps, NEW fd \in Fds, Placed(e, fd)
               PROVE  ctab'[fd] = wanted(e)
    BY <1>11, <1>12, <1>13 DEF Settled
  <2>1. ctab[fd] = wanted(e)
    BY <1>4 DEF Settled
  <2> QED
    BY <1>10, <1>15, <2>1
<1>17. Pending'
  <2> SUFFICES ASSUME NEW e \in DOMAIN cps, e >= i + 1
               PROVE  /\ Has(e)'
                      /\ \A f \in DOMAIN cps : \A n :
                           n = cps'[e].pipefd /\ Placed(f, n) => cps'[f].pipefd = n
    BY <1>1, <1>11, <1>12 DEF Pending
  <2>1. e # i /\ e >= i
    BY <1>4, <1>6
  <2>2. /\ cps'[e].pipefd = cps[e].pipefd /\ cps[e].pipefd \in Fds
        /\ ctab[cps[e].pipefd] = wanted(e)
    BY <1>4, <1>10, <2>1 DEF Pending, Has
  <2>3. nomap # TRUE => cps[e].pipefd # sfd
    BY <1>10, <2>1
  <2>4. Has(e)'
    BY <1>10, <1>13, <2>2, <2>3 DEF Has
  <2>5. ASSUME NEW f \in DOMAIN cps, NEW n, n = cps'[e].pipefd, Placed(f, n)
        PROVE  cps'[f].pipefd = n
    <3>1. cps[f].pipefd = n
      BY <1>4, <2>1, <2>2, <2>5 DEF Pending
    <3>2. CASE f # i
      BY <1>10, <3>1, <3>2
    <3>3. CASE f = i
      BY <1>7, <1>10, <2>2, <2>3, <2>5, <3>1, <3>3
    <3> QED
      BY <3>2, <3>3
  <2> QED
    BY <2>4, <2>5
<1>18. Done'
  <2> SUFFICES ASSUME NEW e \in DOMAIN cps, e < i + 1, NEW n, n = cps'[e].pipefd
               PROVE  n = -1 \/ Placed(e, n)
    BY <1>1, <1>11, <1>12 DEF Done
  <2>1. CASE e = i
    BY <1>10, <1>14, <2>1
  <2>2. CASE e # i
    <3>1. e < i
      BY <1>4, <1>6, <2>2
    <3> QED
      BY <1>4, <1>10, <2>2, <3>1 DEF Done
  <2> QED
    BY <2>1, <2>2
<1>19. NoOther'
  <2> SUFFICES ASSUME NEW n \in Fds, ctab'[n] # Closed
               PROVE  \/ n = cret
                      \/ \E e \in DOMAIN cps : Placed(e, n) \/ (e >= i + 1 /\ cps'[e].pipefd = n)
    BY <1>1, <1>11, <1>12 DEF NoOther
  <2>1. n = cret \/ \E e \in DOMAIN cps : Placed(e, n) \/ (e >= i /\ cps[e].pipefd = n)
    BY <1>4, <1>10 DEF NoOther
  <2>2. ASSUME NEW e \in DOMAIN cps, e >= i, cps[e].pipefd = n
        PROVE  Placed(e, n) \/ (e >= i + 1 /\ cps'[e].pipefd = n)
    <3>1. CASE e = i
      BY <1>7, <1>10, <1>14, <2>2, <3>1
    <3>2. CASE e # i
      <4>1. e >= i + 1
        BY <1>4, <1>6, <2>2, <3>2
      <4> QED
        BY <1>10, <2>2, <3>2, <4>1
    <3> QED
      BY <3>1, <3>2
  <2> QED
    BY <2>1, <2>2
<1>20. Keeps'
  <2>1. ASSUME NEW e \in DOMAIN cps, e = i + 1, NEW n PROVE ~Placed(e, n)'
    <3>1. ~(e < i) /\ e # i
      BY <1>4, <2>1
    <3>2. ~Placed(e, n)
      BY <3>1 DEF Placed
    <3> QED
      BY <1>12, <3>2
  <2> SUFFICES ASSUME i' \in DOMAIN cps', nomap' = TRUE \/ Placed(i, cps[i].pipefd)' PROVE FALSE
    BY <1>1 DEF Keeps
  <2>2. PICK e, n : e = i' /\ n = cps'[i'].pipefd
    OBVIOUS
  <2>3. Placed(e, n)'
    BY <1>1, <2>2 DEF Placed
  <2> QED
    BY <1>1, <1>11, <2>1, <2>2, <2>3
<1>21. Tells'
  BY <1>1, <1>4, <1>9, <1>10 DEF Tells
<1>22. Moving'
  BY <1>1, <1>4, <1>11, <1>16, <1>17, <1>18, <1>19, <1>20, <1>21 DEF Moving
<1>23. ChildTyped'
  <2>1. spec_ok(spec)'
    BY <1>1, <1>4 DEF spec_ok, AllTargets
  <2>2. i' \in Nat \ {0} /\ j' \in Nat \ {0}
    BY <1>1, <1>4
  <2> QED
    BY <1>10, <2>1, <2>2 DEF ChildTyped
<1> QED
  BY <1>22, <1>23

\* With all targets placed and nothing else open, the program has what was asked for.
LEMMA ExecveKeeps ==
  ASSUME ChildSide, Execve
  PROVE  ChildSide'
<1>1. /\ cat = "map" /\ i > Len(cps) /\ spec' = spec /\ cret' = cret /\ spoiled' = spoiled
  BY DEF Execve
<1>2. CASE ChildFails
  BY <1>1, <1>2, GivesUp
<1>3. CASE ~ChildFails
  <2>1. cat' = "program" /\ ctab' = closed(ctab, cloexec)
    BY <1>3 DEF Execve
  <2>2. ChildTyped' /\ Inherited' /\ Moving' /\ Failing'
    BY <2>1 DEF ChildTyped, Inherited, Moving, Failing
  <2> SUFFICES ASSUME ~spoiled, NEW fd \in Fds PROVE ctab'[fd] = asked(fd)
    <3>1. \A n \in Fds : asked(n)' = asked(n)
      BY <1>1 DEF asked
    <3> QED
      BY <1>1, <2>1, <2>2, <3>1 DEF ChildSide, AsAsked
  <2>3. /\ i \in Nat \ {0} /\ ctab \in [Fds -> Desc]
        /\ spec_ok(spec) /\ Copy(cps) /\ \E R : cps \in Seq(Entry(R))
        /\ cret \in Fds /\ ctab[cret] = RetW /\ cloexec = {cret}
        /\ \A e \in DOMAIN cps : cps[e].type # "file"
        /\ Settled /\ NoOther
    BY <1>1, MapFacts
  <2>4. \A e \in DOMAIN cps : e < i /\ ~(e >= i)
    BY <1>1, <2>3
  <2>5. ctab'[fd] = IF fd = cret THEN Closed ELSE ctab[fd]
    BY <2>1, <2>3, ClosedTable
  <2> DEFINE mine == { e \in DOMAIN spec : fd \in Range(spec[e].remfds) }
  <2>6. \A e \in DOMAIN cps : e \in mine <=> Placed(e, fd)
    BY <2>3, <2>4 DEF Placed, Copy, Range
  <2>7. DOMAIN cps = DOMAIN spec /\ \A e \in DOMAIN cps : spec[e].type # "file"
    BY <2>3 DEF Copy
  <2>8. CASE mine = {}
    <3>1. asked(fd) = Closed
      BY <2>8 DEF asked
    <3>2. fd = cret \/ ctab[fd] = Closed
      BY <2>3, <2>4, <2>6, <2>8 DEF NoOther
    <3> QED
      BY <2>5, <3>1, <3>2
  <2>9. CASE mine # {}
    <3>1. PICK e : e = CHOOSE o \in mine : TRUE
      OBVIOUS
    <3>2. e \in mine /\ e \in DOMAIN cps
      BY <2>7, <2>9, <3>1
    <3>3. asked(fd) = wanted(e)
      BY <2>7, <2>9, <3>1, <3>2 DEF asked, wanted
    <3>4. ctab[fd] = wanted(e)
      BY <2>3, <2>6, <3>2 DEF Settled
    <3>5. fd # cret
      BY <2>3, <3>4, Descriptions
    <3> QED
      BY <2>5, <3>3, <3>4, <3>5
  <2> QED
    BY <2>8, <2>9
<1> QED
  BY <1>2, <1>3

LEMMA ExitsKeep ==
  ASSUME ChildExits \/ ProgramExits
  PROVE  ChildSide'
<1>1. cat' \in {"died", "exited", "killed"}
  BY DEF ChildExits, ProgramExits
<1> QED
  BY <1>1 DEF ChildSide, ChildTyped, Inherited, Moving, Failing, AsAsked

LEMMA StepChild == Inv /\ Prepared /\ Phases /\ ChildSide /\ [Next]_vars => ChildSide'
<1> SUFFICES ASSUME Inv, Prepared, Phases, ChildSide, [Next]_vars PROVE ChildSide'
  OBVIOUS
<1>1. CASE Child \/ ProgramExits
  BY <1>1, OpenFileKeeps, CloseOthersKeeps, SetUpFdKeeps, NextEntryKeeps, ExecveKeeps, ExitsKeep
     DEF Child
<1>2. CASE Build
  <2>1. at = "build" /\ cat' = cat /\ nomap' = nomap
    BY <1>2 DEF Build, ps_spec_add_pipe, ps_spec_add_fsrdr, ps_spec_add_remap, ps_spec_keepfd,
                newfde, ps_spec_del_fde, ps_fde_addfd, ps_fde_delfd, Building, childVars
  <2>2. cat' = "none" /\ nomap' = FALSE
    BY <2>1 DEF Phases, ChildSide
  <2> QED
    BY <2>2 DEF ChildSide, ChildTyped, Inherited, Moving, Failing, AsAsked
<1>3. CASE Fork
  BY <1>3, ForkInherits
<1>4. CASE \/ Launch \/ CreatePipe \/ PipesCreated \/ OpenStdio \/ ParentCloses \/ ParentReads
           \/ ReadFails \/ LaunchFails \/ UNCHANGED vars
  <2>1. spec' = spec /\ UNCHANGED childVars
    BY <1>4 DEF Launch, CreatePipe, PipesCreated, OpenStdio, ParentCloses, ParentReads,
                ReadFails, LaunchFails, vars
  <2> QED
    BY <2>1, ChildFrame
<1>5. CASE \/ \E e \in 1 .. MaxEntries : ps_closeio(e)
           \/ ps_running \/ \E wait \in BOOLEAN : ps_cleanup(wait)
  <2>1. spec' = spec /\ UNCHANGED childVars
    BY <1>5 DEF ps_closeio, ps_running, ps_cleanup, After
  <2> QED
    BY <2>1, ChildFrame
<1> QED
  BY <1>1, <1>2, <1>3, <1>4, <1>5 DEF Next, Parent

-----------------------------------------------------------------------------
(* Both.                                                                     *)

\* The client and the parent go on alone.
LEMMA ParentPhases ==
  ASSUME Phases, UNCHANGED <<pipeVars, childVars>>,
         \/ at' = at
         \/ at = "build" /\ at' \in {"pipes", "failed"}
         \/ at = "pipes" /\ at' \in {"stdio", "err"}
         \/ at = "stdio" /\ at' = "err"
         \/ at = "parent" /\ at' = "read"
         \/ at = "err" /\ at' = "failed"
         \/ at = "launched" /\ at' \in {"finished", "aborted"}
         \/ at \in {"launched", "finished"} /\ at' = "over"
  PROVE  Phases'
<1>1. cat' = cat /\ told' = told /\ broken' = broken /\ spoiled' = spoiled
  BY DEF childVars, pipeVars
<1> QED
  BY <1>1 DEF Phases, LaunchTrue

\* The parent learns what became of the child.
LEMMA ReadPhases ==
  ASSUME Phases, ChildSide, ParentReads
  PROVE  Phases'
<1>1. /\ at = "read" /\ cat' = cat /\ told' = told /\ broken' = broken /\ spoiled' = spoiled
  BY DEF ParentReads, childVars, pipeVars
<1>2. CASE told /\ at' = "err"
  BY <1>1, <1>2 DEF Phases, LaunchTrue
<1>3. CASE ~told /\ (\A n \in Fds : ctab[n] # RetW) /\ at' = "launched"
  <2>1. ~spoiled => cat \notin {"files", "map", "err"}
    BY <1>3, CanTell DEF Tells
  <2> QED
    BY <1>1, <1>3, <2>1 DEF Phases, LaunchTrue
<1> QED
  BY <1>2, <1>3 DEF ParentReads

\* A child that gives up says so, if it still can.
LEMMA ChildPhases ==
  ASSUME Phases, ChildSide, Child \/ ProgramExits
  PROVE  Phases'
<1>1. at' = at /\ cat \notin {"none", "died", "exited", "killed"}
  BY DEF Child, OpenFile, CloseOthers, SetUpFd, NextEntry, Execve, ChildExits, ProgramExits
<1>2. spoiled => spoiled'
  <2>1. Next
    BY DEF Next
  <2> QED
    BY <2>1, SpoiledStays
<1>3. CASE OpenFile \/ CloseOthers \/ SetUpFd \/ NextEntry \/ Execve
  <2>1. /\ told' = told /\ broken' = broken
        /\ cat \in {"files", "map"} /\ cat' \in {"files", "map", "err", "program"}
    BY <1>3 DEF OpenFile, CloseOthers, SetUpFd, NextEntry, Execve, ChildFails, pipeVars
  <2> QED
    BY <1>1, <1>2, <2>1 DEF Phases, LaunchTrue
<1>4. CASE ChildExits
  <2>1. /\ cat = "err" /\ cat' = "died" /\ spoiled' = spoiled
        /\ \/ told' = tells /\ broken' = broken
           \/ told' = told /\ broken' = broken \cup {"write"}
    BY <1>4 DEF ChildExits
  <2>2. ~spoiled => told' \/ "write" \in broken'
    BY <2>1, CanTell DEF tells, Tells
  <2> QED
    BY <1>1, <2>1, <2>2 DEF Phases, LaunchTrue
<1>5. CASE ProgramExits
  <2>1. /\ cat = "program" /\ cat' \in {"exited", "killed"}
        /\ told' = told /\ broken' = broken /\ spoiled' = spoiled
    BY <1>5 DEF ProgramExits, pipeVars
  <2> QED
    BY <1>1, <2>1 DEF Phases, LaunchTrue
<1> QED
  BY <1>3, <1>4, <1>5 DEF Child

LEMMA StepPhases == Phases /\ ChildSide /\ [Next]_vars => Phases'
<1> SUFFICES ASSUME Phases, ChildSide, [Next]_vars PROVE Phases'
  OBVIOUS
<1>1. CASE Child \/ ProgramExits
  BY <1>1, ChildPhases
<1>2. CASE Build
  <2>1. at' = at /\ UNCHANGED <<pipeVars, childVars>>
    BY <1>2 DEF Build, ps_spec_add_pipe, ps_spec_add_fsrdr, ps_spec_add_remap, ps_spec_keepfd,
                newfde, ps_spec_del_fde, ps_fde_addfd, ps_fde_delfd, Building
  <2> QED
    BY <2>1, ParentPhases
<1>3. CASE Fork
  <2>1. at = "stdio"
    BY <1>3 DEF Fork
  <2>2. CASE Fail /\ UNCHANGED childVars
    <3>1. at' = "err" /\ UNCHANGED <<pipeVars, childVars>>
      BY <1>3, <2>2 DEF Fork, Fail
    <3> QED
      BY <2>1, <3>1, ParentPhases
  <2>3. CASE at' = "parent" /\ cat' = "files" /\ UNCHANGED <<pipeVars, spoiled>>
    BY <2>1, <2>3 DEF Phases, LaunchTrue, pipeVars
  <2> QED
    BY <1>3, <2>2, <2>3 DEF Fork
<1>4. CASE Launch \/ CreatePipe \/ PipesCreated \/ OpenStdio \/ ParentCloses \/ LaunchFails
  <2>1. /\ UNCHANGED <<pipeVars, childVars>>
        /\ \/ at' = at
           \/ at = "build" /\ at' \in {"pipes", "failed"}
           \/ at = "pipes" /\ at' \in {"stdio", "err"}
           \/ at = "stdio" /\ at' = "err"
           \/ at = "parent" /\ at' = "read"
           \/ at = "err" /\ at' = "failed"
    BY <1>4 DEF Launch, CreatePipe, Fail, PipesCreated, OpenStdio, ParentCloses, LaunchFails
  <2> QED
    BY <2>1, ParentPhases
<1>5. CASE ParentReads
  BY <1>5, ReadPhases
<1>8. CASE ReadFails
  <2>1. /\ at = "read" /\ at' = "err" /\ broken' = broken \cup {"read"}
        /\ cat' = cat /\ told' = told /\ spoiled' = spoiled
    BY <1>8 DEF ReadFails, childVars
  <2> QED
    BY <2>1 DEF Phases, LaunchTrue
<1>6. CASE \/ \E e \in 1 .. MaxEntries : ps_closeio(e)
           \/ ps_running \/ \E wait \in BOOLEAN : ps_cleanup(wait)
  <2>1. /\ UNCHANGED <<pipeVars, childVars>>
        /\ \/ at' = at
           \/ at = "launched" /\ at' \in {"finished", "aborted"}
           \/ at \in {"launched", "finished"} /\ at' = "over"
    BY <1>6 DEF ps_closeio, ps_running, ps_cleanup, After
  <2> QED
    BY <2>1, ParentPhases
<1>7. CASE UNCHANGED vars
  <2>1. at' = at /\ UNCHANGED <<pipeVars, childVars>>
    BY <1>7 DEF vars
  <2> QED
    BY <2>1, ParentPhases
<1> QED
  BY <1>1, <1>2, <1>3, <1>4, <1>5, <1>6, <1>7, <1>8 DEF Next, Parent

LEMMA InitAll == Init => Prepared /\ Phases /\ ChildSide
<1> SUFFICES ASSUME Init PROVE Prepared /\ Phases /\ ChildSide
  OBVIOUS
<1>1. at = "build" /\ cat = "none" /\ nomap = FALSE /\ told = FALSE
  BY DEF Init
<1>2. Prepared
  BY <1>1 DEF Prepared
<1>3. Phases
  BY <1>1 DEF Phases, LaunchTrue
<1>4. ChildSide
  BY <1>1 DEF ChildSide, ChildTyped, Inherited, Moving, Failing, AsAsked
<1> QED
  BY <1>2, <1>3, <1>4

\* Parent and child, each with what it is to have at every step.
THEOREM ParentAndChild == Spec => [](Prepared /\ Phases /\ ChildSide)
BY InitEstablishes, StepKeeps, InitAll, StepPrepares, StepPhases, StepChild, PTL DEF Spec

\* set_up_fds, with however many descriptors that have to change places: what execve
\* starts has each descriptor asked for in its place, and no other.
THEOREM ProgramHasWhatWasAsked == Spec => []AsAsked
BY ParentAndChild, PTL DEF ChildSide

\* ps_launch returns a child only if the program was started or the child could not
\* write its errno, and NULL only if it was not or the parent could not read the answer.
THEOREM LaunchTellsTheTruth == Spec => []LaunchTrue
BY ParentAndChild, PTL DEF Phases
=============================================================================
