------------------------------ MODULE NetPipe ------------------------------
(***************************************************************************)
(* src/utils/netpipe.c: two sockets joined by a ring buffer each way.  A   *)
(* reader and a writer work on each ring; both are events of one           *)
(* multiplexer, and each registers the other when the ring stops being     *)
(* empty or full, and cancels itself when it becomes so.                   *)
(*                                                                         *)
(* A direction is named by the socket it comes from.  The bytes of a       *)
(* stream are 1, 2, 3, ...  An event only ever cancels itself, so the walk *)
(* of ue_next over the events is a set of events still to visit, in any    *)
(* order; the walk itself is in UEvent.                                    *)
(***************************************************************************)
EXTENDS Ring, Sequences

CONSTANTS
  Cfd, Sfd,   \* the two sockets
  Bsiz,       \* the size of the rings
  Total       \* direction -> how many bytes its peer sends before it closes

Dir == {"c2s", "s2c"}

ASSUME PipeAssumption ==
  /\ Cfd \in Nat /\ Sfd \in Nat /\ Cfd # Sfd
  /\ Bsiz \in Nat \ {0}
  /\ Total \in [Dir -> Nat]

VARIABLES
  ring,       \* c2s and s2c
  rdone,      \* crdone and srdone, by direction: the reader saw the end
  wdone,      \* swdone and cwdone, by direction: the writer could not write
  reg,        \* the registered events
  maxfd,      \* mux.maxfd
  ready,      \* the events the kernel would report
  todo,       \* the events the walk of ue_next has still to visit
  got,        \* direction -> how many bytes were read
  out,        \* direction -> the bytes written
  pass        \* "run", "exit": main returned, "failed": errsys ended the process

pipeVars == <<ring, rdone, wdone, reg, maxfd, got, out>>
vars == <<pipeVars, ready, todo, pass>>

Reader(d) == << "rd", d >>
Writer(d) == << "wr", d >>
Event == { Reader(d) : d \in Dir } \cup { Writer(d) : d \in Dir }

\* The reader of c2s waits for cfd and its writer for sfd.
Fd(e) == IF e \in {Reader("c2s"), Writer("s2c")} THEN Cfd ELSE Sfd

Init ==
  /\ ring = [d \in Dir |-> ring_init(Bsiz)]
  /\ rdone = [d \in Dir |-> FALSE] /\ wdone = [d \in Dir |-> FALSE]
  /\ reg = { Reader(d) : d \in Dir }
  /\ maxfd = IF Cfd > Sfd THEN Cfd ELSE Sfd
  /\ ready = {} /\ todo = {} /\ pass = "run"
  /\ got = [d \in Dir |-> 0] /\ out = [d \in Dir |-> << >>]

-----------------------------------------------------------------------------
(* The peers and the kernel. *)

\* Bytes or the end of the stream arrive, or the peer has taken bytes off the socket.
BecomesReady(e) ==
  /\ pass = "run" /\ e \notin ready
  /\ ready' = ready \cup {e}
  /\ UNCHANGED <<pipeVars, todo, pass>>

-----------------------------------------------------------------------------
(* ue_run and ue_next. *)

\* select returns what is ready within its range.
Select ==
  /\ pass = "run" /\ todo = {} /\ maxfd >= 0
  /\ todo' = { e \in reg \cap ready : Fd(e) <= maxfd }
  /\ todo' # {}
  /\ UNCHANGED <<pipeVars, ready, pass>>

\* ue_run returns when no descriptor is left.
Exit ==
  /\ pass = "run" /\ todo = {} /\ maxfd < 0
  /\ pass' = "exit"
  /\ UNCHANGED <<pipeVars, ready, todo>>

-----------------------------------------------------------------------------
(* The callbacks. *)

\* ue_io_cancel(e) if off, then ue_io_reg(on): what fdmax returns while a descriptor
\* is left is any value, as in UEvent.
Switch(e, off, on) ==
  LET rest == reg \ {e}
      top  == IF ~off \/ Fd(e) # maxfd \/ \E f \in rest : Fd(f) = Fd(e) THEN {maxfd}
              ELSE IF rest = {} THEN {-1} ELSE {-1, Cfd, Sfd}
  IN  /\ reg' = (IF off THEN rest ELSE reg) \cup on
      /\ \E m \in top :
           maxfd' = IF \E f \in on : Fd(f) > m THEN Fd(CHOOSE f \in on : TRUE) ELSE m

\* The descriptor may have more, or not.
Visited(e) ==
  /\ todo' = todo \ {e}
  /\ ready' \in {ready, ready \ {e}}

\* read puts the next bytes of the stream behind the last in the ring.
stored(r, n, next) ==
  [r EXCEPT !.data = [i \in 0 .. (r.alloc - 1) |->
     IF ring_last(r) <= i /\ i < ring_last(r) + n THEN next + (i - ring_last(r)) ELSE @[i]]]

\* Fault: the reader asks for all up to the end of the data.
ReadableToEnd(r) == r.alloc - ring_last(r)

\* Bytes reader asks for: up to the end of the data or of the free part.
readable(r) == least(r.alloc - ring_last(r), ring_avail(r))

\* Fault: the reader goes on with a full ring.
FullTooLate(r) == ring_avail(r) < 0
full(r) == ring_avail(r) = 0

\* Whom the reader calls back: the writer of a ring that was empty.
woken_writer(d) == IF ring[d].len = 0 /\ ~wdone[d] THEN {Writer(d)} ELSE {}

\* reader.  A read of no bytes, and one at the end of the stream, returns 0.
Read(d) ==
  LET e == Reader(d)
      r == ring[d]
  IN
  /\ pass = "run" /\ e \in todo
  /\ Visited(e)
  /\ UNCHANGED <<wdone, out, pass>>
  /\ \/ /\ readable(r) = 0 \/ got[d] = Total[d]
        /\ rdone' = [rdone EXCEPT ![d] = TRUE]
        /\ Switch(e, TRUE, {})
        /\ UNCHANGED <<ring, got>>
     \/ \E n \in 1 .. least(readable(r), Total[d] - got[d]) :
          /\ ring' = [ring EXCEPT ![d] = ring_put(stored(r, n, got[d] + 1), n)]
          /\ got' = [got EXCEPT ![d] = @ + n]
          /\ Switch(e, full(ring'[d]), woken_writer(d))
          /\ UNCHANGED rdone

\* Bytes writer offers: up to the end of the data or of the bytes.
writable(r) == least(r.alloc - r.start, r.len)

\* Fault: the reader of the other direction is asked whether it is done.
WakesByOther(d) ==
  IF full(ring[d]) /\ \A c \in Dir \ {d} : ~rdone[c] THEN {Reader(d)} ELSE {}

\* Whom the writer calls back: the reader of a ring that was full.
woken_reader(d) == IF full(ring[d]) /\ ~rdone[d] THEN {Reader(d)} ELSE {}

\* writer.  A write of no bytes returns 0.
Write(d) ==
  LET e == Writer(d)
      r == ring[d]
  IN
  /\ pass = "run" /\ e \in todo
  /\ Visited(e)
  /\ UNCHANGED <<rdone, got, pass>>
  /\ \/ /\ writable(r) = 0
        /\ wdone' = [wdone EXCEPT ![d] = TRUE]
        /\ Switch(e, TRUE, {})
        /\ UNCHANGED <<ring, out>>
     \/ \E n \in 1 .. writable(r) :
          /\ out' = [out EXCEPT ![d] = @ \o [i \in 1 .. n |-> r.data[r.start + i - 1]]]
          /\ ring' = [ring EXCEPT ![d] = ring_get(r, n)]
          /\ Switch(e, ring'[d].len = 0, woken_reader(d))
          /\ UNCHANGED wdone

\* read or write returns -1, for EAGAIN too (io_read_upto never returns -2).
Fails(e) ==
  /\ pass = "run" /\ e \in todo
  /\ pass' = "failed"
  /\ UNCHANGED <<pipeVars, ready, todo>>

Next ==
  \/ \E e \in Event : BecomesReady(e) \/ Fails(e)
  \/ Select \/ Exit
  \/ \E d \in Dir : Read(d) \/ Write(d)

Spec == Init /\ [][Next]_vars

\* The process runs, and the peers go on sending and reading.
FairSpec ==
  /\ Spec
  /\ WF_vars(Select) /\ WF_vars(Exit)
  /\ \A d \in Dir : WF_vars(Read(d)) /\ WF_vars(Write(d))
  /\ \A e \in Event : WF_vars(BecomesReady(e))

-----------------------------------------------------------------------------
(* Properties. *)

\* A ring's fields keep their ranges, and streams only grow to their end.
TypeOK ==
  \A d \in Dir :
    /\ ring[d].alloc = Bsiz /\ ring[d].len \in 0 .. Bsiz /\ ring[d].start \in 0 .. (Bsiz - 1)
    /\ got[d] \in 0 .. Total[d]
    /\ reg \subseteq Event /\ todo \subseteq reg

\* Every byte read is written or in the ring, once and in order, however the
\* transfers were cut and the ring wrapped.
InOrder ==
  \A d \in Dir :
    /\ \A i \in DOMAIN out[d] : out[d][i] = i
    /\ Len(out[d]) + ring[d].len = got[d]
    /\ \A k \in 0 .. (ring[d].len - 1) :
         ring[d].data[index(ring[d], k)] = Len(out[d]) + k + 1

\* Between any two callbacks exactly those that can go on are registered: the reader
\* while the ring has room, the writer while it has bytes.  So neither side is
\* forgotten, and none is registered twice.
NoneForgotten ==
  \A d \in Dir :
    /\ Reader(d) \in reg <=> ring_avail(ring[d]) > 0 /\ ~rdone[d]
    /\ Writer(d) \in reg <=> ring[d].len > 0

\* A transfer of no bytes is never taken for the end of a stream: the reader is done
\* only at the end, and the writer never.
EndIsTheEnd == \A d \in Dir : ~wdone[d] /\ (rdone[d] => got[d] = Total[d])

\* maxfd is the highest descriptor somebody waits for.
MaxFdTrue ==
  /\ \A e \in reg : Fd(e) <= maxfd
  /\ maxfd = -1 \/ \E e \in reg : Fd(e) = maxfd

\* When both peers have closed, everything they sent was delivered and netpipe
\* returns: no order of partial transfers leaves both sides waiting.  (Unless maxfd
\* is wrong, see UEvent, or a transfer fails.)
AllDelivered ==
  [] MaxFdTrue =>
    <>(pass = "failed" \/ (pass = "exit" /\ \A d \in Dir : Len(out[d]) = Total[d]))
=============================================================================
