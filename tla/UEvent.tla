------------------------------- MODULE UEvent -------------------------------
(***************************************************************************)
(* The event multiplexer of src/uevent.c: one struct uemux, the timers,    *)
(* i/o events and signal events its client registers, and ue_next, which   *)
(* waits in select and then runs the callbacks of the signals, of the      *)
(* timers and of the descriptors, in that order.  A callback may call back *)
(* into the multiplexer, in the middle of the walk that called it.         *)
(***************************************************************************)
EXTENDS DList

CONSTANTS
  Timer,       \* struct ue_timer, all initialised
  Orig,        \* timer -> its orig field
  Periodic,    \* the timers with UE_PERIODIC
  Io,          \* struct ue_ioevent
  Key,         \* i/o event -> << type, fd >>
  Hot,         \* the << type, fd >> that are ready at all times
  Sig,         \* struct ue_sigevent
  Signum,      \* signal event -> its signum
  MaxElapse    \* the longest time between the two readings of the clock in ue_next

End  == "end"    \* the head of the list being walked
None == "none"   \* no callback is running

Fds == { Key[i][2] : i \in Io }

ASSUME EventAssumption ==
  /\ Orig \in [Timer -> Nat] /\ Periodic \subseteq Timer
  /\ Fds \subseteq Nat
  /\ Signum \in [Sig -> Nat]
  /\ MaxElapse \in Nat
  /\ Timer \cap Io = {} /\ Timer \cap Sig = {} /\ Io \cap Sig = {}
  /\ {End, None} \cap (Timer \cup Io \cup Sig) = {}

VARIABLES
  timers, ttl,   \* the delta list mux->timers
  treg,          \* the timers with UE_TREG
  batch,         \* the list l of ue_next: expired timers not yet run
  iolist,        \* mux->iolist; an event is on its descriptor's list just as long
  fdset,         \* mux->rset, wset and eset: a set of << type, fd >>
  maxfd,         \* mux->maxfd
  sigtab,        \* mux->sigtab: signal number -> its events
  caught,        \* the signals ue_handler is installed for
  sset, smax,    \* uemux_sset and uemux_maxsig
  done,          \* mux->done
  pass,          \* where ue_next is
  rset,          \* its copies of the descriptor sets, then what select left in them
  timed,         \* tvp is not NULL
  eintr,         \* select was interrupted
  fired,         \* the signals run_sig_handlers has still to look at
  nx,            \* the node the walk visits next, read before the callback
  run,           \* the event whose callback is running
  elapsed,       \* the time since the first reading of the clock
  intr,          \* a signal arrived during select
  left,          \* timer -> what is left of the time it was asked to wait, 0 if unasked
  asked,         \* timer -> how it came to its place: see RegTimer
  ran,           \* the events ue_next has run so far
  lost           \* a walk can no longer get back to its list head

clientVars == <<timers, ttl, treg, batch, iolist, fdset, maxfd, sigtab, caught>>
signalVars == <<sset, smax, intr>>
walkVars   == <<pass, rset, timed, eintr, fired, nx, run, ran>>
vars == <<clientVars, signalVars, walkVars, done, elapsed, left, asked, lost>>

Init ==
  /\ timers = << >> /\ ttl = Orig /\ treg = {} /\ batch = << >>
  /\ iolist = << >> /\ fdset = {} /\ maxfd = -1
  /\ sigtab = [n \in { Signum[s] : s \in Sig } |-> << >>]
  /\ caught = {} /\ sset = {} /\ smax = -1
  /\ done = FALSE /\ pass = "idle"
  /\ rset = {} /\ timed = FALSE /\ eintr = FALSE /\ fired = {}
  /\ nx = End /\ run = None /\ elapsed = 0 /\ intr = FALSE
  /\ left = [t \in Timer |-> 0] /\ asked = [t \in Timer |-> "init"] /\ ran = {} /\ lost = FALSE

\* The client runs its own code: between two calls of ue_next, or in a callback.
ClientRuns == ~lost /\ (pass = "idle" \/ run # None)

\* ue_next has read the clock, and will advance the timers by what it reads next.
Counting == timed /\ ~eintr /\ pass \in {"wait", "woken", "sig"}

-----------------------------------------------------------------------------
(* Timers. *)

\* ue_tm_init of a timer that is on no list.
InitTimer(t) ==
  /\ ClientRuns /\ ~Contains(timers, t) /\ ~Contains(batch, t)
  /\ ttl' = [ttl EXCEPT ![t] = Orig[t]]
  /\ treg' = treg \ {t}
  /\ asked' = [asked EXCEPT ![t] = "init"]
  /\ UNCHANGED <<timers, batch, iolist, fdset, maxfd, sigtab, caught, signalVars,
                 walkVars, done, elapsed, left, lost>>

\* ue_tm_reg.  The timer is asked to wait its orig from now on.  The code takes the
\* ttl that the node happens to hold, which is orig only after ue_tm_init, and counts
\* from the last advance of the list, which is now unless a signal's callback asks.
\* asked remembers it: "once" for a wait the node got in full, "again" for others.
RegTimer(t) ==
  /\ ClientRuns /\ ~Contains(timers, t) /\ ~Contains(batch, t)
  /\ LET r == dl_ins(timers, ttl, t) IN timers' = r.list /\ ttl' = r.ttl
  /\ treg' = treg \cup {t}
  /\ left' = [left EXCEPT ![t] = Orig[t]]
  /\ asked' = [asked EXCEPT ![t] = IF @ = "init" /\ ~Counting THEN "once" ELSE "again"]
  /\ UNCHANGED <<batch, iolist, fdset, maxfd, sigtab, caught, signalVars, walkVars,
                 done, elapsed, lost>>

\* Fault: an expired timer is taken for one that has run.
CancelSkipsBatch(t) ==
  /\ ClientRuns /\ t \in treg
  /\ LET r == dl_rem(timers, ttl, t) IN timers' = r.list /\ ttl' = r.ttl
  /\ treg' = treg \ {t}
  /\ UNCHANGED <<batch, iolist, fdset, maxfd, sigtab, caught, signalVars, walkVars,
                 done, elapsed, left, asked, lost>>

\* ue_tm_cancel.  The walk of the expired timers does not survive the removal of
\* the one it visits next; behind the last of them dl_rem adds to the ttl of a list
\* head that has none; and once ue_next has returned, that head is gone.
CancelTimer(t) ==
  /\ ClientRuns /\ t \in treg
  /\ LET q == dl_rem(timers, ttl, t)
         b == dl_rem(batch, ttl, t)
     IN  /\ timers' = q.list
         /\ batch'  = b.list
         /\ ttl'    = IF Contains(batch, t) THEN b.ttl ELSE q.ttl
         /\ lost'   = \/ t = nx
                      \/ Contains(batch, t) /\ (t = Last(batch) \/ pass # "tm")
  /\ treg' = treg \ {t}
  /\ left' = [left EXCEPT ![t] = 0]
  /\ UNCHANGED <<iolist, fdset, maxfd, sigtab, caught, signalVars, walkVars, done,
                 elapsed, asked>>

-----------------------------------------------------------------------------
(* Descriptors. *)

\* Fault: a new event joins the walk that is under way.
RegIoLast(i) ==
  /\ ClientRuns /\ ~Contains(iolist, i)
  /\ iolist' = Append(iolist, i)
  /\ fdset'  = fdset \cup {Key[i]}
  /\ maxfd'  = Max({maxfd, Key[i][2]})
  /\ nx' = IF pass = "io" /\ nx = End THEN i ELSE nx
  /\ UNCHANGED <<timers, ttl, treg, batch, sigtab, caught, signalVars, pass, rset,
                 timed, eintr, fired, run, ran, done, elapsed, left, asked, lost>>

\* ue_io_reg: the event goes to the front of the list.
RegIo(i) ==
  /\ ClientRuns /\ ~Contains(iolist, i)
  /\ iolist' = << i >> \o iolist
  /\ fdset'  = fdset \cup {Key[i]}
  /\ maxfd'  = Max({maxfd, Key[i][2]})
  /\ UNCHANGED <<timers, ttl, treg, batch, sigtab, caught, signalVars, walkVars,
                 done, elapsed, left, asked, lost>>

\* fdmax: with descriptors left, it reads the fd field of an event where the tree
\* holds a list head, and finds any value there.
fdmax(ios) == IF ios = {} THEN {-1} ELSE -1 .. Max(Fds)

\* Fault: the descriptor leaves its set whoever else waits for it.
CancelClearsAll(i) ==
  /\ ClientRuns /\ Contains(iolist, i)
  /\ iolist' = l_rem(iolist, i)
  /\ fdset'  = fdset \ {Key[i]}
  /\ LET rest == ToSet(iolist) \ {i} IN
     maxfd' \in IF \A j \in rest : Key[j][2] # Key[i][2]
                THEN IF Key[i][2] = maxfd THEN fdmax(rest) ELSE {maxfd}
                ELSE {maxfd}
  /\ lost' = (i = nx)
  /\ UNCHANGED <<timers, ttl, treg, batch, sigtab, caught, signalVars, walkVars,
                 done, elapsed, left, asked>>

\* ue_io_cancel.
CancelIo(i) ==
  /\ ClientRuns /\ Contains(iolist, i)
  /\ iolist' = l_rem(iolist, i)
  /\ LET rest == ToSet(iolist) \ {i} IN
     /\ fdset' = IF \E j \in rest : Key[j] = Key[i] THEN fdset ELSE fdset \ {Key[i]}
     /\ maxfd' \in IF Key[i][2] = maxfd /\ \A j \in rest : Key[j][2] # Key[i][2]
                   THEN fdmax(rest) ELSE {maxfd}
  /\ lost' = (i = nx)
  /\ UNCHANGED <<timers, ttl, treg, batch, sigtab, caught, signalVars, walkVars,
                 done, elapsed, left, asked>>

-----------------------------------------------------------------------------
(* Signals. *)

\* ue_sig_reg.
RegSig(s) ==
  /\ ClientRuns /\ ~Contains(sigtab[Signum[s]], s)
  /\ sigtab' = [sigtab EXCEPT ![Signum[s]] = << s >> \o @]
  /\ caught' = caught \cup {Signum[s]}
  /\ UNCHANGED <<timers, ttl, treg, batch, iolist, fdset, maxfd, signalVars, walkVars,
                 done, elapsed, left, asked, lost>>

\* ue_sig_cancel; the handler stays installed.
CancelSig(s) ==
  /\ ClientRuns /\ Contains(sigtab[Signum[s]], s)
  /\ sigtab' = [sigtab EXCEPT ![Signum[s]] = l_rem(@, s)]
  /\ lost' = (s = nx)
  /\ UNCHANGED <<timers, ttl, treg, batch, iolist, fdset, maxfd, caught, signalVars,
                 walkVars, done, elapsed, left, asked>>

\* ue_sig_clear.
ClearSignals ==
  /\ ClientRuns /\ sset # {}
  /\ sset' = {} /\ smax' = -1
  /\ UNCHANGED <<clientVars, intr, walkVars, done, elapsed, left, asked, lost>>

\* ue_stop.
Stop ==
  /\ ClientRuns
  /\ done' = TRUE
  /\ UNCHANGED <<clientVars, signalVars, walkVars, elapsed, left, asked, lost>>

\* ue_handler, at any moment.
Signal(n) ==
  /\ n \in caught
  /\ sset' = sset \cup {n}
  /\ smax' = Max({smax, n})
  /\ intr' = (pass = "wait")
  /\ UNCHANGED <<clientVars, walkVars, done, elapsed, left, asked, lost>>

-----------------------------------------------------------------------------
(* ue_next. *)

\* Time passes.
Tick ==
  /\ ~lost
  /\ IF Counting THEN elapsed < MaxElapse ELSE \E t \in Timer : left[t] > 0
  /\ left'    = [t \in Timer |-> Max({0, left[t] - 1})]
  /\ elapsed' = IF Counting THEN elapsed + 1 ELSE elapsed
  /\ UNCHANGED <<clientVars, signalVars, walkVars, done, asked, lost>>

\* Fault: a timer due at once sets no timeout.
EnterWaitsOnZero ==
  /\ pass = "idle" /\ ~done /\ ~lost
  /\ timers # << >> \/ maxfd >= 0
  /\ pass'  = "wait"
  /\ rset'  = fdset
  /\ timed' = (dl_first(timers, ttl) > 0)
  /\ eintr' = FALSE /\ elapsed' = 0 /\ intr' = FALSE /\ ran' = {}
  /\ UNCHANGED <<clientVars, sset, smax, done, fired, nx, run, left, asked, lost>>

\* The loop of ue_run calls ue_next, which goes to sleep in select.
Enter ==
  /\ pass = "idle" /\ ~done /\ ~lost
  /\ timers # << >> \/ maxfd >= 0
  /\ pass'  = "wait"
  /\ rset'  = fdset
  /\ timed' = (dl_first(timers, ttl) >= 0)
  /\ eintr' = FALSE /\ elapsed' = 0 /\ intr' = FALSE /\ ran' = {}
  /\ UNCHANGED <<clientVars, sset, smax, done, fired, nx, run, left, asked, lost>>

\* What select looks at, and what it finds ready without waiting.
Watched == { k \in rset : k[2] <= maxfd }

Wake(r, e) ==
  /\ pass' = "woken" /\ rset' = r /\ eintr' = e /\ intr' = FALSE
  /\ UNCHANGED <<clientVars, sset, smax, done, timed, fired, nx, run, elapsed, left,
                 asked, ran, lost>>

WakeReady ==
  /\ pass = "wait"
  /\ \E r \in SUBSET Watched : r # {} /\ Hot \cap Watched \subseteq r /\ Wake(r, FALSE)

WakeTimeout ==
  /\ pass = "wait" /\ timed /\ elapsed >= dl_first(timers, ttl)
  /\ Hot \cap Watched = {}
  /\ Wake({}, FALSE)

WakeInterrupted ==
  /\ pass = "wait" /\ intr
  /\ Hot \cap Watched = {}
  /\ Wake(rset, TRUE)

\* Fault: signals up to the first one only.
TakeLowest ==
  /\ pass = "woken"
  /\ pass'  = "sig"
  /\ smax'  = -1
  /\ fired' = { n \in sset : smax >= 0 /\ \A m \in sset : n <= m }
  /\ UNCHANGED <<clientVars, sset, intr, done, rset, timed, eintr, nx, run,
                 elapsed, left, asked, ran, lost>>

\* The signals that arrived, copied with all of them blocked.  uemux_sset is not
\* emptied: a signal in it runs again with any later one of a higher number.
TakeSignals ==
  /\ pass = "woken"
  /\ pass'  = "sig"
  /\ smax'  = -1
  /\ fired' = { n \in sset : n <= smax }
  /\ UNCHANGED <<clientVars, sset, intr, done, rset, timed, eintr, nx, run,
                 elapsed, left, asked, ran, lost>>

HeadOf(list) == IF list = << >> THEN End ELSE Head(list)

\* The node behind e; one that is on no list links to itself.
After(list, e) ==
  IF ~Contains(list, e) THEN e
  ELSE IF e = Last(list) THEN End ELSE list[PosOf(list, e) + 1]

\* Between two callbacks of a pass.
Walking(p) == pass = p /\ run = None /\ ~lost
AtEnd(p)   == Walking(p) /\ nx = End

Runs(e) == run' = e /\ ran' = ran \cup {e}
Skips   == UNCHANGED <<run, ran>>

\* run_sig_handlers turns to the next signal.
NextSignal ==
  /\ AtEnd("sig") /\ fired # {} /\ ~done
  /\ LET n == Min(fired) IN fired' = fired \ {n} /\ nx' = HeadOf(sigtab[n])
  /\ UNCHANGED <<clientVars, signalVars, done, pass, rset, timed, eintr, run, elapsed,
                 left, asked, ran, lost>>

\* cb_run calls the next event of the signal.
VisitSig ==
  /\ Walking("sig") /\ nx # End
  /\ nx' = After(sigtab[Signum[nx]], nx)
  /\ Runs(nx)
  /\ UNCHANGED <<clientVars, signalVars, done, pass, rset, timed, eintr, fired,
                 elapsed, left, asked, lost>>

\* After the signals: an interrupted select ends ue_next there.  Otherwise the
\* timers advance by the time that has passed and the expired ones are run; with
\* no timer at the start, the descriptors come at once.
EndSignals ==
  /\ AtEnd("sig") /\ (fired = {} \/ done)
  /\ fired' = {}
  /\ IF eintr THEN pass' = "idle" /\ UNCHANGED <<timers, ttl, batch, nx>>
     ELSE IF timed
     THEN LET r == dl_adv(timers, ttl, elapsed) IN
          /\ timers' = r.list /\ ttl' = r.ttl /\ batch' = r.out
          /\ pass' = "tm" /\ nx' = HeadOf(r.out)
     ELSE pass' = "io" /\ nx' = HeadOf(iolist) /\ UNCHANGED <<timers, ttl, batch>>
  /\ UNCHANGED <<treg, iolist, fdset, maxfd, sigtab, caught, signalVars, done, rset,
                 timed, eintr, run, elapsed, left, asked, ran, lost>>

\* Fault: a periodic timer keeps what is left of its last wait.
VisitKeepsTtl ==
  /\ Walking("tm") /\ nx # End
  /\ nx' = After(batch, nx)
  /\ IF done THEN Skips /\ UNCHANGED <<timers, ttl, batch, left, asked>>
     ELSE /\ batch' = l_rem(batch, nx)
          /\ Runs(nx)
          /\ IF nx \in Periodic
             THEN LET r == dl_ins(timers, ttl, nx) IN
                  /\ timers' = r.list /\ ttl' = r.ttl
                  /\ left'  = [left EXCEPT ![nx] = Orig[nx]]
                  /\ asked' = [asked EXCEPT ![nx] = "once"]
             ELSE UNCHANGED <<timers, ttl, left, asked>>
  /\ UNCHANGED <<treg, iolist, fdset, maxfd, sigtab, caught, signalVars, done, pass,
                 rset, timed, eintr, fired, elapsed, lost>>

\* tdispatch: after ue_stop the expired timers stay where they are.
VisitTimer ==
  /\ Walking("tm") /\ nx # End
  /\ nx' = After(batch, nx)
  /\ IF done THEN Skips /\ UNCHANGED <<timers, ttl, batch, left, asked>>
     ELSE /\ batch' = l_rem(batch, nx)
          /\ Runs(nx)
          /\ IF nx \in Periodic
             THEN LET r == dl_ins(timers, dl_init(ttl, nx, Orig[nx]), nx) IN
                  /\ timers' = r.list /\ ttl' = r.ttl
                  /\ left'  = [left EXCEPT ![nx] = Orig[nx]]
                  /\ asked' = [asked EXCEPT ![nx] = "once"]
             ELSE UNCHANGED <<timers, ttl, left, asked>>
  /\ UNCHANGED <<treg, iolist, fdset, maxfd, sigtab, caught, signalVars, done, pass,
                 rset, timed, eintr, fired, elapsed, lost>>

EndTimers ==
  /\ AtEnd("tm")
  /\ pass' = "io" /\ nx' = HeadOf(iolist)
  /\ UNCHANGED <<clientVars, signalVars, done, rset, timed, eintr, fired, run, elapsed,
                 left, asked, ran, lost>>

\* Fault: ue_stop is not looked at.
VisitIoAnyway ==
  /\ Walking("io") /\ nx # End
  /\ nx' = After(iolist, nx)
  /\ IF Key[nx] \in rset THEN Runs(nx) ELSE Skips
  /\ UNCHANGED <<clientVars, signalVars, done, pass, rset, timed, eintr, fired,
                 elapsed, left, asked, lost>>

\* iorun.
VisitIo ==
  /\ Walking("io") /\ nx # End
  /\ nx' = After(iolist, nx)
  /\ IF ~done /\ Key[nx] \in rset THEN Runs(nx) ELSE Skips
  /\ UNCHANGED <<clientVars, signalVars, done, pass, rset, timed, eintr, fired,
                 elapsed, left, asked, lost>>

EndIo ==
  /\ AtEnd("io")
  /\ pass' = "idle" /\ rset' = {} /\ ran' = {}
  /\ UNCHANGED <<clientVars, signalVars, done, timed, eintr, fired, nx, run, elapsed,
                 left, asked, lost>>

\* Fault: the walk goes on from the node it has just run.
ReturnReadsLate ==
  /\ run # None /\ ~lost
  /\ run' = None
  /\ nx' = IF pass = "io" THEN After(iolist, run) ELSE nx
  /\ UNCHANGED <<clientVars, signalVars, done, pass, rset, timed, eintr, fired,
                 elapsed, left, asked, ran, lost>>

\* The callback returns; cb_run stops at one that returns nonzero.
Return ==
  /\ run # None /\ ~lost
  /\ run' = None
  /\ nx' \in IF pass = "sig" THEN {nx, End} ELSE {nx}
  /\ UNCHANGED <<clientVars, signalVars, done, pass, rset, timed, eintr, fired,
                 elapsed, left, asked, ran, lost>>

Step ==
  \/ Enter \/ WakeReady \/ WakeTimeout \/ WakeInterrupted \/ TakeSignals
  \/ NextSignal \/ VisitSig \/ EndSignals
  \/ VisitTimer \/ EndTimers
  \/ VisitIo \/ EndIo
  \/ Return

Client ==
  \/ \E t \in Timer : InitTimer(t) \/ RegTimer(t) \/ CancelTimer(t)
  \/ \E i \in Io : RegIo(i) \/ CancelIo(i)
  \/ \E s \in Sig : RegSig(s) \/ CancelSig(s)
  \/ ClearSignals
  \/ Stop

Next == Step \/ Client \/ Tick \/ \E n \in caught : Signal(n)

Spec == Init /\ [][Next]_vars

\* ue_run calls ue_next again and again, ue_next and the callbacks come to an end,
\* and the clock runs: also over many calls that each take next to no time.
FairSpec ==
  Spec /\ WF_vars(Step) /\ WF_vars(Return) /\ WF_vars(Tick) /\ SF_vars(Tick /\ Counting)

-----------------------------------------------------------------------------
(* Properties.  Those about the walks hold until a callback cancels an event in  *)
(* a way the walk does not survive (lost).                                       *)

Events == Timer \cup Io \cup Sig

\* Every list holds each event once and no timer is on two lists.
TypeOK ==
  /\ \A l \in {timers \o batch, iolist} \cup { sigtab[n] : n \in DOMAIN sigtab } :
       \A i, j \in DOMAIN l : l[i] = l[j] => i = j
  /\ ToSet(timers) \cup ToSet(batch) \subseteq Timer /\ ToSet(iolist) \subseteq Io
  /\ \A n \in DOMAIN sigtab : \A s \in ToSet(sigtab[n]) : Signum[s] = n
  /\ ttl \in [Timer -> Nat] /\ left \in [Timer -> Nat]
  /\ asked \in [Timer -> {"init", "once", "again"}]
  /\ pass \in {"idle", "wait", "woken", "sig", "tm", "io"}
  /\ run \in Events \cup {None} /\ nx \in Events \cup {End}
  /\ pass = "idle" => run = None /\ nx = End

\* A descriptor is in a set that select is given exactly as long as some event
\* waits for it: with two events on one descriptor, cancelling one leaves the other.
SetsExact == fdset = { Key[i] : i \in ToSet(iolist) }

\* No descriptor somebody waits for is beyond the range given to select.
MaxFdCovers == \A i \in ToSet(iolist) : Key[i][2] <= maxfd

\* The event whose callback starts in this step.
Starts(e) == run = None /\ run' = e /\ e # None

\* No timer runs before the time it was asked to wait has passed, whatever other
\* timers were put before it, expired or were cancelled in front of it.  Promised of a
\* timer that ue_tm_init prepared for this registration, or that ue_next put back; one
\* that is registered a second time as it is, or by a signal's callback, may run early.
NotEarly == [][\A t \in Timer : Starts(t) => left[t] = 0 \/ asked[t] = "again"]_vars

\* An event that was cancelled does not run until it is registered again, be it
\* expired, ready or signalled already: its owner may have freed what it uses.
CancelledStaysQuiet ==
  [][\A e \in Events : Starts(e) =>
       e \in treg \cup ToSet(iolist) \cup UNION { ToSet(sigtab[n]) : n \in DOMAIN sigtab }]_vars

\* One call of ue_next runs an event once, even if its callback registers it anew.
OncePerPass == [][\A e \in Events : Starts(e) => e \notin ran]_vars

\* After ue_stop no further callback starts, except those of the signal that is
\* being handled.
StopStops ==
  [][\A e \in Events : done /\ Starts(e) =>
       e \in Sig /\ \E s \in ran \cap Sig : Signum[s] = Signum[e]]_vars

\* Once the signals are taken, ue_next comes back: no walk goes on for ever.
PassEnds == pass \in {"woken", "sig", "tm", "io"} ~> pass = "idle" \/ lost

\* A timer on the list runs, unless it is cancelled or the multiplexer stopped.  Only
\* if signals stop interrupting select at some time, whatever else they do: ue_next
\* forgets the time that passed in a wait that a signal cut short, so one that comes
\* back faster than the first timer is due holds up all of them for ever.
TimerFires ==
  <>[]~eintr =>
    \A t \in Timer :
      t \in ToSet(timers) ~> run = t \/ t \notin ToSet(timers \o batch) \/ done \/ lost

\* An event on a descriptor that stays ready runs, unless it is cancelled, the
\* multiplexer stopped, or the descriptor falls out of the range of select.
IoServed ==
  \A i \in Io : Key[i] \in Hot =>
    (i \in ToSet(iolist) ~> run = i \/ ~Contains(iolist, i) \/ done \/ lost \/ Key[i][2] > maxfd)

\* A signal that arrives is handled, as long as some timer ends the wait in select
\* and ue_sig_clear does not drop it.
SigHandled ==
  \A n \in { Signum[s] : s \in Sig } :
    n \in sset /\ n <= smax ~>
      \/ run \in ToSet(sigtab[n]) \/ sigtab[n] = << >>
      \/ timers \o batch = << >> \/ n \notin sset \/ done \/ lost
=============================================================================
