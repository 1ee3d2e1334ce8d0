------------------------------ MODULE TimerSet ------------------------------
(***************************************************************************)
(* What a timer queue promises: a set of timers with the time left to each *)
(* one, from which the expired ones come out, earliest first.              *)
(***************************************************************************)
EXTENDS Integers, Sequences

CONSTANTS
  Timer,   \* the timers
  Time     \* the times that can be left to one, and that can pass

VARIABLES
  left,   \* timer -> the time left, for the timers in the set
  out     \* the timers the last step took out because they expired, in order

vars == <<left, out>>

Init == left = << >> /\ out = << >>

Without(f, S) == [n \in DOMAIN f \ S |-> f[n]]

\* n joins the set with v left, or is given that time if it is in the set.
Put(n, v) ==
  /\ left' = [m \in DOMAIN left \cup {n} |-> IF m = n THEN v ELSE left[m]]
  /\ out' = << >>

Drop(n) ==
  /\ left' = Without(left, {n})
  /\ out' = << >>

\* d passes: exactly the timers with no more than d left expire, in the order of
\* their expiry.
Advance(d) ==
  LET gone == { n \in DOMAIN left : left[n] <= d } IN
  /\ left' = [n \in DOMAIN left \ gone |-> left[n] - d]
  /\ { out'[i] : i \in DOMAIN out' } = gone
  /\ \A i, j \in DOMAIN out' : i < j => /\ out'[i] # out'[j]
                                        /\ left[out'[i]] <= left[out'[j]]

\* The earliest timer comes out alone, as if its time had come.
TakeFirst ==
  \E n \in DOMAIN left :
    /\ \A m \in DOMAIN left : left[n] <= left[m]
    /\ left' = [m \in DOMAIN left \ {n} |-> left[m] - left[n]]
    /\ out' = << n >>

Next ==
  \/ \E n \in Timer, v \in Time : Put(n, v)
  \/ \E n \in Timer : Drop(n)
  \/ \E d \in Time : Advance(d)
  \/ TakeFirst

Spec == Init /\ [][Next]_vars
=============================================================================
