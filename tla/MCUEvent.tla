------------------------------ MODULE MCUEvent ------------------------------
(***************************************************************************)
(* UEvent for TLC: a periodic and a one-shot timer of different length;    *)
(* two events for one descriptor and condition, and one on another         *)
(* descriptor; signals of two numbers, two events on the lower.            *)
(***************************************************************************)
EXTENDS UEvent, TLC

CONSTANTS t1, t2, i1, i2, i3, s1, s2, s3

MCOrig     == [t \in Timer |-> IF t = t1 THEN 1 ELSE 2]
MCNow      == [t \in Timer |-> 0]
MCPeriodic == {t1} \cap Timer
MCKey      == [i \in Io |-> << "rd", IF i = i3 THEN 1 ELSE 0 >>]
MCHot      == { << "rd", 0 >> }
MCSignum   == [s \in Sig |-> IF s = s3 THEN 14 ELSE 2]
=============================================================================
