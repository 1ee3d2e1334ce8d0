---------------------------- MODULE MCTimerQueue ----------------------------
(***************************************************************************)
(* TimerQueue with three nodes.  Times up to 3 let a node expire before,   *)
(* with and after another one, and between two others.                     *)
(***************************************************************************)
EXTENDS TimerQueue, TLC

MCTtl == -1 .. 3
MCDelta == 0 .. 4
MCSymmetry == Permutations(Node)
=============================================================================
