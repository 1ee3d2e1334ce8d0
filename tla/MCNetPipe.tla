----------------------------- MODULE MCNetPipe -----------------------------
(***************************************************************************)
(* NetPipe with rings of three bytes: one stream is longer than a ring and *)
(* wraps, the other comes while the first is full or empty.                *)
(***************************************************************************)
EXTENDS NetPipe

MCTotal == [d \in Dir |-> IF d = "c2s" THEN 5 ELSE 2]
=============================================================================
