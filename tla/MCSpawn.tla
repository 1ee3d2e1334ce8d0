------------------------------ MODULE MCSpawn ------------------------------
(***************************************************************************)
(* Spawn with up to three entries: two descriptors that change places with *)
(* a third one in the way, from a client that has its standard descriptors *)
(* or only the last of them.                                               *)
(***************************************************************************)
EXTENDS Spawn

MCOpens == {{0, 1, 2}, {2}}
MCPipes == {<< "in", TRUE >>, << "out", FALSE >>}
=============================================================================
