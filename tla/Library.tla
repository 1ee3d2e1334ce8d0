------------------------------- MODULE Library -------------------------------
(***************************************************************************)
(* The library's passive part and one client, which uses one map (StdMaps) *)
(* or one other object (StdObjs), or a shell's variables (Shell), or asks  *)
(* one question of an algorithm (Algs).  They share their variables: the   *)
(* domain of kind tells whose they are.                                    *)
(***************************************************************************)
EXTENDS Integers, FiniteSets

CONSTANTS \* StdMaps
          MapKinds, Keys, Node, NodeKey, Twin, Twins, Values, HashOf, Nbkts,
          \* StdObjs
          ObjKinds, Elem, HeapElem, HeadA, HeadB, Cell, ElemKey, HeapKey, Slots, First, SizeMax, MinGrow, Bits,
          Vertex, Edge, InitLen, Chunk, Piece, MaxRing, NbitsA, NbitsB, IntMax,
          \* Shell
          MaxVars, MaxName, MaxArgs, DigitAs, Names, Lines,
          \* Algs
          Thresh, Many, MaxDepth, Letters, Number, StrMax, NMatch,
          Quote, Comma, Newline, ReadError, Options, Digits, Arrays, MaxPermuted,
          Texts, Patterns, RexPatterns, RexTexts, CsvTexts, CsvSizes, CommandLines,
          Paths, PathSizes, AddrGroups, Codes, ByteStrings, TextSizes

(* Addresses are distinct from NULL and from those of roots, buckets and   *)
(* the library's own list heads; arrays and tables have a first place.     *)
ASSUME LibraryAssumption ==
    /\ Node \subseteq Nat \ {0} /\ NodeKey \in [Node -> DOMAIN HashOf]
    /\ \A n \in Node : NodeKey[n] \in Int
    /\ Elem \cup {HeadA, HeadB} \subseteq Cell /\ Cell \subseteq Nat \ {0}
    /\ {Nbkts, Slots, First, Bits, InitLen, Thresh, StrMax} \subseteq Nat \ {0}
    /\ {SizeMax, MinGrow, IntMax, NMatch} \subseteq Nat
    /\ Many \in Nat /\ Many >= 9 /\ MaxDepth \in Nat /\ MaxDepth > 3
    /\ Cardinality({Quote, Comma, Newline, ReadError}) = 4

VARIABLES kind, s, want
vars == <<kind, s, want>>

Maps == INSTANCE StdMaps WITH Kinds <- MapKinds, KeyOf <- NodeKey
Objs == INSTANCE StdObjs WITH KeyOf <- ElemKey, PriorityOf <- HeapKey
Sh   == INSTANCE Shell
Algo == INSTANCE Algs

Is(part) == part \in DOMAIN kind

Init == Maps!Init \/ Objs!Init \/ Sh!Init \/ Algo!Init

UseMap   == Is("map") /\ Maps!Next
UseObj   == Is("obj") /\ Objs!Next
UseShell == Is("sh") /\ Sh!Next
UseAlgo  == Is("alg") /\ Algo!Next

Next == UseMap \/ UseObj \/ UseShell \/ UseAlgo

Spec == Init /\ [][Next]_vars

--------------------------------------------------------------------------

(* Links, orders, balances, counts and lengths the code relies on hold     *)
(* after every call: StdMaps, StdObjs, Shell.                              *)
MapSound == Is("map") => Maps!MapSound
ObjSound == /\ Is("obj") => Objs!ObjSound
            /\ Is("sh")  => Sh!ShellSound

(* What comes out of a map, list, heap, ring, buffer, graph or variable is *)
(* what was put in, after any sequence of calls, some of them without      *)
(* memory.                                                                 *)
MapFaithful == Is("map") => Maps!MapFaithful
ObjFaithful == /\ Is("obj") => Objs!ObjFaithful
               /\ Is("sh")  => Sh!ShellFaithful

(* What is allocated is what the object holds, and nothing when it is      *)
(* freed, whichever malloc failed.                                         *)
MapMemory == Is("map") => Maps!MapMemory
ObjMemory == /\ Is("obj") => Objs!ObjMemory
             /\ Is("sh")  => Sh!ShellMemory

(* Sorts, searches and readers agree with what they are to compute.        *)
SortTrue  == Is("alg") => Algo!SortTrue
MatchTrue == Is("alg") => Algo!MatchTrue
ParseTrue == Is("alg") => Algo!ParseTrue

(* An AVL node's balance tells which of its subtrees is higher, after an   *)
(* insert that replaces a node too.                                        *)
BalanceTrue == Is("map") => Maps!BalanceTrue

(* The walk over an AVL or a red-black tree is in order of its keys.       *)
AppliesInOrder == Is("map") => Maps!AppliesInOrder

(* dyb_set_a allocates what it needs.                                      *)
BufferPromises == Is("obj") => Objs!BufferPromises

(* optparse_next refuses a long option that there is not.                  *)
UnknownRefused == Is("alg") => Algo!UnknownRefused
==============================================================================
