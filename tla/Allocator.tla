------------------------------ MODULE Allocator ------------------------------
(***************************************************************************)
(* What a heap manager promises its callers (include/cat/dynmem.h): every  *)
(* pointer it returns owns a run of units inside the memory the manager    *)
(* was given, at least as long as the request, and no unit has two owners. *)
(* Nothing here says how free memory is found; Tlsf shows that its         *)
(* boundary tags and bins implement this specification.                    *)
(***************************************************************************)
EXTENDS Integers

VARIABLES
  arena,  \* the units handed to the manager by add_pool or add_mem_func
  held    \* caller pointer -> [lo, len, want]: its run, and what was asked

vars == <<arena, held>>

Run(r) == r.lo .. (r.lo + r.len - 1)

\* The run r is long enough, inside the arena, and clear of what others own.
Fits(r, others) ==
  /\ r.want <= r.len
  /\ Run(r) \subseteq arena'
  /\ \A p \in others : Run(held[p]) \cap Run(r) = {}

\* The owners become (owners \ out) \cup in; the others keep what they have.
Owners(out, in) ==
  /\ DOMAIN held' = (DOMAIN held \ out) \cup in
  /\ \A p \in DOMAIN held \ (out \cup in) : held'[p] = held[p]

Init == arena = {} /\ held = << >>

\* The manager is given more memory; it never hands any back.
Extend ==
  /\ arena \subseteq arena'
  /\ UNCHANGED held

\* A manager may extend its arena on the way to satisfying the request.
Alloc(q) ==
  /\ q \notin DOMAIN held
  /\ arena \subseteq arena'
  /\ Owners({}, {q})
  /\ Fits(held'[q], DOMAIN held)

Free(p) ==
  /\ p \in DOMAIN held
  /\ Owners({p}, {})
  /\ UNCHANGED arena

\* The block is resized where it is: only the other owners are in the way.
ResizeInPlace(p) ==
  /\ p \in DOMAIN held
  /\ Owners({}, {p})
  /\ held'[p].lo = held[p].lo
  /\ Fits(held'[p], DOMAIN held \ {p})
  /\ UNCHANGED arena

\* The block moves: old and new exist together while the data is copied.
Move(p, q) ==
  /\ p \in DOMAIN held /\ q \notin DOMAIN held
  /\ arena \subseteq arena'
  /\ Owners({p}, {q})
  /\ Fits(held'[q], DOMAIN held)

Next ==
  \/ Extend
  \/ \E q \in DOMAIN held' : Alloc(q)
  \/ \E p \in DOMAIN held : Free(p) \/ ResizeInPlace(p)
  \/ \E p \in DOMAIN held : \E q \in DOMAIN held' : Move(p, q)

Spec == Init /\ [][Next]_vars
=============================================================================
