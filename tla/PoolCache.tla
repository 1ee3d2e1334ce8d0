------------------------------ MODULE PoolCache ------------------------------
(***************************************************************************)
(* The cache of equal-sized items of src/pcache.c, with the pools of       *)
(* include/cat/pool.h: items are carved out of pages, and a page is on the *)
(* list that tells how many of its items are free.  Which page of a list   *)
(* and which item of a page comes first is left open.                      *)
(***************************************************************************)
EXTENDS Integers, FiniteSets

CONSTANTS
  Page,       \* the pages there are
  Slot,       \* the items of a page
  MaxPools,   \* pc->maxpools; -1 where pc_init makes zero into ~0, no limit
  Hiwat,      \* pc->hiwat
  HasMM,      \* pc->mm is not NULL
  MaxFreed    \* bound: how many pages pc_freeall frees

\* pc_addpg aborts on a page too small for one item.
ASSUME CacheAssumption ==
  /\ IsFiniteSet(Page)
  /\ IsFiniteSet(Slot) /\ Slot # {}
  /\ MaxPools \in Int /\ Hiwat \in Nat /\ HasMM \in BOOLEAN
  /\ MaxFreed \in Nat

VARIABLES
  avail, empty, full,   \* the lists: some items free (or a fresh page), none, all
  items,                \* page -> the free items on the list of its pool
  fill,                 \* page -> the fill field of its pool
  npools,               \* pc->npools
  held,                 \* the << page, item >> clients hold
  uncounted             \* how many pages pc_freeall has freed

vars == <<avail, empty, full, items, fill, npools, held, uncounted>>

max   == Cardinality(Slot)
pages == avail \cup empty \cup full

Init ==
  /\ avail = {} /\ empty = {} /\ full = {}
  /\ items = [p \in Page |-> {}] /\ fill = [p \in Page |-> 0]
  /\ npools = 0 /\ held = {} /\ uncounted = 0

\* pc_addpg by a client: all items free, on the list of pages to serve from.
AddPage(p) ==
  /\ p \notin pages
  /\ avail'  = avail \cup {p}
  /\ items'  = [items EXCEPT ![p] = Slot]
  /\ fill'   = [fill EXCEPT ![p] = max]
  /\ npools' = npools + 1
  /\ UNCHANGED <<empty, full, held, uncounted>>

\* Fault: a page whose last item goes stays where it is.
TakeKeepsList(p, s, free, n) ==
  /\ s \in free
  /\ avail' = avail \cup {p}
  /\ UNCHANGED empty
  /\ full'  = full \ {p}
  /\ items' = [items EXCEPT ![p] = free \ {s}]
  /\ fill'  = [fill EXCEPT ![p] = n - 1]
  /\ held'  = held \cup {<< p, s >>}
  /\ UNCHANGED uncounted

\* Fault: the item is handed out and stays on the list of the free ones.
TakeKeepsItem(p, s, free, n) ==
  /\ s \in free
  /\ avail' = IF n = 1 THEN avail \ {p} ELSE avail \cup {p}
  /\ empty' = IF n = 1 THEN empty \cup {p} ELSE empty
  /\ full'  = full \ {p}
  /\ items' = [items EXCEPT ![p] = free]
  /\ fill'  = [fill EXCEPT ![p] = n - 1]
  /\ held'  = held \cup {<< p, s >>}
  /\ UNCHANGED uncounted

\* The tail of pc_alloc: item s of page p, which has the n free items free.
Take(p, s, free, n) ==
  /\ s \in free
  /\ avail' = IF n = 1 THEN avail \ {p} ELSE avail \cup {p}
  /\ empty' = IF n = 1 THEN empty \cup {p} ELSE empty
  /\ full'  = full \ {p}
  /\ items' = [items EXCEPT ![p] = free \ {s}]
  /\ fill'  = [fill EXCEPT ![p] = n - 1]
  /\ held'  = held \cup {<< p, s >>}
  /\ UNCHANGED uncounted

\* pc_alloc from a page of the cache: a full one only when no other serves.
Alloc(p, s) ==
  /\ p \in IF avail # {} THEN avail ELSE full
  /\ Take(p, s, items[p], fill[p])
  /\ UNCHANGED npools

\* pc_alloc when no item is free: a page comes from the memory manager.  The limit
\* is tested for equality, so pages added by hand can carry npools past it.
AllocNewPage(p, s) ==
  /\ avail = {} /\ full = {} /\ HasMM /\ npools # MaxPools
  /\ p \notin pages
  /\ Take(p, s, Slot, max)
  /\ npools' = npools + 1

\* pc_alloc returns NULL.
Refused == avail = {} /\ full = {} /\ (~HasMM \/ npools = MaxPools)

\* Fault: the page of a freed item is still taken for one without.
FreeKeepsEmpty(p, s) ==
  /\ << p, s >> \in held
  /\ held'  = held \ {<< p, s >>}
  /\ items' = [items EXCEPT ![p] = @ \cup {s}]
  /\ fill'  = [fill EXCEPT ![p] = @ + 1]
  /\ UNCHANGED <<avail, empty, full, npools, uncounted>>

\* Fault: a page goes back to the memory manager and is still counted.
FreeKeepsCount(p, s) ==
  /\ << p, s >> \in held
  /\ held'  = held \ {<< p, s >>}
  /\ items' = [items EXCEPT ![p] = @ \cup {s}]
  /\ fill'  = [fill EXCEPT ![p] = @ + 1]
  /\ empty' = empty \ {p}
  /\ IF fill[p] + 1 < max
     THEN avail' = avail \cup {p} /\ full' = full
     ELSE /\ avail' = avail \ {p}
          /\ full'  = IF HasMM /\ Hiwat > 0 /\ npools > Hiwat THEN full ELSE full \cup {p}
  /\ UNCHANGED <<npools, uncounted>>

\* pc_free.  A page all of whose items are free is kept, or goes back to the memory
\* manager if there are more than hiwat pages.
Free(p, s) ==
  /\ << p, s >> \in held
  /\ held'  = held \ {<< p, s >>}
  /\ items' = [items EXCEPT ![p] = @ \cup {s}]
  /\ fill'  = [fill EXCEPT ![p] = @ + 1]
  /\ empty' = empty \ {p}
  /\ IF fill[p] + 1 < max
     THEN avail' = avail \cup {p} /\ UNCHANGED <<full, npools>>
     ELSE /\ avail' = avail \ {p}
          /\ IF HasMM /\ Hiwat > 0 /\ npools > Hiwat
             THEN npools' = npools - 1 /\ UNCHANGED full
             ELSE full' = full \cup {p} /\ UNCHANGED npools
  /\ UNCHANGED uncounted

\* pc_delpg of a page no client holds an item of.
DelPage(p) ==
  /\ p \in pages /\ \A s \in Slot : << p, s >> \notin held
  /\ avail' = avail \ {p} /\ empty' = empty \ {p} /\ full' = full \ {p}
  /\ npools' = npools - 1
  /\ UNCHANGED <<items, fill, held, uncounted>>

\* pc_freeall: the pages of two of the three lists go back to the memory manager;
\* npools stays.  It does not look whether clients still hold items of them: a client
\* calls it when it uses none of those any more, and from then on does not hold them.
FreeAll ==
  /\ HasMM /\ uncounted + Cardinality(avail \cup empty) <= MaxFreed
  /\ avail' = {} /\ empty' = {}
  /\ held' = { h \in held : h[1] \notin avail \cup empty }
  /\ uncounted' = uncounted + Cardinality(avail \cup empty)
  /\ UNCHANGED <<full, items, fill, npools>>

Next ==
  \/ \E p \in Page : AddPage(p) \/ DelPage(p)
  \/ \E p \in Page, s \in Slot : Alloc(p, s) \/ AllocNewPage(p, s) \/ Free(p, s)
  \/ FreeAll

Spec == Init /\ [][Next]_vars

-----------------------------------------------------------------------------
(* Properties. *)

TypeOK ==
  /\ avail \subseteq Page /\ empty \subseteq Page /\ full \subseteq Page
  /\ items \in [Page -> SUBSET Slot]
  /\ fill \in [Page -> Nat]
  /\ held \subseteq Page \X Slot
  /\ npools \in Nat /\ uncounted \in Nat

\* A page is on one list, the one its fill says: pc_alloc takes an item from the
\* first page of avail without looking, and pc_free finds a page by its fill.
ListsByFill ==
  /\ avail \cap empty = {} /\ avail \cap full = {} /\ empty \cap full = {}
  /\ \A p \in avail : fill[p] > 0
  /\ \A p \in empty : fill[p] = 0
  /\ \A p \in full  : fill[p] = max

\* The fill of a pool is the length of its list, whatever the order of calls.
FillExact == \A p \in pages : fill[p] = Cardinality(items[p])

\* An item is free or held by one client, never both, and pc_free and pc_alloc take
\* no page away under a client that holds an item of it.
ItemsOnce ==
  /\ \A h \in held : h[1] \in pages
  /\ \A p \in pages : items[p] = { s \in Slot : << p, s >> \notin held }

\* npools is the number of pages, and of those pc_freeall forgot to take off.
CountExact == npools = Cardinality(pages) + uncounted

\* pc_alloc gives up only when every item of every page is held.
RefusedOnlyWhenAllHeld == Refused => \A p \in pages, s \in Slot : << p, s >> \in held
=============================================================================
