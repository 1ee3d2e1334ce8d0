--------------------------- MODULE PoolCacheProofs ---------------------------
(***************************************************************************)
(* The invariants of PoolCache hold for any pages, items and limits.       *)
(* Inv is inductive: lists, fills and free items are only right together,  *)
(* since pc_alloc trusts the lists and pc_free trusts the fill.            *)
(***************************************************************************)
EXTENDS PoolCache, FiniteSetTheorems, TLAPS

Inv == TypeOK /\ ListsByFill /\ FillExact /\ ItemsOnce /\ CountExact

\* A page has at least one item, and the sizes of sets of its items are numbers
\* that one item more or less changes by one.
LEMMA SlotCount ==
  ASSUME NEW F \in SUBSET Slot
  PROVE  /\ max \in Nat /\ max > 0
         /\ Cardinality(F) \in Nat /\ Cardinality(F) <= max
         /\ Cardinality(F) = 0 <=> F = {}
         /\ \A s \in F : Cardinality(F \ {s}) = Cardinality(F) - 1
         /\ \A s \in Slot \ F : Cardinality(F \cup {s}) = Cardinality(F) + 1
<1>1. IsFiniteSet(Slot) /\ Slot # {}
  BY CacheAssumption
<1>2. max \in Nat /\ max # 0
  BY <1>1, FS_CardinalityType, FS_EmptySet DEF max
<1>3. IsFiniteSet(F) /\ Cardinality(F) <= max
  BY <1>1, FS_Subset DEF max
<1>4. Cardinality(F) \in Nat /\ (Cardinality(F) = 0 <=> F = {})
  BY <1>3, FS_CardinalityType, FS_EmptySet
<1>5. \A s \in F : Cardinality(F \ {s}) = Cardinality(F) - 1
  BY <1>3, FS_RemoveElement
<1>6. \A s \in Slot \ F : Cardinality(F \cup {s}) = Cardinality(F) + 1
  BY <1>3, FS_AddElement
<1> QED
  BY <1>2, <1>3, <1>4, <1>5, <1>6

\* The lists are finite sets of pages.
LEMMA PageCount ==
  ASSUME NEW P \in SUBSET Page
  PROVE  /\ IsFiniteSet(P) /\ Cardinality(P) \in Nat
         /\ \A p \in P : Cardinality(P \ {p}) = Cardinality(P) - 1
         /\ \A p \in Page \ P : Cardinality(P \cup {p}) = Cardinality(P) + 1
<1>1. IsFiniteSet(P)
  BY CacheAssumption, FS_Subset
<1> QED
  BY <1>1, FS_CardinalityType, FS_RemoveElement, FS_AddElement

\* Taking an item out of a page that has free ones, or out of a new page.
LEMMA TakeKeeps ==
  ASSUME Inv, NEW p \in Page, NEW s \in Slot, NEW free, NEW n,
         p \notin empty,
         free = { t \in Slot : << p, t >> \notin held },
         n = Cardinality(free),
         Take(p, s, free, n)
  PROVE  /\ avail' \subseteq Page /\ empty' \subseteq Page /\ full' \subseteq Page
         /\ items' \in [Page -> SUBSET Slot] /\ fill' \in [Page -> Nat]
         /\ held' \subseteq Page \X Slot /\ uncounted' \in Nat
         /\ ListsByFill' /\ FillExact' /\ ItemsOnce'
         /\ pages' = pages \cup {p}
<1> USE DEF Inv, TypeOK
<1>1. free \in SUBSET Slot /\ s \in free
  BY DEF Take
<1>2. /\ n \in Nat /\ n > 0
      /\ Cardinality(free \ {s}) = n - 1
  <2>1. \A F \in SUBSET Slot :
          /\ Cardinality(F) \in Nat /\ (Cardinality(F) = 0 <=> F = {})
          /\ \A t \in F : Cardinality(F \ {t}) = Cardinality(F) - 1
    BY SlotCount
  <2>2. /\ Cardinality(free) \in Nat /\ Cardinality(free) # 0
        /\ Cardinality(free \ {s}) = Cardinality(free) - 1
    BY <1>1, <2>1
  <2> QED
    BY <2>2
<1>3. /\ avail' \subseteq Page /\ empty' \subseteq Page /\ full' \subseteq Page
      /\ held' \subseteq Page \X Slot /\ uncounted' \in Nat
  BY <1>1 DEF Take
<1>4. /\ items' \in [Page -> SUBSET Slot] /\ items'[p] = free \ {s}
      /\ \A q \in Page \ {p} : items'[q] = items[q]
  BY <1>1 DEF Take
<1>5. /\ fill' \in [Page -> Nat] /\ fill'[p] = n - 1
      /\ \A q \in Page \ {p} : fill'[q] = fill[q]
  BY <1>2 DEF Take
<1>6. pages' = pages \cup {p}
  BY DEF Take, pages
<1>7. ListsByFill'
  <2>1. /\ avail' \cap empty' = {} /\ avail' \cap full' = {} /\ empty' \cap full' = {}
    BY DEF Take, ListsByFill
  <2>2. \A q \in avail' : fill'[q] > 0
    BY <1>2, <1>3, <1>5 DEF Take, ListsByFill
  <2>3. \A q \in empty' : fill'[q] = 0
    BY <1>2, <1>3, <1>5 DEF Take, ListsByFill
  <2>4. \A q \in full' : fill'[q] = max
    BY <1>3, <1>5 DEF Take, ListsByFill
  <2> QED
    BY <2>1, <2>2, <2>3, <2>4 DEF ListsByFill, max
<1>8. FillExact'
  BY <1>2, <1>3, <1>4, <1>5, <1>6 DEF FillExact, pages
<1>9. ItemsOnce'
  <2>1. held' = held \cup {<< p, s >>}
    BY DEF Take
  <2>2. \A h \in held' : h[1] \in pages'
    BY <2>1, <1>6 DEF ItemsOnce
  <2>3. items'[p] = { t \in Slot : << p, t >> \notin held' }
    BY <2>1, <1>4
  <2>4. \A q \in pages' \ {p} : items'[q] = { t \in Slot : << q, t >> \notin held' }
    BY <2>1, <1>3, <1>4, <1>6 DEF ItemsOnce, pages
  <2> QED
    BY <2>2, <2>3, <2>4 DEF ItemsOnce
<1> QED
  BY <1>3, <1>4, <1>5, <1>6, <1>7, <1>8, <1>9

\* A page the client adds.
LEMMA AddPageKeeps ==
  ASSUME Inv, NEW p \in Page, AddPage(p)
  PROVE  Inv'
<1> USE DEF Inv, TypeOK, AddPage
<1>1. max \in Nat /\ max > 0 /\ max = Cardinality(Slot)
  BY SlotCount DEF max
<1>2. pages \subseteq Page /\ p \in Page \ pages
  BY DEF pages
<1>3. pages' = pages \cup {p}
  BY DEF pages
<1>4. TypeOK'
  BY <1>1
<1>5. /\ items'[p] = Slot /\ fill'[p] = max
      /\ \A q \in pages : items'[q] = items[q] /\ fill'[q] = fill[q]
  BY <1>1, <1>2
<1>6. ListsByFill'
  BY <1>1, <1>5 DEF ListsByFill, pages, max
<1>7. FillExact'
  BY <1>1, <1>3, <1>5 DEF FillExact
<1>8. ItemsOnce'
  BY <1>2, <1>3, <1>5 DEF ItemsOnce
<1>9. CountExact'
  BY <1>2, <1>3, PageCount DEF CountExact
<1> QED
  BY <1>4, <1>6, <1>7, <1>8, <1>9

\* An item taken from a page of the cache.
LEMMA AllocKeeps ==
  ASSUME Inv, NEW p \in Page, NEW s \in Slot, Alloc(p, s)
  PROVE  Inv'
<1>1. p \in pages /\ p \notin empty /\ Take(p, s, items[p], fill[p])
  BY DEF Inv, ListsByFill, Alloc, pages
<1>2. /\ items[p] = { t \in Slot : << p, t >> \notin held }
      /\ fill[p] = Cardinality(items[p])
  BY <1>1 DEF Inv, ItemsOnce, FillExact
<1>3. npools' = npools /\ uncounted' = uncounted /\ pages \cup {p} = pages
  BY <1>1 DEF Alloc, Take
<1> QED
  BY <1>1, <1>2, <1>3, TakeKeeps DEF Inv, TypeOK, CountExact

\* An item taken from a page the memory manager gave.
LEMMA AllocNewPageKeeps ==
  ASSUME Inv, NEW p \in Page, NEW s \in Slot, AllocNewPage(p, s)
  PROVE  Inv'
<1>1. pages \subseteq Page /\ p \in Page \ pages /\ Take(p, s, Slot, max)
  BY DEF Inv, TypeOK, AllocNewPage, pages
<1>2. Slot = { t \in Slot : << p, t >> \notin held }
  BY <1>1 DEF Inv, ItemsOnce
<1>3. /\ npools' = npools + 1 /\ uncounted' = uncounted
      /\ Cardinality(pages \cup {p}) = Cardinality(pages) + 1
      /\ Cardinality(pages) \in Nat
  BY <1>1, PageCount DEF AllocNewPage, Take
<1>4. p \notin empty /\ max = Cardinality(Slot)
  BY <1>1 DEF pages, max
<1>5. /\ avail' \subseteq Page /\ empty' \subseteq Page /\ full' \subseteq Page
      /\ items' \in [Page -> SUBSET Slot] /\ fill' \in [Page -> Nat]
      /\ held' \subseteq Page \X Slot /\ uncounted' \in Nat
      /\ ListsByFill' /\ FillExact' /\ ItemsOnce'
      /\ pages' = pages \cup {p}
  BY <1>1, <1>2, <1>4, TakeKeeps
<1>6. npools' \in Nat /\ CountExact'
  BY <1>3, <1>5 DEF Inv, TypeOK, CountExact
<1> QED
  BY <1>5, <1>6 DEF Inv, TypeOK

\* An item comes back, and its page may leave the cache.
LEMMA FreeKeeps ==
  ASSUME Inv, NEW p \in Page, NEW s \in Slot, Free(p, s)
  PROVE  Inv'
<1> USE DEF Inv, TypeOK
<1>1. p \in pages /\ pages \subseteq Page
  BY DEF Free, ItemsOnce, pages
<1>2. /\ items[p] \in SUBSET Slot /\ s \in Slot \ items[p]
      /\ fill[p] = Cardinality(items[p])
  BY <1>1 DEF Free, ItemsOnce, FillExact
<1>3. /\ fill[p] \in Nat /\ fill[p] + 1 <= max /\ max \in Nat
      /\ Cardinality(items[p] \cup {s}) = fill[p] + 1
  <2>1. items[p] \cup {s} \in SUBSET Slot
    BY <1>2
  <2>2. \A F \in SUBSET Slot :
          /\ max \in Nat /\ Cardinality(F) <= max
          /\ \A t \in Slot \ F : Cardinality(F \cup {t}) = Cardinality(F) + 1
    BY SlotCount
  <2>3. Cardinality(items[p] \cup {s}) = Cardinality(items[p]) + 1
    BY <1>2, <2>2
  <2>4. Cardinality(items[p] \cup {s}) <= max
    BY <2>1, <2>2
  <2> QED
    BY <1>2, <2>2, <2>3, <2>4
<1>4. /\ items' \in [Page -> SUBSET Slot] /\ items'[p] = items[p] \cup {s}
      /\ \A q \in Page \ {p} : items'[q] = items[q]
  BY <1>2 DEF Free
<1>5. /\ fill' \in [Page -> Nat] /\ fill'[p] = fill[p] + 1
      /\ \A q \in Page \ {p} : fill'[q] = fill[q]
  BY <1>3 DEF Free
<1>6. /\ held' = held \ {<< p, s >>} /\ held' \subseteq Page \X Slot
      /\ uncounted' = uncounted /\ empty' = empty \ {p}
  BY DEF Free
<1>7. \A q \in Page : q # p => \A t \in Slot : << q, t >> \in held' <=> << q, t >> \in held
  BY <1>6
<1>8. items'[p] = { t \in Slot : << p, t >> \notin held' }
  BY <1>1, <1>4, <1>6 DEF ItemsOnce
<1>a. p \notin full
  BY <1>3 DEF ListsByFill
<1>10. CASE fill[p] + 1 < max
  <2>1. avail' = avail \cup {p} /\ full' = full /\ npools' = npools
    BY <1>10 DEF Free
  <2>2. pages' = pages
    BY <1>1, <1>6, <2>1 DEF pages
  <2>3. TypeOK'
    BY <1>1, <1>4, <1>5, <1>6, <2>1
  <2>4. ListsByFill'
    BY <1>3, <1>5, <1>6, <1>a, <2>1 DEF ListsByFill, max
  <2>5. FillExact'
    BY <1>1, <1>3, <1>4, <1>5, <2>2 DEF FillExact
  <2>6. ItemsOnce'
    BY <1>1, <1>4, <1>6, <1>7, <1>8, <2>2 DEF ItemsOnce
  <2> QED
    BY <1>6, <2>1, <2>2, <2>3, <2>4, <2>5, <2>6 DEF CountExact
<1>11. CASE ~(fill[p] + 1 < max) /\ HasMM /\ Hiwat > 0 /\ npools > Hiwat
  <2>1. avail' = avail \ {p} /\ full' = full /\ npools' = npools - 1
    BY <1>11 DEF Free
  <2>2. pages' = pages \ {p}
    BY <1>6, <1>a, <2>1 DEF pages
  <2>3. TypeOK'
    BY <1>4, <1>5, <1>6, <1>11, <2>1, CacheAssumption
  <2>4. ListsByFill'
    BY <1>5, <1>6, <1>a, <2>1 DEF ListsByFill, max
  <2>5. FillExact'
    BY <1>1, <1>4, <1>5, <2>2 DEF FillExact
  <2>6. held' \cap ({p} \X Slot) = {}
    <3>1. fill[p] + 1 = max
      BY <1>3, <1>11
    <3>2. IsFiniteSet(Slot) /\ items[p] \cup {s} \in SUBSET Slot
      BY <1>2, CacheAssumption
    <3>3. items[p] \cup {s} = Slot
      BY <1>3, <3>1, <3>2, FS_Subset DEF max
    <3> QED
      BY <1>4, <1>8, <3>3
  <2>7. ItemsOnce'
    <3>1. \A h \in held' : h[1] \in pages'
      BY <1>6, <2>2, <2>6 DEF ItemsOnce
    <3> QED
      BY <1>1, <1>4, <1>7, <2>2, <3>1 DEF ItemsOnce
  <2>8. CountExact'
    BY <1>1, <1>6, <2>1, <2>2, PageCount DEF CountExact
  <2> QED
    BY <2>3, <2>4, <2>5, <2>7, <2>8
<1>12. CASE ~(fill[p] + 1 < max) /\ ~(HasMM /\ Hiwat > 0 /\ npools > Hiwat)
  <2>1. avail' = avail \ {p} /\ full' = full \cup {p} /\ npools' = npools
    BY <1>12 DEF Free
  <2>2. pages' = pages
    BY <1>1, <1>6, <2>1 DEF pages
  <2>3. TypeOK'
    BY <1>1, <1>4, <1>5, <1>6, <2>1
  <2>4. ListsByFill'
    BY <1>3, <1>5, <1>6, <1>12, <2>1 DEF ListsByFill, max
  <2>5. FillExact'
    BY <1>1, <1>3, <1>4, <1>5, <2>2 DEF FillExact
  <2>6. ItemsOnce'
    BY <1>1, <1>4, <1>6, <1>7, <1>8, <2>2 DEF ItemsOnce
  <2> QED
    BY <1>6, <2>1, <2>2, <2>3, <2>4, <2>5, <2>6 DEF CountExact
<1> QED
  BY <1>10, <1>11, <1>12

\* A page the client takes back: none of its items is held.
LEMMA DelPageKeeps ==
  ASSUME Inv, NEW p \in Page, DelPage(p)
  PROVE  Inv'
<1> USE DEF Inv, TypeOK, DelPage
<1>1. pages \subseteq Page /\ p \in pages /\ pages' = pages \ {p}
  BY DEF pages
<1>2. /\ Cardinality(pages) \in Nat /\ Cardinality(pages') \in Nat
      /\ Cardinality(pages') = Cardinality(pages) - 1
  BY <1>1, PageCount
<1>3. TypeOK' /\ CountExact'
  BY <1>2 DEF CountExact
<1>4. ListsByFill'
  BY DEF ListsByFill, max
<1>5. FillExact'
  BY <1>1 DEF FillExact
<1>6. ItemsOnce'
  BY <1>1 DEF ItemsOnce
<1> QED
  BY <1>3, <1>4, <1>5, <1>6

\* pc_freeall: the full pages stay, and the count with them.
LEMMA FreeAllKeeps ==
  ASSUME Inv, FreeAll
  PROVE  Inv'
<1> USE DEF Inv, TypeOK, FreeAll
<1>1. /\ pages' = full /\ full \cap (avail \cup empty) = {}
      /\ pages = full \cup (avail \cup empty)
  BY DEF pages, ListsByFill
<1>2. /\ IsFiniteSet(full) /\ Cardinality(full) \in Nat
      /\ IsFiniteSet(avail \cup empty) /\ Cardinality(avail \cup empty) \in Nat
  BY PageCount
<1>3. Cardinality(pages) = Cardinality(full) + Cardinality(avail \cup empty)
  <2>1. Cardinality(pages) = Cardinality(full) + Cardinality(avail \cup empty)
                             - Cardinality(full \cap (avail \cup empty))
    BY <1>1, <1>2, FS_Union
  <2>2. full \cap (avail \cup empty) = {} /\ Cardinality({}) = 0
    BY <1>1, FS_EmptySet
  <2>3. Cardinality(full \cap (avail \cup empty)) = 0
    BY <2>2, Zenon
  <2> HIDE DEF Inv, TypeOK, FreeAll
  <2> QED
    BY <1>2, <2>1, <2>3
<1>4. TypeOK' /\ CountExact'
  BY <1>1, <1>2, <1>3 DEF CountExact
<1>5. ListsByFill'
  BY DEF ListsByFill, max
<1>6. FillExact'
  BY <1>1 DEF FillExact, pages
<1>7. ItemsOnce'
  <2>1. \A h \in held' : h[1] \in pages'
    BY <1>1 DEF ItemsOnce
  <2>2. \A q \in full, t \in Slot : << q, t >> \in held' <=> << q, t >> \in held
    BY <1>1
  <2> QED
    BY <1>1, <2>1, <2>2 DEF ItemsOnce
<1> QED
  BY <1>4, <1>5, <1>6, <1>7

\* Inv holds in every state the calls can reach.
LEMMA Invariance == Spec => []Inv
<1>1. Init => Inv
  <2> SUFFICES ASSUME Init PROVE Inv
    OBVIOUS
  <2>1. pages = {} /\ Cardinality({}) = 0
    BY FS_EmptySet DEF Init, pages
  <2> QED
    BY <2>1 DEF Init, Inv, TypeOK, ListsByFill, FillExact, ItemsOnce, CountExact
<1>2. Inv /\ [Next]_vars => Inv'
  <2> SUFFICES ASSUME Inv, [Next]_vars PROVE Inv'
    OBVIOUS
  <2>1. ASSUME NEW p \in Page, AddPage(p) PROVE Inv'
    BY <2>1, AddPageKeeps
  <2>2. ASSUME NEW p \in Page, DelPage(p) PROVE Inv'
    BY <2>2, DelPageKeeps
  <2>3. ASSUME NEW p \in Page, NEW s \in Slot, Alloc(p, s) PROVE Inv'
    BY <2>3, AllocKeeps
  <2>4. ASSUME NEW p \in Page, NEW s \in Slot, AllocNewPage(p, s) PROVE Inv'
    BY <2>4, AllocNewPageKeeps
  <2>5. ASSUME NEW p \in Page, NEW s \in Slot, Free(p, s) PROVE Inv'
    BY <2>5, FreeKeeps
  <2>6. CASE FreeAll
    BY <2>6, FreeAllKeeps
  <2>7. CASE UNCHANGED vars
    BY <2>7 DEF vars, Inv, TypeOK, ListsByFill, FillExact, ItemsOnce, CountExact, pages, max
  <2> QED
    BY <2>1, <2>2, <2>3, <2>4, <2>5, <2>6, <2>7 DEF Next
<1> QED
  BY <1>1, <1>2, PTL DEF Spec

\* The variables keep their types; in particular the count of pages never goes
\* below zero, though pc_free and pc_delpg both take from it.
THEOREM TypeCorrect == Spec => []TypeOK
<1>1. Inv => TypeOK
  BY DEF Inv
<1> QED
  BY <1>1, Invariance, PTL

\* A page is on the list its fill says, whatever the order of calls.
THEOREM ListsAreRight == Spec => []ListsByFill
<1>1. Inv => ListsByFill
  BY DEF Inv
<1> QED
  BY <1>1, Invariance, PTL

\* The fill of a pool is the length of its list after any calls: pc_free compares
\* it with the size of the page, and would not find the full pages otherwise.
THEOREM FillsAreExact == Spec => []FillExact
<1>1. Inv => FillExact
  BY DEF Inv
<1> QED
  BY <1>1, Invariance, PTL

\* No item is free and held at once, and none is held of a page that is gone.
THEOREM ItemsAreHeldOnce == Spec => []ItemsOnce
<1>1. Inv => ItemsOnce
  BY DEF Inv
<1> QED
  BY <1>1, Invariance, PTL

\* npools counts the pages, up to those pc_freeall took without counting.
THEOREM PagesAreCounted == Spec => []CountExact
<1>1. Inv => CountExact
  BY DEF Inv
<1> QED
  BY <1>1, Invariance, PTL

\* pc_alloc returns NULL only when the clients hold all there is.
THEOREM RefusalIsJust == Spec => []RefusedOnlyWhenAllHeld
<1>1. Inv => RefusedOnlyWhenAllHeld
  <2> SUFFICES ASSUME Inv, Refused, NEW p \in pages, NEW s \in Slot
               PROVE  << p, s >> \in held
    BY DEF RefusedOnlyWhenAllHeld
  <2>1. p \in empty /\ p \in Page /\ items[p] \in SUBSET Slot
    BY DEF Inv, TypeOK, Refused, pages
  <2>2. Cardinality(items[p]) = 0
    BY <2>1 DEF Inv, ListsByFill, FillExact
  <2>3. items[p] = {}
    BY <2>1, <2>2, SlotCount
  <2> QED
    BY <2>3 DEF Inv, ItemsOnce
<1> QED
  BY <1>1, Invariance, PTL
=============================================================================
