# A TLA+ model of catlib

catlib is a C library of data structures and system services: memory managers,
lists, trees, an event multiplexer, process spawning, parsers and string
functions. It has no threads. What is hard in it is not parallelism but
*re-entrancy* (callbacks that call back into the structure whose walk called
them), *intrusive links* (nodes owned by the caller, linked into lists whose
heads may be gone), *sizes at their limits*, *a callback between two halves of
an operation*, *signals at any instruction*, and *one step of several failing*.
These specifications model those parts and check and prove what their clients
rely on.

Paths below are relative to the repository.

## 1. Inventory

| part | source | state | operations | what makes it correct |
|---|---|---|---|---|
| block heap managers | `src/dynmem.c` | pools tiled by blocks with boundary tags; dynmem: one circular list of free blocks and a roving pointer; TLSF: bins under a two-level bitmap | add_pool, malloc, free, realloc; `add_mem_func` called inside malloc | blocks tile the pools; tags are true; free blocks are joined; bitmaps match the bins; a block is as long as was asked for; a request is refused only for lack of room |
| memory manager interface | `src/mem.c`, `include/cat/mem.h` | a table of functions | mem_get, mem_resize, mem_free | what the callers of every manager rely on (module `Allocator`) |
| pool cache | `src/pcache.c`, `include/cat/pool.h` | pages on three lists, free items and fill of each page, page count | addpg, delpg, alloc, free, freeall | page is on the list its fill says; no item handed out twice; count true |
| delta list | `include/cat/dlist.h` | list of nodes, each with its wait after the one before it | ins, rem, update, deq, first, adv | a node expires when asked, whatever happens to others |
| event multiplexer | `src/uevent.c`, `src/cb.c` | delta list of timers, descriptor sets and their maximum, lists per descriptor and per signal, process-wide set of arrived signals | reg and cancel of timers, descriptors, signals; ue_next, ue_run, ue_stop; the signal handler | callbacks run when due and never after cancel; nothing waits for ever |
| linked lists | `include/cat/list.h` | circular intrusive links | ins, rem, move, cut, splice, append, merge, sort, apply | both directions agree; walks survive changes; merge and sort are stable |
| ordered trees | `include/cat/avl.h`, `rbtree.h`, `splay.h` | nodes with parent links and a balance, a colour or nothing | insert, replace, remove, lookup, ends, apply | order, balance, links agree after every rotation |
| hash table | `include/cat/hash.h` | buckets of nodes that know who points to them | insert, remove, lookup, apply | the chain without the node is what it was |
| heap, sorting | `heap.h`, `sort.c` | array; a stack of unsorted parts | add, extract, remove, find; four sorts, permute | order and content |
| standard containers | `src/stduse.c` | wrap the above with allocation | new, put, get, del, apply, free | no leak and no lost entry when memory runs out |
| graph | `src/graph.c` | nodes, edges, edge arrays with holes | add, delete, find | both ends know an edge, also after a failed add |
| ring, buffers | `ring.c`, `buffer.c`, `grow.c`, `raw.c` | start, length, size | put, get; reserve, append | bytes in order, never past the end |
| process spawning | `src/pspawn.c` | descriptor entries with targets, child state | spec, launch, wait | each target descriptor gets what was asked; errors reach the parent |
| descriptor i/o, network, SOCKS5 | `io.c`, `net.c`, `socks5.c` | | | complete transfers, interrupted calls |
| pattern matching | `match.c` | tables, a suffix tree, a graph of expression nodes | build, match, free | the place found is the first; a regular expression matches what it means |
| parsers | `csv.c`, `peg.c`, `cpg.c`, `lex.c`, `inport.c` | quotes seen, the last character | next field | fields are what the text says however short the buffer |
| shell, options | `shell.c`, `optparse.c` | a table of variables with values that may own memory; the arguments, reordered | run; next option | a variable keeps its value until assigned or cleared; words are left in order |
| strings | `str.c`, `catstr.c` | none; a path walker | spans, UTF-8 conversions, addresses, paths | texts at the limits of lengths are read for what they say |
| output, packing | `emit*.c`, `pack.c`, `catlibc.c` | none | | text layout |
| cryptography, checksums, bits | `crypto.c`, `crc.c`, `bitops.c`, `bitset.c` | none | | published vectors |
| utilities | `utils/` | | | netpipe joins two sockets through two rings and one multiplexer |

**How they meet.** Every container takes its memory from a `struct memmgr`, which
may be libc, an arena, `dynmem`, TLSF or a cache; the managers call
`add_mem_func` back in the middle of an allocation. The multiplexer keeps its
timers on a delta list and its events on callback lists, and calls client code
from the middle of its walks of them; the signal handler writes two globals that
`ue_next` reads. netpipe is a client of the multiplexer and of the ring buffer.

The hazards of each part, at their lines, are listed in `PROJECT.json`.

## 2. Modules

```
 Allocator <---implements--- Tlsf    ---EXTENDS--> MemBlocks
                             DynMem  ---EXTENDS--> MemBlocks
 TimerSet  <---implements--- TimerQueue --EXTENDS--> DList
                             UEvent     --EXTENDS--> DList
                             PoolCache
                             NetPipe    --EXTENDS--> Ring
                             Spawn
 Library:  StdMaps (Avl, RbTree --EXTENDS--> PTree; Hash)
           StdObjs (Links, Heap, Buffers --EXTENDS--> Ring; Graph)
           Shell
           Algs    (SortSearch; Rex, Csv, OptParse, Strs by INSTANCE)
 proofs:   DListProofs (DList) <--EXTENDS-- TimerQueueProofs (TimerQueue)
                               <--EXTENDS-- UEventProofs (UEvent)
           PoolCacheProofs (PoolCache)  NetPipeProofs (NetPipe)  SpawnProofs (Spawn)
           TlsfProofs (Tlsf, Allocator)  DynMemProofs (DynMem)
```

`MC*.tla` give constants their values (`Tlsf`, `DynMem` and `PoolCache` need none, their
`.cfg` files give all of them); each `.cfg` is one run.

### Allocator
The promise of a memory manager: regions of the arena, disjoint, each as long as
its owner asked for last; regions change only at their owner's request.

### MemBlocks
`struct memblk`, ALLOC_BIT, PREV_ALLOC_BIT and the trailing size. Addresses count
units of UNITSIZE. `hdr[a]` and `foot[a]` are the words at `a` *as tags*; a word
that holds something else (links, caller data, a tag inside a larger block) is
`Garbage`. So a step that reads a stale tag shows in the invariants. `HeapTiled`,
`HeapTagged` and `HeapCoalesced` say what a sound heap is.

### Tlsf
`heap` is struct tlsf and the tagged words, `call` is a tlsf_malloc waiting for
`add_mem_func` (an action of its own: it may return memory or NULL, and the
class computed before it is used after it), `refused` the size the last call
could not provide. A bin is a set: which block of a bin is taken is left open.
The size classes are the code's arithmetic, with the logarithms of the limits as
constants; `Pow2` is `1 << n`. `heap.wild` becomes true when a block too short for its links is put
on a list: what it overwrites is unknown, so no step follows and the invariants
speak of states before. That such a state is reached is said under "Other deviations" (`NoSmallBins`).

### DynMem
The same tags, with every link of the free list (`nxt`, `prv`), because the roving
pointer `dm_current` is where this manager goes wrong. A link of a block that is
the caller's is `Junk`; a step that follows one sets `heap.wild`. The search is
the code's loop, step by step from `dm_current`. `resized` is a history variable:
dynmem_realloc has changed a block in place. From then on the tags and the links
need not be right (see "Other deviations"), so `HeapTagged` (a part of
`BlocksSound`) and `LinksAgree` speak of the time before; the other parts of
`BlocksSound` hold after it too. DynMem does not
implement `Allocator`, because a grown block can be shorter than was asked for.

### DList, TimerSet, TimerQueue
`DList` is dlist.h as operators on a list and its waits, used by two machines:
`TimerQueue`, any sequence of calls on one list, and `UEvent`. `TimerSet` has a
set of timers with a time left each; `TimerQueue` implements it with *the sum of
the waits up to a node* as the time left.

### UEvent
One `struct uemux`. `pass` is where ue_next is: waiting in select, woken, in the
walk of the signals, of the expired timers, of the descriptors. Each walk reads
the next node (`nx`) before it calls back; between the start and the return of a
callback (`run`) every client operation is enabled. `batch` is the list on
ue_next's stack. Signals arrive at any moment. `lost` becomes true when a
callback cancels exactly the node in `nx`, or writes to a list head that is gone:
from there a walk never returns or memory is overwritten, so the model stops.
The properties of walks say "or lost"; nothing in the repository promises more.
`ran`, `left` and `asked` are history variables: `left` is what is left of the time a
timer was asked to wait, counted from the registration and, for a periodic timer,
from each renewal; it takes nothing from the list. `asked` tells a wait that the node
was given in full (`"once"`) from those where ue_tm_reg puts in another one
(`"again"`): a cancelled timer that was not initialised anew, or a registration by a
signal's callback, while ue_next counts the time (see "Other deviations").

### PoolCache
Pages on the lists `avail`, `empty`, `full`; which page of a list and which item
of a page comes first is open. `uncounted` is a history variable for the pages
that pc_freeall frees without counting them off. The constant `MaxFreed` bounds
it for TLC; the proofs hold for every value. pc_freeall does not look whether
clients hold items of the pages it frees; that they use none of them any more is
the model's assumption about its caller, as with free().

### Ring, NetPipe
`Ring` is ring.c as netpipe uses it: the client moves the bytes in and out of
`data` itself (between `ring_last` and the end) and tells the ring how many.
`NetPipe` is utils/netpipe.c: a reader and a writer on each of two rings, all four
events of one multiplexer. Each registers the other when the ring stops being
empty or full and cancels itself when it becomes so, and each takes a transfer of
no bytes for the end of the stream. `rdone` and `wdone` are the four done flags,
`reg` the registered events, `todo` the rest of ue_next's walk; because a callback
of netpipe cancels no event but its own, the walk is a set here, and the list is
left to `UEvent`. The peers and the kernel are external: `BecomesReady` makes any
event ready, `Total` says after how many bytes a peer closes, a transfer moves any
number of bytes up to what was offered, or fails (`Fails`).

### Spawn
pspawn.c, over the kernel's table of descriptors, in which what is opened gets the
lowest free number. The client builds a specification in any way and
calls ps_launch, whose loops over the entries are one action per entry (`k` in the
parent, `i` and `j` in the child), because each entry's call may fail. From
the fork on, parent and child are two processes, each with its table (`ptab`,
`ctab`) and its copy of the entries (`ps`, `cps`). What can be told apart about a
descriptor is which open file description it has. `spoiled` becomes true when the
child overwrites or closes a descriptor that it still needs (see "Other
deviations"); the model goes on, but the properties of the child speak of the
launches in which this did not happen. `broken` says which side could not use the
pipe that tells: the parent's read may fail or come back short (`ReadFails`), and the
child's write of its errno may fail. A program ends by itself or by a signal; then
the assertion in ps_running ends the client (`"aborted"`). In a file entry ps_spec_copy loses the
path, so that `OpenFile` fails always, and `AsAsked` says nothing about files.

### Library and its parts
The passive part of the library has no callbacks that change what is being
walked and no second actor: what can go wrong needs a long sequence of calls, a
failing allocation, or an input at a limit. One client uses it (module `Library`).
`kind` (fixed by Init) says what the client uses, `s` is the code's state and
`want` what its client has a right to find there: an abstract map, sequence, bag
or set kept beside it. The four parts share these variables.

- `StdMaps`: cht, cavl, crb and cst of stduse.c, over `Hash`, `Avl`, `RbTree` and
  the splay tree of `PTree`. A tree is links of nodes (`p`, three of them by
  direction, `pdir`, and the balance or colour); a rotation is the assignments of the code to them, and
  an insert or removal the code's loop of rotations on the way to the root.
  `Put` has the allocations of an entry fail one after another; `Swap` is an
  insert below stduse.c of a second node of a key that is there (`Twins`).
- `StdObjs`: `Links` (list.h on real links, with l_merge's and l_sort's heads on
  the stack as cells), the clist of stduse.c, `Heap`, `Buffers` (rings with their
  bytes, growing arrays, the dynamic buffer, the array manager of mem.c, bit sets)
  and `Graph`. Sizes wrap at `SizeMax`; bytes never written are 0.
- `Shell`: shell.c over str_tok_a. A line is characters, so that cutting it at
  spaces and at "=" is the code's; the client's commands answer an integer or an
  allocated string, as those of src/test/testshell.c do.
- `Algs`: one question to one algorithm and its answer. `SortSearch` has the sorts,
  the text searches and the suffix tree, whose nodes may fail to be allocated, as
  recursive operators over arrays from 0; `Rex` builds the nodes of an
  expression as the parser does and matches by going back; `Csv`, `OptParse` and
  `Strs` work on sequences of characters, words and bytes. The reference
  definitions (`ends`, `FirstPlace`, `FieldsOf`, `Meaning`, `Parts`) are not made from the
  code's steps: what a pattern can match is a set of places, and what a text's
  fields are is read off the commas that an even number of quotes precedes. Two of
  them leave room. `FieldsOf` compares all characters but quotes, because the code
  drops quotes that it should keep; where no quote follows another the fields have
  no quote at all. And `Meaning` takes the beginning of a long option's name for the
  option, as the code does and no document says.

## 3. Runs

| run | checks | shows | bounds and why they are enough |
|---|---|---|---|
| `tlsf` | `BlocksSound BinsExact RefusedOnlyWithoutFit ImplementsAllocator` | blocks tile the pools with true tags, bins and bitmaps agree with them after every call; a request is refused only if no bin of its class or above has a block; the manager implements `Allocator` | one pool of 16 units from the client and one of 8 from `add_mem_func`; requests that split, fit exactly, need a new pool, and do not fit into that either; resizes that shrink, grow, move and wrap at the width; with L2Len = 2 and blocks of 4 to 31 units the classes of 8 units and more hold several sizes, as those of 128 and more do in the 64-bit build (TLSF_L2_LEN = 6) |
| `dynmem` | `BlocksSound LinksAgree` | dynmem up to the first step through an overwritten link | pools of 6 units, the least that has room for a block, and of 9, one of 16 from `add_mem_func`: up to five blocks, so that a free block has neighbours, and the list two others beside `dm_current` |
| `timer_queue` | `FifoAmongEqual WaitsAsAsked ImplementsTimerSet` | no wait is negative, equal times keep their order, the list is the set of timers it stands for | three nodes: a first, a middle and a last; waits 0..3 and a negative one |
| `uevent_timers` | `NotEarly TimerFires CancelledStaysQuiet` | no timer runs before the time asked or after it was cancelled, and each one runs if signals stop interrupting | a periodic and a one-shot timer, two ticks within one select, a signal that interrupts it any number of times |
| `uevent_events` | `SetsExact OncePerPass PassEnds IoServed SigHandled StopStops` | the sets given to select are exact; an event runs once a pass; passes end; what is ready is served, signals are handled; after ue_stop no callback starts | two events on one descriptor that stays ready, handlers of two signals, a timer of no wait: every walk has something in it, and every callback may change every other walk |
| `pool_cache` | `ListsByFill FillExact ItemsOnce CountExact RefusedOnlyWhenAllHeld` | pages on the right lists, no item handed out twice, a true count | three pages of three items: one page on every list; limit 2, high water 1 |
| `netpipe` | `InOrder NoneForgotten EndIsTheEnd AllDelivered` | however transfers are cut and rings wrap, bytes stay in order, exactly the events that can go on are registered, no empty transfer is taken for the end, and netpipe returns with everything delivered | streams of 5 and 2 bytes through rings of 3: one wraps, becomes full and empty again, while the other ends early; two different descriptors, so that `maxfd` moves |
| `spawn` | `AsAsked LaunchTrue NoLeak LaunchReturns` | the program starts with exactly the descriptors asked for, also when they change places; ps_launch returns, a child exactly if the program was started, as far as the pipe that tells works; wherever a call fails the client's descriptors are as before | three entries and three targets: two descriptors that swap or three that rotate, and one in the way; clients with descriptors 0, 1, 2 or only 2, so that pipes get the numbers of targets; eleven descriptors hold everything of a launch: three of the client, two of the pipe that tells and two of each entry |
| `library` | `MapSound MapFaithful MapMemory`, `ObjSound ObjFaithful ObjMemory`, `SortTrue MatchTrue ParseTrue` | structures keep their shape, contents are what was put in, nothing leaks whichever malloc fails, and the algorithms answer what they are to compute | twelve keys in the AVL tree (a removal that rotates twice needs that many), seven in the red-black tree, six in the splay tree, five in the hash table of two buckets; five list nodes with equal keys on two lists; heaps of three that grow to six (what fills a gap may belong above it) and do not grow to twelve, which is more than IntMax; rings of 3 that grow to 6, sizes up to 7; three graph vertices and edges with arrays that start with one place; two shell variables and three names, so that the table is full; all arrays of up to 5 of 3 values, two-valued ones to 10 (past the insertion-sort threshold of 2 and the median of nine); all texts to 7 and patterns to 4 of two letters, each suffix tree also with a node that cannot be allocated, early or late; expressions of up to three repeated, grouped or alternative parts; CSV texts to 6 characters with buffers of 2 to 4, that fields fit into or not; command lines of three words, with options that there are not; paths to 5 characters; addresses of 0 to 18 groups; code points on both sides of each length's limit |
| `dynmem_short`, `uevent_maxfd`, `avl_balance` | one property each | **violations**, see below | the bounds of the passing runs (`uevent_maxfd`: two descriptors, no timers or signals) |

Deadlock is not checked in the heaps (after `wild`, or with all memory in pools
and nothing that fits, nothing follows), nor in `library` (a freed object and an answered
question end it) nor in the multiplexer (select without a
timer and without a signal waits for ever, which is its purpose; `lost` ends the
model), nor in netpipe and spawn, which end. It is checked in
`timer_queue` and `pool_cache`.

**Findings.** Three runs end in a violation of what a comment, an assertion, a
header or a test says; `PROJECT.json` quotes each.

- `dynmem_short` (`dynmem.c:309`): dynmem_realloc grows a block by what would be
  left over instead of by what is needed.
- `uevent_maxfd` (`uevent.c:49`): `fdmax` reads the fields of an event from the
  head of a list of events.
- `avl_balance` (`avl.h:165`): avl_ins of a key that is there gives the new node
  the old one's place but not its balance, which rb_ins does with the colour.
  The model of that map ends there (`skew`), so `MapSound` speaks of the time before.

**Other deviations.** These have a definition and no run of their own; adding the
definition to the `.cfg` of the passing run shows a counterexample.

- `Tlsf!NotHereTwice`: "should not get here twice" (`dynmem.c:675`). The memory
  got from `add_mem_func` loses units to headers, so the request it was got for
  may still not fit (`dynmem.c:684`), and tlsf_malloc asks again.
- `DynMem!RefusedOnlyWithoutFit`: when `dm_current` is merged away the roving
  pointer is left on a stale node (`dynmem.c:240`), and the search comes round
  without having visited every free block.
- `DynMem!Coalesced`: "we are using aggressive coalescing" (`dynmem.c:94`).
  `shrink_alloc_block` (`dynmem.c:270`) does not clear the PREV_ALLOC_BIT behind the
  free block it makes, so the block behind it does not join it when it is freed.

- `Tlsf!NoSmallBins`: tlsf_realloc (`dynmem.c:762`) shrinks below TLSF_MINSZ, and a
  freed block that short is linked into a bin though its links do not fit.
- `DynMem!NeverWild`: dynmem_free (`dynmem.c:239`) inserts beside `dm_current`
  although that is the block being freed, whose links are caller data.
- `Spawn!AlwaysAsAsked`: "map fd in the current process to something else in the
  child" (`include/cat/pspawn.h:113`). set_up_fd (`pspawn.c:620`) does not know the
  numbers dup gave to what it saved: with 1 to 2, a pipe to 0, and 2 to 1, the old
  2 is saved as 0 and overwritten by the pipe. Nor does it see that the pipe to the
  parent is in the way (`pspawn.c:639`: psfde is never NULL after the loop), which
  happens to clients without standard descriptors; and two entries with one
  source lose it with the first (`pspawn.c:597`).
- `Spawn!PathKept`: "specify which file descriptors to redirect from/to a file
  system object" (`include/cat/pspawn.h:99`). ps_spec_copy (`pspawn.c:116`) copies
  neither path nor mode, so every launch with such an entry fails with EFAULT.
- `Spawn!LaunchAlwaysTrue`: the parent takes the end of the pipe for success
  (`pspawn.c:679-684`), so a child that cannot write its errno (`pspawn.c:517`) passes for a
  program; and a read that fails or comes back short (`pspawn.c:668-676`) makes
  ps_launch return NULL, with the program running and nobody to wait for it. A
  child that is killed between fork and execve, which the model leaves out, passes
  for a program in the same way.
- `ps_running` asserts that the program ended by itself (`pspawn.c:753`): a program
  that a signal ends aborts its parent.
- `Library!AppliesInOrder`: "currently an inorder traversal" (`avl.h:243`,
  `rbtree.h:206`). The walks call back for a node after all those below it.
  `MapFaithful` asks that each key is visited once, in whatever order.
- `Library!BufferPromises`: "If 'b' lacks the space, try to allocate it. Return 0 on
  success" (`include/cat/buffer.h:64-66`). dyb_set_a's test of the sum of offset and
  length is inverted (`buffer.c:148`; `dyb_cat_a` has it right), so that it refuses what
  fits. `ObjFaithful` asks of all other functions of the buffer that they refuse only
  what there is no room or memory for.
- `Library!UnknownRefused`: "Unknown option: %s" (`optparse.c:129`). parse_long_opt tests
  for NULL a pointer that the loop left at the last option of the table
  (`optparse.c:125`), and takes an option that there is not for that one.
  `OptionsTrue`, a part of `ParseTrue`, then asks only for what was found before it.
- With SIGCHLD ignored, as `include/cat/pspawn.h:174` recommends, waitpid has
  nothing to report and `ps_running` (`pspawn.c:745`) says for ever that the process
  runs (`IgnoreSigcld`).

- A timer that is cancelled and registered again without ue_tm_init waits for what
  dl_rem left in its node (`uevent.c:172`), the time from the timer before it and not
  what it was asked for; one that a signal's callback registers, in a pass whose
  wait was not interrupted, is counted from the start of that wait. Both may run too
  early: `NotEarly` without `asked[t] = "again"` shows it.
- A wait that a signal interrupts is not taken off the timers (`uevent.c:464-467`,
  `482`): signals that come back faster than the first timer is due hold up all of
  them for ever. `TimerFires` without its condition `<>[]~eintr` shows it.
- pc_freeall (`pcache.c:38`) frees pages whose items clients hold, and forgets the
  pages of the list `full` and the count.
- The assertion of dynmem_add_pool (`dynmem.c:146`) does not count the pool's header,
  so that it accepts a pool without room for a block; `PoolLens` are those with room.

**Deviations in the passive parts.** Where the code writes past its memory, loops or
ends the program, the client of `Library` does not go, unless the model says that
the program ends (csv_read_field); the comments "Left out"
at the actions of `StdObjs` and in `Algs` name each such guard. Where the code merely
does something else, the model does what the code does.

- Lists: l_move from an empty list, so l_sort of one, leaves the head pointing at
  the empty one, in l_sort a variable of a function that returned. `cl_apply` starts
  at its end and visits nothing.
- Trees: st_rem and st_ins leave `node->tree`.
- Rings: an overwriting put of exactly `alloc` bytes into a ring that is not empty
  aborts (`ring.c`, `CanPut`). ring_alloc (`stduse.c:1465-1473`) moves the bytes of a
  wrapped ring as if they were in one piece, past the end of the memory; and for a
  ring that does not begin at the start of its memory it answers, where there is
  room, the index behind `len` bytes and not behind the last byte. ring_fmt writes a
  text that does not fit a second time without its last character.
- Buffers: dyb_set_a, which refuses what fits, does not refuse a sum that wraps, and
  writes past the buffer; dyb_copy reserves the size of its own buffer whatever is
  copied; mm_grow passes the address of the pointer on (`grow.c:96`), mm_agrow asks for
  as many bytes as items (`grow.c:150`); a length near the largest wraps when the
  array manager rounds it up, and is given a block of no units.
- Bit sets: sbs_set and the others take the index `nbits` (`stduse.c:1701-1755`, the
  test is `>`), which is outside the set, and outside its memory when `nbits` fills
  the words; the model sets it where it is inside.
- Graph: a gr_add_edge whose first array cannot grow frees the edge while it is on
  the graph's list (`graph.c:140`): `Dangling`, after which the model of that graph
  ends and its properties claim nothing; gr_find_edge of a node with itself in
  an undirected graph finds any edge that begins there.
- Searches: bm_match underflows on texts shorter than the pattern, and needs a
  table that bm_pinit_lite does not make; sfx_init of the empty text aborts, because
  a hash table needs a bucket (`hash.h:120`); newedge does not look whether it got
  memory (`match.c:206`), while the failures of newnode are modelled; the
  allocating forms in stduse.c free another structure than they made.
- Regular expressions: a character that may be absent is never tried as absent
  once it has matched, so `.*b` does not match "b" (`nozero` in `Algs`); after a group
  within a choice the choice outside it is lost (`x|(b)|c`), and with it the place
  of the match (`valid`); a backslash runs past the end of the pattern; an empty
  alternative, `((a`, and `(a*)*` crash or do not return.
- CSV: csv_read_field crashes on a field that does not fit into its buffer (`mm_grow`,
  above), so only csv_next in pieces reads long fields; a doubled quote inside
  quotes is dropped (`csv.c:60-65`), one alone inside quotes is kept; an empty last
  field before the end of input is lost; csv_read_rec
  (`stdcsv.c:106`) has its test inverted and keeps no field.
- Options: a prefix of an option's name is that option.
- Shell: shell_env_init ignores its context; a string that no variable takes, and
  every token of str_tok_a, is lost; a new variable stays when the command that
  was to set it fails; "=x" assigns to the first free entry, and the value appears
  under the next new name.
- Strings: utf16_to_utf8 does not add 0x10000 to a pair and utf8_to_utf16 refuses
  characters that need one; halves of pairs are valid UTF-8 here; str_parse_ip6a
  takes fewer than eight groups without "::" and stops at a second "::" instead of
  refusing it.

**Fairness.** `FairSpec` of UEvent: weak fairness of ue_next's own steps (the
loop of ue_run calls it again; select returns when something is ready or the
timeout is over), of the return of a callback (clients' callbacks return), and of
the clock. Strong fairness of the clock *while ue_next counts it*: a pass with a
timeout of next to nothing may see no tick, but many of them together do. There
is no fairness of clients or of signals, and no bound on them: `TimerFires` is stated
for behaviours in which from some moment on no wait is interrupted, because it is
false in the others. `FairSpec` of NetPipe: weak fairness of
select, of the callbacks and of the exit, as there, and of `BecomesReady`: the
peers go on sending until they close, and go on taking what is sent to them.
There is none of `Fails`. `AllDelivered` is stated for behaviours in which `maxfd` is
what its name says (`MaxFdTrue`), because of the finding about `fdmax`. `FairSpec` of
Spawn: both processes run, up to execve in the child; how long the program runs
is open, and no read need fail.

## 4. Proofs

| theorem | module | property |
|---|---|---|
| `TypeCorrect`, `ListsAreRight`, `FillsAreExact`, `ItemsAreHeldOnce`, `PagesAreCounted`, `RefusalIsJust` | PoolCacheProofs | `TypeOK`, `ListsByFill`, `FillExact`, `ItemsOnce`, `CountExact`, `RefusedOnlyWhenAllHeld` |
| `Typing`, `EqualTimesKeepOrder`, `WaitsAreAsAsked` | TimerQueueProofs | `TypeOK`, `FifoAmongEqual`, `WaitsAsAsked` |
| `Refinement`, `ImplementsTheSet` | TimerQueueProofs | the list implements the set of timers (`ImplementsTimerSet`) |
| `SetsAreExact`, `Typing` | UEventProofs | `SetsExact`, `TypeOK` |
| `TimersAreNotEarly`, `CancelledDoNotRun`, `RunsOncePerPass`, `StopHolds` | UEventProofs | `NotEarly`, `CancelledStaysQuiet`, `OncePerPass`, `StopStops` |
| `BlocksSoundTheorem`, `BinsExactTheorem`, `RefusedTheorem` | TlsfProofs | `BlocksSound`, `BinsExact`, `RefusedOnlyWithoutFit` |
| `Refinement`, `Invariance` | TlsfProofs | TLSF implements a memory manager (`ImplementsAllocator`); `IInv` |
| `BlocksSoundTheorem`, `LinksAgreeTheorem`, `Invariance` | DynMemProofs | `BlocksSound`, `LinksAgree`; `IInv` |
| `BytesStayInOrder`, `NobodyIsForgotten`, `OnlyTheEndEnds` | NetPipeProofs | `InOrder`, `NoneForgotten`, `EndIsTheEnd` |
| `NothingLeaks`, `ProgramHasWhatWasAsked`, `LaunchTellsTheTruth` | SpawnProofs | `NoLeak`, `AsAsked`, `LaunchTrue` |

*PoolCache.* From `CacheAssumption` (finitely many pages and items, at least one
item a page). No invariant is inductive alone: that a page is on the right list
needs the fill, the fill needs the items, the items need that what clients hold
is on pages that are there, and the count needs the lists to be disjoint. `Inv`
is their conjunction. `Refused` then follows: with no page on `avail` or `full`
every page has fill 0, so no free item.

*DList.* The laws of the delta list, for lists of any length over any set of nodes.
`Remaining(list, ttl)` gives each node the sum of the waits up to it. Inserting gives
the new node the time it was asked to wait and changes no other (`InsRemaining`),
removing changes no other (`RemRemaining`), advancing by `d` takes `d` off all that
stay and splits the others off, in order (`AdvRemaining`). The sums are a recursive
function. What it computes is settled by two facts: the equation of the function
(`DuesAddUp`), and that no other function satisfies it (`DuesUnique`), so that the
sums of a changed list follow from a formula in the sums of the old one. The
induction in these is well-founded induction on sets of numbers: a set of natural
numbers that is not empty has a least member (`Least`, from `NatLessThanWellFounded`),
so that the first position where a claim fails would have a predecessor where it
holds. That form needs no operator parameter.

*TimerQueue.* The invariant is `TypeOK`: each node once, waits natural. From it
and the laws above, each operation on the list is the operation of `TimerSet` on
`Remaining`. `Refinement` shows this for an instance of `TimerSet` whose advances
may be any natural number (`AnyTime`); the run's `ImplementsTimerSet` uses the same
`Delta` on both sides, whereas dl_deq of the list advances by the wait of the first
node whatever `Delta` holds, so `ImplementsTheSet` has the hypothesis
`Delta = Nat`. dlist.h takes any time; `Delta` is finite only for TLC.

*UEvent.* From `EventAssumption` (the three kinds of events and the two marks are
different things, times and signal numbers are natural), for any number of events,
times, ticks and signals, and any callbacks. `SetsExact` needs only that the list of
events holds each once (`IoInv`). The other theorems come from one inductive
invariant, `Inv`, whose parts lean on each other:
`Linked`: no node is linked twice, no timer is on both lists of timers, those on a
list count as registered, and signals are handled only where there is a list.
`Walk`: unless the walk was lost, the node it visits next is linked on the list
being walked; this is what the reading of the next node before the callback is
for, and needs that a cancel of just this node sets `lost`.
`InTurn`: between two events of one signal, one of the signal has run.
`Fresh`: what has run lies behind the walk: it is not in `Ahead`, the part of the
list from `nx` on. A registration in a callback goes to the front of its list and
so never into `Ahead` (`PushAhead`), a removal only shrinks it (`RemAhead`).
`Prepared`: a timer that ue_tm_init was called for has its full wait in its node, so
that a registration outside the walk of the signals gives it what is asked.
`OnTime`: what a timer that got its full wait has still to wait, plus the time by
which ue_next will advance the list is no more than
`Remaining` (`Owed`: nothing is owed to a timer
that was registered `"again"`). This ties the clock to the list, through the
laws of `DList`. `NotEarly` is `OnTime` at the moment a timer is in `batch`;
`CancelledStaysQuiet` is `Linked` and `Walk`; `OncePerPass` is `Fresh`; `StopStops` is
`InTurn`; and `StartsAre` says that a callback starts in the three visits only.

*Tlsf.* From `BlockAssumption`, `GeometryAssumption` and `ClientAssumption`: a memory of
any size, pools of any lengths that have room for a block, requests of any size, and
any number of classes and of bins in a class, as long as the longest block has a
class (the memory and TLSF_MINSZ are below TLSF_ALIM, and sizes wrap at twice
TLSF_ALIM). `IInv` is the inductive invariant, and has five parts.
`PoolsApart`: pools with their headers and sentinels do not overlap and lie below
`top`. `Sound`: the layout of the heap is right (`Layout`: what `BlocksSound` says, and
that a block lies in one pool and nothing is free in front of a pool's first
block), and the bins and bitmaps hold the free blocks (`Binned`). `Caller`: the
blocks that are not free are the callers', each longer than its owner asked for.
`Pending`: for the request that waits for `add_mem_func` there was no block, and its
class is still the one computed before. `TooShort`: the promise about refusals. TLC checked `IInv` on the run's instance before it was
proved.

The proof of `Layout` rests on one notion. Every operation takes a stretch of memory
that is a number of whole blocks of one pool (`Region`) and makes one block of it, or
one and a free one behind it (`Recut`); splitting, joining with either neighbour or
both, extracting, shrinking, growing and adding a pool all are of this form.
`RecutKeeps` shows once that a recut of a region keeps the layout, if neither the
block before the region nor the one behind it is free where it meets a free one; `PrevJoined`,
`NextJoined`, `TakeIs`, `SplitIs`, `GrowIs` and `ShrinkIs` show that what the code reads in the
tags gives a region and what it writes is its recut. This is where the tags are
needed: that `hdr[mb].palloc` and `foot[mb - 1]` find the free block before `mb`
(`PrevFree`), and that the block after a free one is allocated and says that a
free one precedes it (`FreeEdges`). Adding a pool is a freeing of its one block, in
a heap in which that block was allocated (`FreshSound`, `FreshFreed`).

The bins are arithmetic. `ClassOf` and `LowIs` say that the bins cut the sizes into
intervals, `ClassOrder` that they are in the order of the sizes, and `RoundIs` that the
bin of the rounded request starts at the request rounded up to its class's width.
So every block of a bin that tlsf_find_blk returns is long enough (`BinFits`), and
when there is none no free block has the rounded length (`NoFitShort`). The powers of
two are a recursive function, unfolded by well-founded induction (`Pow2Unfolds`).

`Refinement`: with *the units behind the size word of a held block* as the run of
its pointer (`Owned`), and the units of the pools as the arena, each call is one
step of `Allocator` (`GrantStep`, `FreeStep`, `ResizeStep`; `KeptStep` for a refusal, for a
call that begins to wait and for a new pool). A realloc that moves needs more than
the invariant of the state after it: the new block must be apart from the old one,
which is freed in the same step, so that `GrantedTo` speaks of the heap in between.
All this holds also in the states after a block too short for its links was
freed (`wild`), because no step follows them.

*DynMem.* From `BlockAssumption` and `ClientAssumption`: a memory of any size, pools of any
lengths that have room for a block, requests of any size. `IInv` says of the pools
what it says in `TlsfProofs`, that a dynmem_malloc which waits for `add_mem_func` asks for a
block with room for the links (`Waiting`), and of a heap that is not wild (`Calm`):
its layout is right (`Sound`), the blocks in use are the ones the caller holds, and,
until one was resized in place, the blocks behind free ones say so (`Told`) and the
links are right (`Linked`).

Two things had to be found for it to be inductive. `shrink_alloc_block` leaves behind
the free block it makes a tag that says *allocated*, so "the tag is true" is lost, but
one direction of it is not: a block that the next one calls free is free, and its
length is behind it (`Tags`). This is all that coalesce relies on, so that the blocks go on
tiling the pools after it, and two free blocks that touch are the only harm. And the list
is not one circle: when a freed block joins the free one in front of it and
`dm_current` is there, coalesce takes that block off the list and dynmem_free inserts
it beside itself, on a circle of its own without the head; when the search then takes
this block, `dm_current` stays on it. So `Circles` says that the links of the free blocks
and the head permute them, next and prev being inverse to each other, and nothing of
how many circles there are; and `Linked` lets `dm_current` be a block that is held,
whose links are `Junk` (`Bare`), so that an insertion beside it makes the heap wild
instead of being wrong. This is also why `RefusedOnlyWithoutFit` is no theorem of
this manager: a search goes round one circle only.

The layout again goes by recuts of regions. The links need four lemmas: an insertion
that does not make the heap wild puts a node on a circle (`CirclesIns`), beside
itself on one of its own (`CirclesSelf`), a removal takes it off (`CirclesRem`), and the
caller's writing over its block leaves the circles alone (`CirclesCut`). What the
steps of one call do in between (a node off the list but still tagged free, a block
cut in two of which the first part is about to be given out) is kept apart from the invariant in `Cut`,
`Joined`, `Detached` and `Merged`, and the calls are put together from them in
`TakeDone`, `FreeIs`, `AddPoolIs`, `ShrinkIs` and `GrowIs`. After a resize in place (`Reshaped`) only
the layout is claimed.

TLC checked this `IInv` on the run's instance before it was proved.

*NetPipe.* From `PipeAssumption` (a ring of at least one byte, two different
descriptors), for rings and streams of any length. That an empty transfer is never
attempted needs that whoever is visited is registered, and that the registered
have room or bytes (`NoneForgotten`); this needs that the done flags are right
(`EndIsTheEnd`). So the invariant is the conjunction of these two with the ranges
of the fields and `InOrder`. The rest is the arithmetic of the ring: `ReadExtends`
says that what is put behind the last byte is found there by its index, and
`GetDrops` that after a get the k-th byte is the one that was k + n-th.

*Spawn.* From `SpawnAssumption`, for any number of descriptors, entries and
targets. `NoLeak` speaks of the end only; the invariant `Apart` says of every
moment that each number that the launch has (`Held`: retpipe, and what
ps_fd_entry_cleanup would close) was not the client's, and that all other numbers
have what they had before. A pipe takes free numbers (`PipeTakesFree`), and a step
that closes held numbers and forgets no open one keeps `Apart` (`CloseKeeps`).
`Stages` adds what the order of the calls gives: entries have nothing to close
before create_pipes comes to them, and the parent's end to write to is closed when
it returns.

`AsAsked` also speaks of the end only, the moment of execve. `Prepared` says what the
pipes made up to entry `k` are, so that the child starts with every entry's
description at the entry's number (`ForkInherits`; for a remapped one this needs
`Apart`: what was open is still what it was). During the moves of set_up_fds,
five things hold together: each target placed has the description asked for
(`Settled`), each entry to come still has its own, at a number where only an entry
that itself has this number can have placed a target (`Pending`), an entry that is done has given its number up or
has it as a target (`Done`), nothing else is open (`NoOther`), and `nomap` says
whether the entry's own number is one of its targets (`Keeps`). `Moves` is what a dup2 has
to leave behind for these to go on holding (`MovesInPlace`), and both forms of the
move do that: onto a number that nobody needs (`MovesOver`), and onto one whose
description first goes to the lowest free number (`MovesAside`: what is in the way
belongs to an entry further on, since a target has one entry only, and the free
number is nobody's). The number of the pipe that tells is no entry's number
(`NobodyNeedsIt`), so that it is never moved or closed, and a child that gives up can
always try to say so: that is `LaunchTrue`, with `broken` for the tries that fail and
with where the two processes can be (`Phases`). All
of this is under `~spoiled`, the hypothesis that the two properties themselves have.
`spec_ok` speaks of `Seq(Fds)` because the proof needs the targets to be sequences
after ps_fde_delfd, whose filter the provers cannot look into.

*Only model-checked*: everything in `Library` (its loops are recursive operators,
which the proof system cannot use), and all liveness.

## 5. Not modelled

- In the modelled parts: `ue_fini`, `ue_runfor`, the allocating `_new` and `_del`
  variants and out-of-memory in the multiplexer; more than one multiplexer;
  descriptors beyond FD_SETSIZE; blocks of 2 GiB and more in TLSF; the order of
  pages within a list of the pool cache.
- Time spent in callbacks between two calls of ue_next: `NotEarly` bounds timers
  from below, nothing bounds them from above but that they run.
- In netpipe, the interrupted and the non-blocking transfer are failures, because
  io_read_upto retries the first and returns -1 for the second; setting the
  sockets up is not modelled.
- In `Spawn`: several children at once; the type flags other than direction and
  STDIO and their check; ps_spawn, which builds a specification from a string;
  setvbuf failing; an entry whose source the client has not open; descriptors
  beyond CAT_PS_MAXFDS, which also overflow the bit set.
- In `Library`: callbacks that change the structure whose apply calls them; keys
  that compare equal but differ; hash functions (a table stands for one); memory
  that is read before it is written, in memory a client owns; floating-point
  arguments of the shell and options (those are like the integer ones); printing.
- io_check_ready, net.c and socks5.c: system calls and little state between them.
- The PEG and CPG parsers, the lexer and the input ports, catstr.c, output
  formatting, packing, the C library replacement: long sequential text work
  without a shorter meaning to compare it with. Cryptography and checksums: tested
  against published vectors. dbgmem.c, emalloc.c and err.c wrap calls. `src/attic`
  is not built.

## 6. Plan

What is left, in this order.

1. ue_fini, ue_runfor and allocation failure in `UEvent`; several children in
   `Spawn`.
2. The PEG parser's cursor rules; catstr.c; dbgmem.c.
3. Proofs: that a refusal of dynmem, before `dm_current` is first merged away, means
   that no block was long enough; the parts of `Library` are written with recursive
   operators and stay with TLC.
