# haisu in TLA+

haisu is a header-only C++ library: containers of fixed capacity that live in one
array, lists and pools, allocators on mapped memory, a lock-free table behind a
thread-local pointer, a locked object, timed metrics, an event parser for JSON and a
document model on top of it.
This directory holds TLA+ models of its components, the TLC configurations that
check them and TLAPS proofs about all of them but `json::model`, `zset` and `tree`.

There is no program here that uses everything: the library is its components, and
what makes one correct is mostly that a long sequence of legal calls, or the
interleaving of several callers, never leaves its indices, links or counters wrong.
So nearly every module models one class, with all of its calls in any order, and a
composing module puts classes side by side that promise the same.

`PROJECT.json` lists the components, the runs, the mutants (a plausible bug for each
property, which the property must catch), the source lines of every definition, and
the hazards the properties are aimed at.

Run `tlc -workers 2 -config X.cfg M` or `tlapm M.tla` in this directory.

## 1. Inventory

| component | state | operations | what is hard | what makes it correct |
|---|---|---|---|---|
| `mono::queue` (mono_queue.h) | array, `head`, `tail`, `count` | push, emplace, pop and write at both ends, clear, iteration | cursors wrap both ways; a full ring looks like an empty one | it is a bounded deque |
| `mono::slist`, `list`, `xorlist` | array of nodes, two lists through it | push and pop at both ends, write, clear | links that an earlier pop left stale; 0 and nil as signs | the same deque; each node in one list |
| `intrusive_list`, `list` (intrusive.h) | pointers in the program's or the list's nodes | push, pop, erase, splice, move, assign, destroy | nodes change owner; erase tells an end by null pointers | links lead along the items; nothing leaks |
| `duo::list` | list of chunks of `N` | push, pop, splice of whole lists, clear | half full chunks in the middle | the chunks are the items in order |
| `mono::linear_hash` (tls.h) | atomic keys, values, `_size` | find, index, erase, clear | no lock: searches and claims interleave | one entry for a key, and it is found |
| `tls` | a `linear_hash` keyed by thread id, and the heap | get, reset, release, clear, thread exit | erase breaks chains; ids come back | a private cell for each thread; each object deleted once |
| `object_pool`, `heap_pool` | objects, a free list through those that are free; slabs | alloc, construct, dealloc, dealloc_all, destroy_all, moves | constructors that throw or use the pool; malloc fails | nothing handed out twice or lost |
| `podbump`, `growbump`, `refbump` (memory.h) | maps, a cursor and a reference count in each | alloc (recursive), free | widths of counters, two size classes | allocations do not overlap; alloc ends; unused maps go back |
| `synchronized` (concurrency.h) | object, recursive mutex, proxies | `->`, moves of proxies | temporaries of several threads overlap | one lock for each proxy; no call lost |
| `metric::monitor` (metric.h, mono_stack.h) | stacks of metrics and timers, table of paths | start, stop, scopes moved and assigned | more metrics than the stacks hold | time is booked under its own path |
| `mono::overflow_stack` (mono_stack.h) | array, `_size`, `_overflow` | push, pop, append, copy, comparisons | memcmp() of all cells, used or not | the items pushed first, and the number of the others |
| `metric2::trie` | nodes, `root`, `cursor` | up, down, create, at, has, foreach | found by siblings downwards, by parents upwards | it is a map of paths |
| `metric2::monitor` | a trie of timers, scopes | start, stop, scopes moved and assigned, report | start and stop are one toggle of the timer the cursor comes to | a timer holds the time spent in its path |
| `json::parser` (json.h) | stack of states, callbacks | parse | nesting, early end, terminate() in a callback | calls follow the grammar |
| stacks of flags (json.h: `bitstack`, `nibblestack`, `compressed_objstack`) | packed words, nibbles, runs | push, pop, top | edges between words, nibbles and runs; bits of an earlier use | the last flag is at the top |
| `json::model` (json_model.h, zbuf.h) | cells in one buffer, the last cell of each open container | the callbacks; views: child, key, count | keys, arrays and objects put their cells between each other | the views are the text |
| `mono::hash` (mono_hash.h) | array of pairs | at, insert, contains, erase, clear | wrap-around probing, full table | it is a map of `N` keys |
| `zset` (zset.h, zbuf.h, algo.h) | a buffer: table of offsets, then the strings | insert, erase, clear, find, lower_bound | every change moves strings and table, by different amounts | the strings in order, the table exact |
| `mono::string` (mono_string.h, algo.h) | array of `N + 1`, the last byte the room left | assign, copy, append, insert, erase, replace, resize, searches | the room of a full string is its NUL | it is the string |
| `tree` (tree.h) | nodes that own maps of nodes | `[]` by key and path, erase, clear, moves, foreach | a walk makes nodes; erase follows with two pointers | it holds the paths it was given |
| `small_any` (small_any.h) | an object of any type, the functions of its type | reset, clear, copies, moves, swap, cast | which functions are called on which object | each object is destroyed once |
| `index_pool`, `heterogeneous_pool`, `function_ref`, `trivial_variant`, meta, tests, benchmarks | | | | section 7 |

How they interact: `tls` is a client of `linear_hash` and adds the heap; `growbump` and
`refbump` are lists of `podbump`-like maps; `metric::monitor` uses two stacks and a
`std::map`, whose keys are `overflow_stack`s; `metric2::monitor` moves the cursor of a
`metric2::trie`, which takes its nodes from a pool; `json::model` gets its calls from
`json::parser` and keeps them in a `zbuf`, as `zset` does; `heterogeneous_pool` is the
code of `object_pool` over a union. The rest do not call each other. Threads meet in
`tls`/`linear_hash` and in `synchronized` only.

## 2. Modules

| module | models | notes |
|---|---|---|
| `LinearHash` | `mono::linear_hash` | one action per atomic access: load, compare-and-swap, the load and the store of `++_size`; the two stores of `erase()` become visible in either order (`pending`) |
| `Tls` | `tls` | `EXTENDS LinearHash`; what each member function does around the search, and the live objects (`heap`); at its end the values its `.cfg`s cannot write |
| `ThreadLocal` | promise of `tls` | a cell for each thread |
| `MonoQueue`, `MonoSlist`, `MonoList`, `MonoXorlist` | the array containers | cursors and links are the source's, so are the names |
| `Deque` | promise of the array containers | a bounded sequence |
| `IntrusiveList`, `Duo` | the lists with pointers | the second half of `IntrusiveList` is `list`, which contains an intrusive_list of nodes of its own |
| `Lists` | | gives the same calls to queue, slist and list; or one of xorlist and the three with pointers |
| `ObjectPool`, `HeapPool` | the pools | a constructor is two steps, so that it can use the pool or throw in between |
| `Pool` | promise of both pools | what is handed out, what is owned |
| `Bump` | operators of one map: `assign`, fits, bump, freed | pure |
| `Podbump` | `podbump`/`bufbump` | cursor is an int (`IntMax`) |
| `Arenas` | list of maps: `growbump`, `refbump` | each recursive call of alloc() is a step; free() of a refbump gives maps back |
| `Allocators` | | one of the three, or one of the pools |
| `Synchronized` | `synchronized` and its proxies | a method is a load and a store |
| `MetricMonitor` | `monitor`, `scope`, the two stacks, the clock | `size_type` is modulo `Wrap` |
| `Profile` | promise of the monitor | open metrics and the totals by path |
| `MetricTrie`, `PathMap` | `metric2::trie`; its promise | nodes are numbered as the trie creates them |
| `TrieMonitor` | `metric2::monitor` with its scopes and `aggregate_timer` | `EXTENDS MetricTrie`: a value is a timer, the function given to up() and down() is its toggle |
| `Metrics` | | a monitor, a trie, or a monitor on a trie |
| `JsonParser` | `parser::parse` | one token is one turn of the loop |
| `JsonReading` | the grammar of JSON, and the parser beside it | the grammar is external: RFC 8259, not the code |
| `JsonModel` | `json::model` and its views | `EXTENDS JsonReading`: every step of the parser makes its callback in the same step |
| `MonoHash`, `Dictionary` | `mono::hash`; its promise | |
| `Zset` | `zset` with its `zbuf` and the binary search | the buffer byte by byte; an offset sits in the first of its `OffSize` bytes |
| `MonoString` | `mono::string` with `memrmem` | each call beside what it does to a sequence (`text`, `due`) |
| `MonoStack` | `mono::overflow_stack` and the `mono::stack` in it | stacks of different capacities side by side |
| `ParserStacks` | the stacks of flags of json.h | a word is the set of its bits |
| `SmallAny` | `small_any` | the functions of the vtable work on a record of the memory; `wild` says that one met no object of its type |
| `Tree` | `tree` | nodes are numbers; `Below` is what a node owns |
| `Containers` | | one of hash, zset, string, stack, flags, any and tree |
| `MCLinearHash` | values of constants that a `.cfg` cannot write | |
| `ListsProofs`, `LinearHashProofs`, `TlsProofs`, `AllocatorsProofs`, `SynchronizedProofs`, `JsonReadingProofs`, `MetricMonitorProofs`, `ContainersProofs` | theorems, section 6 | `TlsProofs` EXTENDS `LinearHashProofs`; the others stand alone, each on the module that puts its components side by side, if there is one |

Conventions. A variable has the name of its member; a history variable is marked
`history:` in its declaration and is read by properties only. Where the answer of a
call matters it is kept in `ret` or `answer`. What memory holds before its first write
is a choice in `Init`. A composing module has a variable `program` that never changes
and says which of its components this behaviour uses: the components share a run and
not a state. Operators named `x_y` after a `\* Mutant:` comment are the bugs that the
mutants of `PROJECT.json` put in the place of `x`; nothing else refers to them.

## 3. Runs

| run | states | shows | bounds, and why they are enough |
|---|---|---|---|
| linear_hash | 58 000 | `NoDuplicateKey`, `FindsInsertedValue`, `NeverFull`, `CallsReturn` | 3 threads, a key each, 3 slots: the table can fill up; two keys want the last slot, so a race is lost, the search wraps and skips; the third may be erased |
| tls | 63 000 | `ImplementsThreadLocal`, `ObjectsHaveOneOwner` | 2 threads, 2 slots, 2 objects; the ids collide at the last slot: both threads race for it, the loser wraps, and searches past the other's slot from then on, while that one is reset or cleared; a slot that is on nobody's way is released, found nil again, and claimed again; ids come back |
| tls_release_colliding | | **violated**: `GetReturnsOwn` | section 5 |
| lists | 357 000 | `TailFollowsHead`, `SameAnswers`, `NodesAreSound`, `LinkedNodesAreItems`, `ChunksAreContents`, `ImplementsDeque`, `XorlistIsDeque` | 3 nodes: an end, a middle and an end, all wrap-arounds, full and empty; 2 items tell a wrong one. With pointers, 3 nodes in 2 lists; chunks of 2 with up to 4 items: splices leave a half full chunk inside |
| allocators | 28 000 | `AllocationsAreDisjoint`, `RefsCountAllocations`, `MapsHoldAllocations`, `PoolsAreExact`, `PoolsImplementPool`, `AllocReturns` | maps of 5 or 4 bytes; requests below, at and above; 4 maps, 3 allocations alive. Pools: 3 objects; 2 heap pools, 2 slabs (of 1 and 2 objects), then malloc fails |
| synchronized | 10 000 | `LocksAreProxies`, `NoLostUpdate`, `NoDeadlock` | 2 threads, 2 objects, 2 proxies each: recursion, moves over another lock, the circle |
| metrics | 108 000 | `EveryStartIsStopped`, `NeverAborts`, `ImplementsProfile`, `UpAndDownAgree`, `ImplementsPathMap`, `TimesAreSpent` | monitors: 3 scopes (interchangeable: symmetry) on stacks of 2, so that one overflows; 2 metrics make equal and unequal paths; time up to 2, so that a stopped metric is started again. Trie: 4 nodes, keys 1 and 2, paths up to 2 spelt out: children, siblings, nephews |
| nested_report | | **violated**: `ReportHasPaths` | section 5 |
| json | 218 000 | `CallsFollowText`, `OnlyDepthAndExponentsAreRefused`, `TruncationIsReported`, `ModelIsText` | depth 3: an object in an array in an object; all token sequences; terminate() in any callback; 2 texts, so that the second starts on what the first left. Model: 10 cells and 2 keys: two objects and an array side by side or within each other, the same key twice |
| containers | 114 000 | `ImplementsDictionary`, `ZsetIsSorted`, `StringIsText`, `StacksAgree`, `AnyOwnsObject`, `TreeIsPaths` | hash: 4 keys for 3 slots, three collide at the last slot. zset: 6 words of 0 to 3 bytes, prefixes of each other, inserted and erased in every order. String: up to 4 of 2 characters, empty to full, arguments up to 2 at every place. Stacks: two of 2 cells and one of 1, up to 4 items, so that each overflows and is appended to others. Flags: 2 words of 3 bits, runs of 2: every edge is crossed both ways. Any: 3 anys, 2 resources. Tree: 3 nodes below the two roots, paths of up to 3 keys of 2: a chain, siblings, nephews |
| string_copy | | **violated**: `CopyIsEqual` | section 5 |
| terminate_anywhere | | **violated**: `TerminateStops` | section 5 |

What the less obvious properties say:

* `FindsInsertedValue` looks up every key in every state the way a search by one
  thread would, and compares with what was stored last. It fails if two claims race
  into two entries, if an erase breaks a chain, or if a claimed entry has a stale value.
* `NeverFull`: a search that loses a race skips that slot without looking at the key
  that won. That this never makes it run out of slots is a counting argument: every
  slot it has passed belongs to another key.
* `SameAnswers` relates three implementations that keep the same items in different
  places; `NodesAreSound` is about the memory that holds no item.
* `XorlistIsDeque` allows one departure and names it (`PopDropsItems`): in a list of two or
  more items, a pop at an end whose neighbour is node 0 empties the list. That is a pop of
  one of two items in the nodes 0 and 1, but longer lists have it as well: push_back,
  push_front and push_back take the nodes 0, 1 and 2, so the list is 1, 0, 2, and either pop
  empties a list of three. Every other call, on every arrangement of nodes that calls reach,
  is that of a deque.
* `LinkedNodesAreItems`: the links of every list lead along its items both ways, and each
  node the program has allocated is in one list.
* `ObjectsHaveOneOwner`: each live object is in one place: a slot, or the hands of one
  thread; and no object is live without one.
* `MapsHoldAllocations`: allocations of different maps do not overlap, and a refbump keeps a
  map exactly as long as something in it is in use, with two exceptions the code makes:
  its first block, and a block of an alloc() that has not returned yet.
* `ImplementsProfile`: the monitor keeps two stacks that are full at the same depth and
  a counter of what did not fit. The promise, `Profile`, has one stack. That the
  three are popped in step is the refinement.
* `ZsetIsSorted` reads the table and the bytes: a wrong offset, a gap or a lost NUL shows
  in the state in which it arises, and not first in a later call on another string.
* `StringIsText` compares bytes with the string that std::string has after the same calls,
  and the answer of each search with the answer for that string.
* `TimesAreSpent`: the trie monitor has one toggle for start and stop, and trusts that the
  cursor leaves every node by the way it came, however scopes are moved, assigned and
  stopped early. The history has every running metric with the time it was started, and
  the time spent in each path; the timers must be those, and the report must be those
  while no two paths end alike.
* `StacksAgree` is about the stack of metrics and the packed stacks of flags: the cells, the
  overflow and the comparisons are those of the items, and the top of a stack of flags is
  the last flag, but for the stale bit of section 5, which it allows and names.
* `AnyOwnsObject`: each any gives what it should; a resource counts as many owners as there
  are anys that hold it, which fails if an object is destroyed twice, never, or as another
  type.
* `TreeIsPaths` compares the nodes with a map of paths: no path is lost, none appears, two
  paths share no node, and foreach() visits them in order.
* `ModelIsText` compares views with the text: along every path of keys, the object that is
  there, how many keys it has and which. It is about the offsets of cells, which are right
  only if every callback leaves the place of its container for the next one.
* `CallsFollowText` is the parser against the grammar: the callbacks of every token,
  and the state stack as a function of the open containers. It makes one exception, for
  valid numbers that the parser does not read as one (the token "exponent", section 5), and
  says what comes instead.
* `OnlyDepthAndExponentsAreRefused` lists what keeps a valid text from being read: its depth,
  and such a number, which an error handler refuses at any depth.

`CHECK_DEADLOCK FALSE` is in the configurations of metrics, nested_report and json: a monitor whose scopes have all been
used up (`MaxCalls`, `MaxTime`) and a parser that has read its last text (`Texts`) stop.
Bounds that are not in the code are marked `bound:` where their constant is declared;
they are guards of the actions that would exceed them (`MaxLive`, `MaxArenas`, `Most`,
`MaxCalls`, `MaxTime`, `MaxNodes`, `MaxItems`, `MaxCells`, `Texts`), how long the paths are
that the program spells out (`MaxPath`, `MaxDepth` of `Tree`), or the memory there is
(`MaxSlabs`). A text that outgrows `MaxCells` is still parsed, but no longer followed by
the model.

## 4. Liveness and fairness

* `CallsReturn`: weak fairness of `Proceed(t)`, one
  per thread, which covers the steps after a call has begun and not the decision to
  call. The code waits for nothing: no lock, no loop without a bound. So a
  thread that the scheduler runs takes its next step. Nothing is assumed about who wins
  a race, and strong fairness is not needed, since a failed compare-and-swap moves on.
* `AllocReturns`: weak fairness of `Attempt`, the next recursive call of alloc(), which
  runs in one thread.
* No other component waits or loops on what another actor does. `NoDeadlock` of
  `Synchronized` is a safety property: no set of threads each waiting for one of the set.

## 5. Where the code and what it says of itself part

**`tls::release()` and colliding ids** (run `tls_release_colliding`, tls.h:138).
`release()` erases the thread's slot: a plain store of the null pointer and a relaxed store
of the nil key, which nothing orders for another thread. The counterexample is two threads,
one of which puts a pointer and releases it while the other is in its first get(). The second
claims the slot when it sees the nil key and before it sees the null pointer, and its get()
returns the first one's pointer, which the caller of release() is about to destroy. That
another thread has storage of its own is the name of the test at tls_tests.cpp:90
(other_thread_has_its_own_separate_storage); the test has no release().
A longer trace has the stores in order: release() leaves no tombstone, so that a thread whose
entry is behind the erased one gets null although it has put a pointer (tls.h:134).
The run `tls` shows that with collisions all is well if a slot is released only when it is
on no other thread's way (`Careful`), and the theorem `TlsImplementsThreadLocal` that all is
well without release().

**Copies of a full string** (run `string_copy`, mono_string.h:324). The copy constructor
and the assignment copy `N` of the `N + 1` bytes, and so leave the last one, the size. The
copy of a string of `N` characters has no NUL and does not equal the original, which
mono_string_tests.cpp:114 expects (of a shorter string, whose NUL is among the `N` bytes).

**terminate() in any callback** (run `terminate_anywhere`, json.h:889). json.h:551 promises
that a derivee may terminate the parser at any moment. terminate() replaces the text by an
empty one, and the loop goes on with `++s`: after a brace, a bracket or a literal (where
`s` has moved on by 3 or 4 besides) that is past the NUL of the empty text, and the parser reads
what comes behind it in memory. After strings and numbers the loop looks at the NUL first; the
test at json_tests.cpp:418 has a string. The run `json` has terminate() in all callbacks, and shows that
up to that moment the calls are right.

**The report of a metric2::monitor** (run `nested_report`, metric2.h:361). report() files
every timer under the key of its node alone, although it returns a tree, and
metric_monitor2_tests.cpp:64 reads it by path. A metric measured below another one
is not at its path, and of metrics that end alike one is reported.

The models below state a discipline for the program instead, where the code, met
otherwise, does what its author can hardly have meant. Each is a constant or a guard,
or an exception that a property names, and a hazard of `PROJECT.json` with its line.

| where | discipline of the model | without it |
|---|---|---|
| tls.h:204 | a key is used by one thread | two threads that index one new key both claim a slot |
| tls.h:134 | an erased key is on no other key's way (`Careful`) | as in `release()` above |
| tls.h:310 | a thread empties its slot before it ends | the next thread with its id inherits the pointer |
| mono_list.h:169 | a program pops from one end | push, push, pop_back, pop_front empties a list of one wrongly |
| mono_xorlist.h:81 | lists of at most 2 items are cleared (`MaxCleared`) | the free list is made of xor links |
| mono_hash.h:273 | an erased key is on no other key's way (`Erases`) | a key behind it gets a second entry |
| object_pool.h:199 | assignment to a pool without slabs (`MovesOnto`) | its slabs leak |
| object_pool.h:71 | no destroy_all() while objects are raw or abandoned | destructors run on them |
| memory.h:232 | requests and maps fit in an int | the cursor moves back |
| memory.h:484 | no request in `Block - Overhead + 1 .. Block - 1` | a refbump adds blocks without end |
| memory.h:515 | the last allocation is never freed (`FreesAll`) | alloc() reads the last of no maps |
| concurrency.h:109 | objects are entered in order (`InOrder`) | two threads deadlock |
| mono_stack.h:351, :288 | fewer open metrics than `Wrap` | size() is 0 at 256; paths are compared on a length cut to 8 bits |
| mono_string.h:324 | strings are copied over strings of their size (`CopiesResize`) | as in the copy above; size() is the old one |
| algo.h:128 | no search backwards for a string that begins with two equal characters, or is empty | "aab" is not found in "aaba" |
| mono_string.h:401 | resize() downwards | the characters between are what memory held |
| mono_stack.h:174 | items are not zero; an overflowing stack is appended only to one that it fills (`Appendable`) | an unused cell equals an item; a stack has room and an overflow |
| small_any.h:55 | assignments where no function meets an object of another type, and no copy of an any to itself (`CopyAssignable`, `MoveAssignable`); constructors do not throw | the object is destroyed as another type, or never; an any assigned to itself is copied from the object it has just destroyed |
| tree.h:158 | no erase() of the empty path | a key that nobody has set is erased |
| json.h:497 | an array is pushed first on a `compressed_objstack`; `nibblestack<N>` with N / 2 < 255; no stack is pushed to when full | the byte before the array is read and changed; the size carries |
| json_model.h:216 | strings, objects that are not empty, arrays of strings; a complete text; one text for a model (`Takes`) | numbers and empty objects have no cell, and the next key is taken for the value; items that are containers are not counted; the views of a truncated text read past the buffer |
| json.h:299 | none: `StacksAgree` allows that a false flag of a `bitstack<N>` is read as true, if it is not the first of its word | push<false>() does not write the bit, which is what it was when it was last in use; json_bitstack_tests.cpp:69 (rewrites_true) expects the false flag, of the first bit of a word, which is cleared with the word |
| json.h:841 | none: `CallsFollowText` and `OnlyDepthAndExponentsAreRefused` name the exception | a valid number with a sign or a capital E in its exponent (1e-5, 1E5) ends for the parser at that character: an error handler is told of an unexpected character, and without one an array gets two items, a member the first part as its value |
| mono_hash.h:303 | hash functions have no negative values (`HashAssumption`) | `amiga_hash` and `direct_hash` return an int; if it is negative, so is the index |

Read in the code and not modelled: the initializer_list constructors of `mono::list`,
`slist` and `xorlist` (mono_list.h:36, mono_slist.h:56, mono_xorlist.h:61) push before
clear_init() has set up the lists; mono_string.h:375
keeps the size in a `char`, which ends at 127 (`StringNAssumption`); metric2.h:80 asserts
on a second metric at the top; metric2.h:343 calls aggregate_timer::start() for stop() as
well, so that calls are never counted; tree.h leaves the value of a node that a walk has
made uninitialised (`Junk`); memory.h:83 does not look at the result of mmap(); the tests of
json_model.h use single-quoted texts that the parser refuses.

## 6. Proofs

`tlapm` checks every leaf; nothing is assumed but the `ASSUME`s of the modules, which
TLC evaluates in the runs.

| theorem | says | argument |
|---|---|---|
| `ListsProofs!CursorsAgree` | `Spec => [](TypeOK /\ TailFollowsHead)` for every capacity | inductive as it stands: `tail` is `head + count` modulo `N`; the modulus is replaced by a wrap of at most one turn (`WrapOnce`) |
| `ListsProofs!QueueImplementsDeque` | `Spec => ImplementsDeque` for every capacity and item type | `Contents` reads `count` cells from `head`; each action maps to the deque's action or a stutter, cell by cell |
| `ListsProofs!ListsGiveSameAnswers` | `SameAnswers` for any number of nodes | below |
| `ListsProofs!NodesOfListsAreSound` | `NodesAreSound`, if `MaxCleared <= 2` | from the same two invariants |
| `ListsProofs!XorlistImplementsDeque` | `XorlistIsDeque`, if `MaxCleared <= 2` | below |
| `ListsProofs!LinksLeadAlongItems` | `LinkedNodesAreItems` for any lists and nodes | below |
| `ListsProofs!ChunksHoldContents` | `ChunksAreContents` for any items and any size of the chunks | below |
| `LinearHashProofs!TableStaysConsistent` | types, `NoDuplicateKey`, `ProbeChain` for every table size, hash and number of threads | below |
| `LinearHashProofs!ValuesAreFound` | `FindsInsertedValue`, `ReferenceIsCurrent` | from the same invariant |
| `LinearHashProofs!FindNeverFull` | `NeverFull` for a finite `Key` | a search that is full has passed `N` slots with other keys, all different: `N` keys besides its own |
| `TlsProofs!TlsImplementsThreadLocal` | `TlsSpec => ImplementsThreadLocal` without release() | each step of `Tls` is a step or stutter of `LinearHash`, whose invariant says that the slot a thread has found holds its own last pointer |
| `TlsProofs!TlsOwnsObjects` | `ObjectsHaveOneOwner` without release(), however threads end and ids come back | `OwnerInv`, below |
| `AllocatorsProofs!NoByteTwice` | `AllocationsAreDisjoint` if the map's size is an int | all live allocations end before the cursor |
| `AllocatorsProofs!RefsAreExact` | `RefsCountAllocations` | cardinality of the live set, step by step |
| `AllocatorsProofs!MapsAreSafe` | `MapsHoldAllocations` if `RequestsFit` | `ArenasInv`, below |
| `AllocatorsProofs!PoolsKeepPromise` | `PoolsImplementPool` for any pools, slabs and objects, if `MovesOnto = 0` | below |
| `AllocatorsProofs!FreeListsAreExact` | `PoolsAreExact`, likewise | below |
| `SynchronizedProofs!MutexCountsProxies` | `LocksAreProxies` for any threads, objects and proxies | cardinality of the proxies of an object, through construction, moves and destruction |
| `SynchronizedProofs!NoCallIsLost` | `NoLostUpdate` | a thread inside a method has a proxy, so it owns the mutex: two are never inside |
| `SynchronizedProofs!OrderPreventsDeadlock` | `NoDeadlock` if `InOrder` | of the threads in a circle, the one that waits for the greatest object: the owner of that object would wait for a greater one |
| `JsonReadingProofs!ParserFollowsGrammar` | `CallsFollowText` for every depth, every text and derivee | below |
| `JsonReadingProofs!RefusesOnlyDepthAndExponents`, `ReportsTruncation` | `OnlyDepthAndExponentsAreRefused`, `TruncationIsReported` | parts of the same invariant |
| `MetricMonitorProofs!StartsAreStopped`, `AssertionsHold` | `EveryStartIsStopped`, `NeverAborts` if `FewScopes` | below |
| `MetricMonitorProofs!MonitorImplementsProfile` | `Spec => ImplementsProfile` if also `ExactKeys` | each call is a call of the profile, whose stack is the path and as many ignored metrics as the overflow counts |
| `MetricMonitorProofs!TriesLoseNoNode` | `UpAndDownAgree` for all keys and bounds, in both users of the trie | below |
| `MetricMonitorProofs!TrieImplementsPathMap` | `ImplementsPathMap` for all keys, paths and bounds | below |
| `MetricMonitorProofs!TimersHaveTimesSpent` | `TimesAreSpent` for all keys, bounds and scopes | below |
| `ContainersProofs!AnyGivesItsObject` | `AnyOwnsObject` for any anys and resources | below |
| `ContainersProofs!HashImplementsDictionary` | `ImplementsDictionary` for every size, hash without negative values and set of keys, without erase | below |
| `ContainersProofs!StacksAlwaysAgree` | `StacksAgree` for any stacks, capacities and items | below |
| `ContainersProofs!StringsHoldTheirText` | `StringIsText` for any characters and any room, without `CopiesResize` | below |

**The lists in arrays** (`ListsProofs!SameInv`). `SameAnswers` is not inductive: which items
a list has depends on links that a call follows. `SlistInv` and `ListInv` say that there are
two sequences of cells, those of the list and the free ones, which share no cell and leave
none out (`Shared`); that `next` leads along both; and that the first holds the
queue's items (`Holds`). For mono::list they add the links back (`BackLinks`) and that the
end which the program does not pop from is still marked (`FarEnd`): the other one is not,
since a pop does not reset the link of the new end. Each call adds a cell at an end or
takes one off, and so moves it from one sequence to the other (lemmas `TookLast` to
`GaveAll`). What the queue does is said of its `Contents` alone
(`AddsLast` to `Writes`), so that the lists are compared with a sequence and not with a ring.
That size(), find_prev() and the iterators, which walk along the links, see these sequences
is `WalksOfShared`: the walk from the head meets the cells in their order and stops.

**The xor-linked list** (`ListsProofs!XInv`). The link of each cell is the exclusive or of its
neighbours' indices, 0 beyond the ends (`TwoWay`). The links say the same of
the sequence turned round (`FlipApart`), so each call is proved at one end only. Of
the exclusive or the proof uses that it is commutative and associative enough to cancel
(`XorZero`, `XorUndoes`, `XorCommutes`), by least counterexample from its bits. `Apart` does not say
that every cell is in a sequence: a pop of `PopDropsItems` frees the cell it pops and loses
the others. `MaxCleared <= 2` is the
discipline of section 5 (mono_xorlist.h:81), which the run keeps as well, and `OffsetAssumption`
says that the exclusive or of two offsets is an offset, as it is when `MaxOffset` is all ones.

**The lists with pointers** (`ListsProofs!PointersInv`). `Woven` says that each list's items are
strung on its head, tail and links, as a sequence is (`Strung`), and that no node is twice in
the lists (`OnceEach`), which is what makes a write to a node's links harmless to the other
lists (`StrungFrame`). Both pops and erase() take the node at some place out, and are one lemma
(`WovenWithout`); a push at the back and a splice join two sequences (`WovenJoined`). For
list<T>, `Owns` says that the nodes in memory are those of the lists that exist. Its clear()
walks back along `prev`: `FromIsNodes` shows that the walk meets the nodes of the list, all of
them and no other, since there are no more of them than there are nodes (`FewNodes`).

**The list of chunks** (`ListsProofs!DuoInv`). That the chunks, read one after another, are the
items (`ChunksOf`) is about a fold over a sequence of sequences. `FlatIs` says of it what a
recursive function would (each prefix is the one before it and a chunk), and from that, by least
counterexample, that it is the same for the two parts of a split (`FlatOfBoth`), and what a
push or pop does that changes, adds or drops a chunk at an end (`FlatOfFirst`, `FlatOfLast`). A splice is
`FlatOfBoth` alone.

**The invariant of the table** (`LinearHashProofs!Inv`). `NoDuplicateKey` is not
inductive: that the key a thread is about to claim is in no other slot depends on where
it has looked. `Inv` adds `ProbeChain` (no nil between a key's home and its slot),
`EntriesOK` (an entry's value is the last one stored under its key, and a key without an
entry has none), and for each thread `ThreadOK`: the slots its search has passed belong
to other keys (`Passed`), and at the compare-and-swap the slot is the next one. Then
`ClaimedKeyIsNew` follows: a slot that holds the thread's key would be behind the nil it
claims, against `ProbeChain`. The searches of the other threads stay right because a
claim only turns a nil into a key that they do not look for.

**The discipline.** The table's theorems assume `OwnKeysNoErase`: no two threads use the
same key, and nobody erases. Both are necessary (section 5), and `tls` without release()
keeps the first by construction, since a key is a thread's id (`OwnIds`). The runs also
erase, where the erased key is on nobody's way.

**The owners of the objects** (`TlsProofs!OwnerInv`, beside the table's `Inv`).
A live object is in one slot (`SlotsOwn`) or is the new one of one reset (`CallsOwn`). Between
its `delete` and its store a reset has a slot that still points to the object it has
deleted, and that slot does not count (`Held`). That no other thread deletes or reads the object meanwhile
needs the table's invariant: two threads are never at one slot (`SlotsAreApart`).
`Erasers = {}` says that nobody calls release(); how threads end is left open, since
an object that is inherited has its owner all the same.

**The maps** (`AllocatorsProofs!ArenasInv`). What an allocation of a list of maps must not
overlap lies in the same map below its cursor (`HeldBelow`, `HeldApart`); that the map is
still there needs `MapsCount`, a map's references are the allocations in it, and a map
without any is the first one and starts at its first byte; and `AddedServes`: a block that a
call has added and not used yet is empty and behind all others, and the request fits.
`RequestsFit` says that sizes are ints, and that no request is in the range of
memory.h:484 (section 5), where refbump would add blocks without end.

**The pools** (`AllocatorsProofs!FixedInv`, `HeapInv`, `HeapCounts`). That a free list holds
exactly the free objects cannot be read off one link. `IsFreeList` says it without a walk:
the links of the free objects go down in some ranking, no two lead to the same object and
none to the first. Taking the first object and putting one in front keep it
(`FirstTaken`, `PutFirst`), and the lists that dealloc_all() and a new slab build have
rankings of their own (`RunsBackwards`, the place in the slab). `WalkIsExact` then shows
that the walk from the first object takes each free one once and ends. Beside it `HeapInv` says
that a slab is in one pool and once in it, and `HeapCounts` that none is lost and that
size() and capacity() are cardinalities. `MovesOnto = 0`, that the program does not assign
to a pool which has slabs, is necessary: those would be lost (section 5, object_pool.h:199).

**The parser** (`JsonReadingProofs!Inv`). While a text is valid, the stack is the open
containers and perhaps one cell for a member that waits for its value (`Matches`), and the
calls are those of the grammar. `Matches` is inductive only for a text that is well-formed
itself (`WellFormed`: a member waits only in an object); and `OnlyDepthAndExponentsAreRefused` only
together with `Matches`, since what the parser refuses depends on its stack. After the
first invalid token nothing is claimed but that the stack stays in its array (`StackOK`).

**The monitor** (`MetricMonitorProofs!Inv`). `EveryStartIsStopped` says that the stack's size
is the number of running scopes, modulo the width of `size_type`; inductive is that
path and overflow together are that number, that there is overflow only on a full path,
and that path and timers have one length. `FewScopes` (fewer running scopes than
`size_type` counts) is necessary: section 5, mono_stack.h:351. `ExactKeys` (a path's
bytes are not cut to eight bits when it is compared, and no metric equals an
unused cell) is necessary for the table alone: mono_stack.h:288 and :174.

**The trie** (`MetricMonitorProofs!IsTrie`). A node comes after its parent and before its younger
siblings, in the order in which create() made them, and the links down are functions of the links
up: `child` is the first of the nodes with that parent, `sibling` the next. So the path of a node is
defined by recursion up (`PathsOf`), the walk down by recursion along the path (`NodeAt`), and
each is the other's inverse (`ArePaths`). A new child is put behind the last sibling, which
changes one link (`Grows`); all paths there were stay. foreach() visits children, then siblings: that
it visits each node once is an induction from the last node to the first, over the nodes
below and beside a node (`Under`). As a map of paths (`MapOf`), up() leaves a path for the one without
its last key, down() adds a key or finds it (`DownGrows`), and has() and create() follow or make
the path they are given. All of it is said of a trie with any values (`GoodTrie`), which the trie by
itself and the monitor's share (`Below`).

**The timers on the trie** (`MetricMonitorProofs!TimesInv`). The monitor has one toggle for start and
stop. `TimersFit` says what the toggle has made of each timer: the time spent in its path, or, while
its path is being run, the time of the start less what was spent before. Being run are the paths
that are a beginning of the cursor's. A scope's start adds a key to that path and toggles there (`StartFits`), a stop
toggles and goes up (`StopFits`). `ScopesRun` says that as many scopes run as metrics are open, so that
no stop comes to an empty trie.

**The anys** (`ContainersProofs!AnyInv`). An any holds the functions of its object's type, so
every function meets an object of its type, and the count of a resource is the
cardinality of its owners; lemma `Recount` moves one owner, and every operation is one or
two of these (`AnyPut`, `AnyPutTwo`).

**The hash** (`ContainersProofs!HashInv`). No key is twice in the table, and no empty slot is
before a key on the way of its search (`ChainsHold`), so the search ends at the key
(`SearchFinds`). The probe sequence of a key visits every slot once; so a search without
an end is a full table, and the number of keys is the number of slots taken (`Room`).
The hypothesis `Erases = {}` is needed because an erased slot is not marked
(mono_hash.h:273, section 5); the run `containers` erases a key on nobody's way as well.

**The stacks** (`ContainersProofs!StackInv`, `FlagsInv`). Cells, size and overflow of an overflow_stack are
functions of all that was pushed (`StackOf`), whatever the cells held before the last pop
or copy, because a pop writes zeroes. Appending a stack is pushing its items one after another, which is
followed by least counterexample (`AllPushed`, `OverAppended`). That memcmp() of all cells
orders the stacks as their items do needs these zeroes (`OneIsBelow`). The stacks of flags
differ in what a pop leaves. In a bitstack a bit above the top may be set, but not the first one of a
word (`Bits`); where a push or pop crosses into another word is arithmetic of places
(`PlacesAreOrdered`). A nibblestack has no such bits, and a compressed_objstack has the
places where runs begin (`Runs`).

**The string** (`ContainersProofs!StringInv`). The array holds the text, a NUL behind it and the room
left in the last byte (`HoldsText`); for a full string these two are one byte. insert, replace, erase,
append and assign all keep a beginning, put something in, and move the rest, whose order of
reads and writes in one array is what could be wrong: they are one lemma about splicing (`SpliceHolds`).
find() and the searches for characters take the least or greatest place of those that match in the
bytes, which are those of the text; rfind() goes by memrmem(), whose recursion is followed by
least counterexample (`MemrmemIs`). The hypothesis
is that copies are of one size (`~CopiesResize`): the run `string_copy` shows what becomes of the others.

**What the hypotheses are.** Each is a discipline of section 5, which the code leaves to its
caller, or a size that fits its type. The constants of the runs `lists`, `allocators`,
`synchronized`, `json` and `metrics` meet them and are an instance of the theorems. The runs `linear_hash`, `tls` and
`containers` go beyond: there a key is erased, or a pointer released, that is on no
other's way.

The library's induction theorems have operator parameters, which no backend here can
instantiate. A property of all numbers is proved by the least counterexample instead
(`LeastExists`), which is how the proofs follow the recursive functions of the pools, the
walks along the lists, the appends of stacks and the bits of an offset.

Only model-checked: liveness under fairness (`CallsReturn`, `AllocReturns`),
which is out of the prover's reach, and the rest of section 8.

## 7. What the models leave out

* The items: their types, constructors, destructors and what they throw, but for
  `object_pool`, where the run of a constructor, which may throw or re-enter, is a step;
  `heap_pool` constructs in one.
* Iterators that only read are operators, not actions.
* The memory model beyond what the source's relaxed operations let another thread see:
  a load may see the nil that has been replaced, and the two stores of erase() are not
  ordered. A data race on `_size` is a load and a store that others may come between.
* System calls: malloc fails in `HeapPool`; mmap and munmap do not fail.
* Text: the JSON parser gets tokens, hash values are constants, a path is a sequence. A
  zset's offset is one number in one of its bytes, and does not overflow.
* A debug build: an assertion that would fail is the guard of its call where the program
  is to blame, and a state a property excludes (`NeverFull`, `NeverAborts`) where not.
* `index_pool` (one vector), `heterogeneous_pool` (the free list of `ObjectPool` over a
  union of types), `function_ref`, `trivial_variant` (one pointer or tag; which destructor
  runs is the compiler's choice), meta (no run time), benchmarks.
* `json::objstack`, a `mono::stack` of bool, which compiles for one flag only, since
  mono_stack.h asserts that its items can be compared as memory; `tree::insert()`, which
  does not compile; `tree::to_json()`, which writes what `foreach` visits.

## 8. Plan

Built in this order, the behaviour that several actors can break first: table and `tls`,
the array containers, pools and lists, allocators, `synchronized`, metrics, parser, hash,
zset and string; then the monitor on the trie, the document model, the stacks of metrics and
of flags, `small_any` and `tree`. Then proved: every safety property and refinement that a run checks,
except three, which are only model-checked:

1. `ZsetIsSorted`: the offsets in the table are sums over all words before them, and each call moves
   them by two different amounts; the proof would be that of `StringIsText` for many strings in one array.
2. `ModelIsText` and `TreeIsPaths`: what they spell out is defined by recursion over nested data.
