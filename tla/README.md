# Verification of the slab allocator kernel

TLA+ specifications of a small RISC-V kernel: its buddy and slab allocators, its
threads, semaphores, sleep queue and console, the heap of its programs and its
page tables, its traps and the lock of its printing functions. TLC checks them on
small instances. For every component that is modelled TLAPS proves the invariants that
are checked, what a trap returns to, and that the abstract specification is implemented
where there is one, for every value of the constants; and for the sleep queue that every
thread sleeps as long as it asked. Everything about liveness is left to TLC.

Paths below are relative to the repository; the kernel is in `src/kernel`, its
headers are in `h`.

## 1. Inventory

### Components

| component | source | state | operations |
|---|---|---|---|
| Buddy allocator | `buddy.cpp` | a free list per order, one bit per pair of buddies | `buddyInit`, `alloc`, `free` |
| Object caches | `cache.cpp`, `SlabAllocator.cpp`, `slab.cpp` | per cache three lists of slabs (full, partial, free); per slab a free list threaded through an array, counters | `kmem_cache_create`, `_alloc`, `_free`, `_shrink`, `_destroy` |
| Cache descriptors | `CachePool.cpp`, constructor of `Cache` | pages with slots (records) in a list; the list of all caches | `allocateSlot`, `deallocateSlot`, `createRecord`, `destroyRecord`, `CachePoolFinalize` |
| Small buffers | `CachePool.cpp`, `SlabAllocator.cpp` | one cache per power of two, slab headers in caches of their own | `kmalloc`, `kfree`, `SlabInit`, `SlabFinalize` |
| Threads, scheduler | `tcb.cpp`, `scheduler.cpp` | the running thread, the list of ready ones, the control blocks, the counter of the time slice | `createThread`, `startThread`, `dispatch`, `suspend`, destruction |
| Semaphores | `kernelsem.cpp` | value and queue of each | open, `wait`, `signal`, close |
| Sleeping | `sleeping.cpp` | the delta list | `add`, `remove` |
| Traps | `riscv.cpp`, `strap.S`, `contextSwitch.S` | `sepc`, `sstatus`, what handlers keep of them on the stacks of threads | 16 system calls, timer and console interrupts, three page faults, `wrapper` |
| Console | `kernelcons.cpp` | two rings of 4096 characters, six semaphores | `put`, `get`, `flush`, the threads `consoleput` and `consoleget` |
| Heap of programs | `MemoryAllocator.cpp` | a list of free blocks with headers | `kmem_alloc`, `kmem_free` |
| Page tables | `mmu.cpp` | three levels of tables | `map`, `punmap`, `MMUInit`, `MMUFinalize`, the fault handler |
| Boot, shutdown | `main.cpp` | | |
| Print lock | `src/user/lock.S`, `printing.cpp` | one word, the processor's reservation | `LOCK`, `UNLOCK` |
| Printing, C++ interface, general registers | `kprint.cpp`, `syscall_cpp.cpp`, `registerUtility.S` | none that matters here | |

### How they interact

Everything rests on the buddy allocator: the slabs of the caches, the records of
the cache pool and the page tables are its blocks. The control blocks of threads,
the semaphores and the nodes of their queues and of the sleep queue are objects
of caches, constructed when a slab is made and again when an object is freed;
`createThread` and `createSem` rely on that. The stacks of kernel threads and the
rings of the console are small buffers; the stacks of programs come from
`mem_alloc`, whose heap begins where the kernel's ends and whose pages are mapped
as blocks are handed out.

The machine has one processor. A trap is handled with interrupts off up to its end
or to the context switch that it makes, so a system call is atomic unless it
blocks. `main()` and the console threads run with interrupts off, too: they are
first entered with SIE clear, and nothing sets it but `main()` when it waits in
`flush`, where every thread may run between two of its instructions. The
threads of programs, and the idle thread, run in user mode, where the timer
preempts them after two ticks and the console's interrupt is taken. `Traps` checks
that this is so, as every other module takes it for granted. A handler may make
system calls itself: `put` and `get` wait for semaphores with the user's functions,
and destructors of threads give memory back with them, which may take a page fault on
a header: three traps, one in another.

### What is hard

* Interleaving: threads between the wait and the signal of `put` and `get`, the
  two console threads, the device, the timer; a trap between `lr.w` and `sc.w`.
* Nesting: up to three traps in one another, and switches to other threads in nested
  handlers, with one `sepc` and one `sstatus` for all of them.
* State in two places: flags and lists, values and queues of semaphores, bits and
  free lists, counters and chains, a header in a page that may not be mapped.
* Long sequences of legal calls: cutting and joining of blocks, slabs that move
  between lists, tables that come and go.
* Ordering: threads that sleep until the same tick, caches destroyed in any order,
  characters.
* Limits: no block left, no page left, a full or an empty ring, blocks and slabs
  with one object or of size zero.

What each component must get right is the list of properties in section 4; where
it could go wrong, line by line, is `hazards` in `PROJECT.json`.

## 2. Modules

Names of constants, variables and actions are those of the code where TLA+ has no
reason against it. An operator introduced by "A mistake" is a plausible bug in the
definition that follows it; nothing uses it but the test that the property named in
`PROJECT.json` notices the difference.

| abstract | detailed | instance for TLC | proofs |
|---|---|---|---|
| `BlockPool` | `Buddy` | `MCBuddy` | `BuddyProofs` |
| `ObjectPool` | `Slab`, `SlabCache` | `MCSlabCache` | `SlabCacheProofs` |
| | `CachePool` | `MCCachePool` | `CachePoolProofs` |
| `BufferPool` | `Buffers` (on `Slab` and `BlockPool`) | `MCBuffers` | `CachePoolProofs` |
| `Alarm` | `Queues`, `Sleeping` | (with `Threads`) | `QueueProofs`, `ThreadsProofs` |
| `ThreadLife` | `Threads` (extends `Sleeping`) | `MCThreads` | `ThreadsProofs` |
| | `Traps` | `MCTraps` | `ProcessorProofs` |
| `Mutex` | `PrintLock` | `MCPrintLock` | `ProcessorProofs` |
| `Terminal` | `Console` | `MCConsole` | `ConsoleProofs` |
| `Heap` | `MemoryAllocator` | `MCMemoryAllocator` | `MemoryProofs` |
| `Translation` | `MMU` | `MCMMU` | `MemoryProofs` |

**Buddy.** `blocks` and `bitmap` are the variables of the class; `held` is what
callers hold. `alloc` is the loop over the orders with `splitBlock` and the flips
of the bits, `free` the whole loop of `returnBlock` and `coalesceBuddy`. Addresses
are page numbers. `getIndex` is translated with its shifts: it is right only if
2^`MAX_ORDER` is the number of bytes of a page, which `BuddyAssumption` says. With
the 128 MB of the Makefile's machine both are 2^12. `BlockPool` is what the rest of
the kernel needs: the models of the caches, the cache pool and the page tables take
any available page.

**Slab, SlabCache.** `Slab` has the structures and their operations as functions on a
memory, because one call performs several of them; `SlabCache` has the calls of
`slab.h` as actions. A slab is the block that holds it, an object a pair of slab
and slot. The header of an object is found by clearing 12 bits of its address
(`SlabAllocator.cpp:41`); the model assumes that objects lie in the first page of
their slab, which holds for all caches of the kernel. `destroySlab` calls the
destructor of every object, free ones included; destructors do not touch the cache
they belong to, and are left out.

**CachePool.** Records with their chain of free slots and the list of caches.
`createFails` is `allocateSlot` without a page: `-fcheck-new` of the Makefile keeps
the constructor from being called, but `tail` has become null. From then on the
list of records is not what the code takes it for; `failed` remembers that, the
properties say what still holds, and the model ends where `destroyRecord` would
follow a null pointer. `CachePoolFinalize` ends the model when no cache is left.

**Buffers.** `kmalloc` and `kfree` with the functions of `Slab` on two kinds of caches
in one memory: those of the buffers, whose slabs are extents of the buddy allocator,
and those of the headers of these slabs. A header is named by the place it lies in,
so that one which is given out twice is one name for two slabs. The first size that is
asked of a class decides how many buffers a slab has (`bufferInit`);
`BuffersAssumption` says that they fit, which is so because the kernel asks for powers
of two. `kmalloc` fails in three ways: no header and no page for one (`noHeader`), a
header but no memory (the second half of `createBufferSlab`, which loses the header),
and a size out of range. `SlabFinalize` ends the model.

**Sleeping, Threads.** A sequence for each list. Each action of `Threads` is one
system call, or the timer interrupt, in whatever thread runs: `Sleeping::remove`,
the time slice and the switch are one step. `main` and `idle` only dispatch.
`Alarm` is what the sleep queue promises in this composition. `semSignal` also stands for
the signals of the console interrupt. The initial state is that in which `main()` waits
for the end of `usermainThread`. `semWait` and the others are
restricted to open semaphores and `destroyThread` to threads that are finished or
were not started: that is the callers' duty.

**Console.** `putc` and `getc` are one step, or two if they block; the two kernel
threads are cut at each of their system calls. This allows more interleavings than
kernel threads with interrupts off have, which is sound for the safety properties.
When `usermainThread` has ended (`exit`), `main()` calls `flush` with interrupts on: it
loads head and tail, one by one and in either order, as the compiler may (`flushLoad`),
loads them anew if they differ (`flushAgain`), and else goes on to disable interrupts
(`mc_sstatus`), from where no other thread runs. Between any two of these steps every
other thread may run. The compiler might also keep a position in a register over all
turns, as nothing is volatile; at the optimisation of the Makefile it does not.
`undisturbed` is a history variable for `EndsFlushed`.
The device is external: it interrupts when the transmitter becomes ready, when a
character arrives and when more is there after a read, as the UART of the virtual
machine does.

**Traps.** One processor with its mode, `SIE`, `SPP`, `SPIE` and `sepc`; for each thread
the stack of traps that it has not returned from, and the address at which it goes on.
An address is a piece of code and a place in it, the same for all threads that execute
it, so `sret` with somebody else's `sepc` leads astray in the model as on the machine.
A trap, its `sret`, the reading of the two registers at the beginning of a handler and
their writing at its end are the code's; which system calls a program makes is up to
it. What the handlers do besides is one of: return, wake threads, create one, switch,
end the thread, destroy one, touch an unmapped page, print one character with two
nested calls. `nestedCall` and `kernelFault` are the traps in handlers: the wait and the
signal of a print, up to two `MEM_FREE` of `tcbDtor` in `THREAD_DESTROY`, and the page
fault in any memory call or creation, that of `tcbDtor` included. `wake` is `signal` (one
thread at most), closing (all threads that wait for it), the console's interrupt (two) and
the timer's (any number, and `yield` may switch in the same interrupt). A closing readies
a thread with `blocked` still set: it is `stale` until a signal or its constructor clears the
flag, and its next dispatch puts it on no list. Threads are in a list of control blocks
(`free`), from which `create` takes one and to which `destroy` gives one back; destroying
a live thread is the caller's mistake, and left out. Calls that trap alike have one name:
`time_sleep` is a `wait`, `getc` a `putc`, `sem_open` a `memory`, `sem_destroy` a `close`.
The initial state is that in which `main()` begins to dispatch. `flush` and `end` are the
end of `main()`: it waits with interrupts on, disables them, and closes semaphores and
gives memory back with traps of its own, with the paging off, as the code does by then.
A thread's own history (`from`) is used by the property only.

**PrintLock.** An action is one instruction of `copy_and_swap`, or a trap, which drops
the reservation and lets any thread run next. `sc.w` succeeds exactly while the
reservation is held; a processor that lets it fail now and then is not modelled, as
the loop then only goes round again. A thread may be ended by an access violation
while it holds the lock (`printString` of a bad address), which then nobody gets any
more; `LockPasses` and the fairness leave such runs out.

**MemoryAllocator.** Headers by address, sizes in bytes. `mem_alloc` rounds the bytes it
is asked for up to units (`blockSize`) and the kernel makes bytes of them again,
modulo the width of `size_t`. Mapping and unmapping happen in the step that causes
them; a page fault on the header of a free block is a step of its own, which only
makes the page accessible to the kernel. `RequestsAssumption` says that nobody asks for
no bytes at all, or for so many that their units are more than a `size_t` holds: with
either `mem_alloc` does not do what the properties say. `Translation` gives the meaning of mapping
to this module and is what `MMU` is checked against.

**MMU.** Tables as functions from indices to entries; pages are mapped to
themselves, so a last-level entry is its right. `Walk` and `Allowed` are the
processor's part and external. Which free page becomes a table makes no difference
to any property, hence the `CHOOSE`.

## 3. Runs

`tlc -config <cfg> <module>` in this directory.

| run | configuration | instance | why it is enough |
|---|---|---|---|
| `buddy` | `MCBuddy.cfg` | 8 pages, 4 orders | splits and merges over three levels; every set of held blocks |
| `slab_cache` | `MCSlabCache.cfg` | 2 caches with 2 and 1 objects per slab, 3 blocks | a list with a first, a middle and a last slab, slabs that are never partial, exhaustion |
| `slab_shrink` | `MCSlabCacheShrink.cfg` | the same | a violation, below |
| `cache_pool` | `MCCachePool.cfg` | 3 records of 2 slots | a record removed between two others, up to six caches, failure |
| `buffers` | `MCBuffers.cfg` | 4 pages, requests of half a page, a page, nearly two pages, and one out of range; 2 headers per slab | slabs of several buffers and of several pages, a second slab of headers, every way to run out |
| `threads` | `MCThreads.cfg` | 5 threads, 1 semaphore, values up to 1, sleep of up to 2 ticks | two threads wait while a third signals, closes, reopens, destroys; two sleep until the same tick; a thread is created, ends and is created anew |
| `sem_close_lost` | `MCThreadsClose.cfg` | the same, sleep of 1 tick | a violation, below |
| `traps` | `MCTraps.cfg` | `main`, the console threads, `idle`, the first program and one that it creates | every trap in which a thread can run for the first time or be switched to again; every trap in a handler, three levels deep; a thread is destroyed and its control block used anew; one tick readies both programs, a closing at the end of `main()` all that wait. How many a closing by a program readies does not matter to any trap: for more programs there is the proof |
| `print_lock` | `MCPrintLock.cfg` | 3 threads that print, one of which reads, and another | one holds, one is between its two instructions, one has just failed |
| `console` | `MCConsole.cfg` | 2 programs, rings of 2, 3 characters put or typed in all | each ring full, empty and wrapped; a program blocked in `putc`, one in `getc`; the end of `main()` at any moment. The two directions share the interrupt and the processor only, so what matters of both at once shows with one and two characters |
| `heap` | `MCMemoryAllocator.cfg` | 31 bytes, header 2, unit 3, page 4 | headers across pages, blocks over several pages, remainders too small to cut, sizes that are no multiple of the unit |
| `mmu` | `MCMMU.cfg` | tables of 2 entries, 4 of 8 pages touched | tables with one and with several entries at each level |

Bounds: `MaxVal` (values of semaphores from above and initial ones), `MaxSleep`
(the argument of `time_sleep`), `MaxChars`, `Text` and `CharsOf` (how many characters are put and
typed, and which), `Getters` (who calls `getc`), `FifoSize`, `Requests`, `Touched`. None of the
code's decisions depends on them beyond the sizes given. The real constants are
4096 bytes per page, 62 objects and less per slab, 31 descriptors per record, rings
of 4096, headers of 24 bytes, units of 64, 512 entries per table, a time slice of 2.

`console`, `buffers` and `cache_pool` run without the check for deadlock: all programs
may wait in `getc` for a character that nobody types, and each of the three has an end
(`mc_sstatus`, `SlabFinalize`, `CachePoolFinalize`). Symmetry is used for the blocks of the
caches and the records only, with safety properties.

**Fairness.** `threads`: `main` and `idle` always go on to dispatch
(`WF`), and the timer, whose interrupt stays pending until interrupts are on again,
is taken if it can be taken again and again (`SF`). Programs owe nothing.
`console`: a thread that can go on does, since the ready list is a queue and the
timer preempts (that is what `ReadyRuns` says of `Threads`); the interrupt is taken;
the device transmits what it has. Nobody must call `putc` or `getc` or type.
`print_lock`: every thread gets the processor again and again, and executes its next
instruction then (`ReadyRuns`, again); and the traps do not come between the same two
instructions for ever, so that an `sc.w` whose reservation is held is executed if that
is so again and again (`SF`). Without the last one `LockPasses` fails: the timer has a
period of many instructions, which is what justifies it. Nobody must begin to print,
and a key need not be pressed.

## 4. What is checked

* `buddy`: no page is lost or in two blocks (`PagesPartitioned`); the bit of a pair
  says that exactly one buddy is free (`BitmapMatchesLists`), on which merging
  rests; allocation fails only if no aligned extent is free (`NoFalseExhaustion`);
  `BlockPool` is implemented.
* `slab_cache`: no block leaks (`BlocksAccounted`); the lists hold the slabs they
  should, linked both ways (`ListsLinkGroups`, `GroupsMatchUse`); free lists hold
  every free slot once (`FreeListsExact`); no object is given out twice and wrong
  frees are refused (`ImplementsObjectPool`).
* `cache_pool`: `SlotsExact`, `CachesLinked`, and, up to the first creation that fails,
  `RecordsListed`: the list leads to every page taken, and none is left at the end.
* `buffers`: a header is in use for one slab, or was lost when the memory of its slab
  was refused, and in no other way; every extent taken is one slab's; after
  `SlabFinalize` none is (`HeadersMatchBlocks`). `kfree` finds the slab and the slot of
  every buffer in use, which lies inside its slab (`BuffersFound`). Buffers are as
  large as asked, do not overlap, and stay where they are (`ImplementsBufferPool`).
* `threads`: `SemCount`, `OnePlace`, `FlagsTellPlace`, `LostOnlyByClose`,
  `FreeIsConstructed`, and the promise to programs: a wait ends with one signal or
  the closing, signals are not lost (`ImplementsThreadLife`); each thread sleeps exactly
  as long as it asked (`ImplementsAlarm`), in order (`OrderKept`); every ready thread runs
  (`ReadyRuns`), every sleeper wakes (`SleepersWake`).
* `traps`: `ReturnsWhereTrapped`, for traps in traps too, and `KernelUninterrupted`, for which it matters in which
  order `main()` creates the threads: a thread that starts takes over the `SPIE` of the
  trap in which it is switched to, and that of the console threads is clear only
  because they are switched to before anything enables interrupts.
* `print_lock`: `LockTold` (the word, the reservation and the threads' places agree),
  one thread prints at a time (`ImplementsMutex`), and, unless a thread was suspended
  while it held it, the lock is passed on (`LockPasses`).
* `console`: `BuffersAgree`; no character lost, doubled or overtaken
  (`ImplementsTerminal`); output drains and blocked writers go on (`OutputDrains`);
  nobody waits in `getc` while there is a character (`InputDelivered`); `main()` ends with
  an empty buffer, unless the buffer was full when `flush` began to look for the last
  time, which it cannot tell from empty, or a program stored a character after that
  (`EndsFlushed`): the console thread alone, which moves the head between the two loads
  of `flush` and behind them, never deceives it.
* `heap`: blocks tile the heap and the list is in order with nothing left to join
  (`HeapConsistent`); pages in use stay mapped (`UsedPagesMapped`); a request is
  refused only if it fits nowhere (`ImplementsHeap`).
* `mmu`: no table leaks, is freed twice or kept empty (`TablesExact`); no other page
  changes (`ImplementsTranslation`).

### Disagreements found

* `slab_shrink`: after `kmem_cache_shrink`, `slabsFree` points to a block that the
  buddy allocator has (`cache.cpp:160`). No code of the kernel calls it.
* `sem_close_lost`: a thread that waits when its semaphore is closed is readied with
  `blocked` set (`kernelsem.cpp:122`), and dropped at its next context switch.

Seen while reading, and not reached by a run: the list of records after a failed
creation (`CachePool.cpp:58`), `close` never reset (`kernelsem.cpp:50`), sizes of
small buffers that are no powers of two (`CachePool.cpp:180`), `mem_alloc(0)`, whose
block `mem_free` puts behind its right neighbour if that is the first free block and
never joins with it (`MemoryAllocator.cpp:96`). Two more are part of what a property
says, as the exception it makes: a header is lost when a buffer slab gets no memory
(`SlabAllocator.cpp:99`, in `HeadersMatchBlocks`), and the handler of an unknown cause
returns without `sepc` (`riscv.cpp:313`, in `ReturnsWhereTrapped`).

## 5. What is proved

Each theorem holds for all constants that satisfy the assumption of its module, which
is the only thing taken for granted, and which TLC evaluates on every run.

| module | theorems | assumption |
|---|---|---|
| `BuddyProofs` | `PagesPartitioned`, `BitmapMatchesLists`, `NoFalseExhaustion`, `ImplementsBlockPool` | `BuddyAssumption`: as many pages as a page has bytes |
| `SlabCacheProofs` | `BlocksAccounted`, `ListsLinkGroups`, `GroupsMatchUse`, `FreeListsExact`, `ImplementsObjectPool` | `SlabAssumption`: a slab has at least one object; finitely many blocks |
| `CachePoolProofs` | `RecordsListed`, `SlotsExact`, `CachesLinked`; `HeadersMatchBlocks`, `BuffersFound`, `ImplementsBufferPool` | `CachePoolAssumption`: a record has at least one slot; `BuffersAssumption`: a page has at least one unit and takes at least one header, and the slots of a slab fit into its memory; `NullAssumption` |
| `ThreadsProofs` | `TypeOK`, `SemCount`, `OnePlace`, `FlagsTellPlace`, `LostOnlyByClose`, `FreeIsConstructed`, `IdleAvailable`, `ImplementsThreadLife`, `ImplementsAlarm`, `OrderKept` | `ThreadsAssumption`: `main` is not booted, `idle` is, nobody twice |
| `ConsoleProofs` | `BuffersAgree`, `EndsFlushed`, `ImplementsTerminal` | `ConsoleAssumption`: the threads are different ones; rings and receiver have at least one place |
| `MemoryProofs` | `HeapConsistent`, `UsedPagesMapped`, `ImplementsHeap`; `TablesExact`, `ImplementsTranslation` | `HeapAssumption`: sizes are positive, a header is smaller than the heap and the heap than a `size_t` holds; `RequestsAssumption`, above; `MMUAssumption`: at least one entry in a table, and pages for a full tree of tables |
| `ProcessorProofs` | `KernelUninterrupted`, `ReturnsWhereTrapped`; `LockTold`, `ImplementsMutex` | `TrapsAssumption`: the threads are different ones; finitely many programs; `LockAssumption` |

`IdleAvailable` is no property of a run: it is what keeps `Scheduler::get` from
returning the idle thread while it is on the list, and `OnePlace` rests on it. The
theorem of each module that is called `Invariant` states its inductive invariant
`IInv`; those of `MemoryProofs` are `HeapInvariant` (of `HeapIInv`) and `TablesInvariant`, that of
the buffers, in `CachePoolProofs`, is `BuffersInvariant` (of `BuffersIInv`);
`QueueProofs` holds lemmas only. Each proof has a lemma per
action, which the step of `Next` puts together.

**Buddy.** None of the three invariants is inductive: `free` merges by the bit, so it
needs `BitmapMatchesLists`, but what it says of the bit is right only if no two
buddies are free together, and joining a block with its buddy is right only if the
blocks partition the pages. `IInv` has these three, each as a fact about the set of
free blocks (`Apart`, `Merged`, `Bits`), and the links of the lists. The loops of
`alloc` and `free` are recursive functions of the order, and their proof has an
invariant of its own at each order. A block is known by its number, the address
divided by 2^order; two blocks are buddies if they have the same number one order
up. What `getIndex` computes from that is proved from its shifts, and here the
assumption on the orders is needed: with any other the bits of two pairs would be one.
`NoFalseExhaustion` follows from `Merged`: in an aligned extent that is free, but in no
free block of its order or above, the smallest free block would have its buddy, or a
part of it, held.

**SlabCache.** The operations of `Slab` are functions from a memory to a memory, and
one call performs several. So `IInv` is a property `Consistent` of a memory, and is taken
through each operation in turn, with a weaker one (`Ready`) for the moment at which the
slab that is used next has been chosen but not moved. A list is described by the set of
slabs that it links in both directions, together with: no smaller set that has the head
is closed under `next`. That is what makes a walk reach all of them, and excludes a ring
beside the list; it is kept by insertion and removal without following the list. A free
list is described by a rank of its slots that decreases along it.

**CachePool.** The list of records is described in the same way (`Listed`), the list of
caches by a sequence of the descriptors in use, each with its neighbours (`Linked`).
`SlotsExact` and `CachesLinked` hold even after a creation failed; `Listed` is what is
lost then. Before the end every pointer still leads to a record and no record has two
before it, which is enough for what is done after a failure. `destroyRecord` looks for
the record before the one it unlinks, and `allocateSlot` for the first that has a slot;
that the model's choice of it is what the code's loop finds is part of the proof.

**Buffers.** The slabs of `Buffers` are those of `SlabCache`, so the module is given an
instance of `SlabCacheProofs`, in which places are the blocks and all caches exist, and
takes from it what it says of a memory (`Consistent`, `Ready`) and of the operations of
`Slab`. For that it must name the slots in use: those of a slab of headers in which the
header of another slab lies, or one that was lost, and those of a slab of buffers where a
buffer begins (`SlotsInUse`). The two levels depend on each other within one call: when
`createBufferSlab` has taken a header, no slab is made of it yet. In between it is counted
as lost (`HeaderTaken`), from which `SlabGrown` takes it again. Besides `Consistent`,
`BuffersIInv` says that the headers in use lie in pages of headers (`HeadersPlaced`), that
each slab has an extent apart from all others (`ExtentsHeld`), that every buffer has a slot
of its own (`BuffersPlaced`) and that a class with a slab has its cache (`ClassesTold`,
without which `kfree` would not look there). Page and offset of an address are those of one
extent and one slot only (`AddressIs`, `SlabOfAddress`), so `putBuffer` finds the slab of
a buffer and no other (`FoundIs`). `getPowerOfTwo` and `getOrder` are least numbers with a
property, and are shown to exist (`LeastPower`). That `HeadersMatchBlocks` counts is a
bijection between slabs and extents (`AsManyExtents`). For `ImplementsBufferPool`,
`AreasApart`: two slots of a slab are multiples of the size of a slot apart, and two slabs
have disjoint pages.

**Threads.** Signalling is safe only because the value tells
the length of the queue (`SemCount`), the thread it takes is nowhere else
(`OnePlace`) and its flags say so (`FlagsTellPlace`). So `IInv` is the conjunction of
the properties with the shape of the sleep queue (`IsSleepQ`), and
three facts that no property needed to state: `BlockedByClose` (whoever is blocked
and waits for nothing was released by a closing, and `idle` never was, so it can
always be put back), `FinishedRan`, and that `main` is never destroyed. One lemma is
about the context switch that five of the actions share (`SwitchActive`).
`QueueProofs` says what `Append`, `Tail` and concatenation do to the elements of a
queue; the first part of `ThreadsProofs` what `Add` and a tick do to the threads in the
sleep queue.
For `ImplementsThreadLife`, the place in which a thread is tells its state in
`ThreadLife` (`PlaceTellsState`), and each system call is one step of it or none
(`CreateIsLife`, ..., `StepsAreLife`).

**Sleep queue.** A node keeps only the ticks by which its thread wakes up later than the
one before it, so what a thread still sleeps is a sum along the list (`DueTimes`, a
recursive function of the place). `add` walks the list and subtracts, `remove` decrements
the head alone. The proof says what each does to the sums: `AddDue`, that those before the
new node and behind it are the same and its own is what was asked for; `TickDue`, that all
of them lose one, and those that reach zero are the first of the queue. Both need the
times to be natural numbers and that of the head positive (`Timed`), which is proved along
with them: with a zero at the head the decrement would pass it. The sums grow along the
queue, so the nodes with a sum up to some number are the first ones of it (`Prefix`), and
counting them gives the place at which the loop of `add` stops and at which that of
`remove` does. For threads instead of places these are the two steps of `Alarm`
(`AddRemains`, `TickRemains`). `OrderKept` follows from where the node is put (`AddOrder`)
and from what a tick takes away being a prefix (`TickOrder`).

**Console.** No variable tells how many characters a ring holds: the value of a
semaphore is ahead of, or behind, the positions while threads are between their wait and
their signal. `IInv` counts them as the value of the semaphore plus the number of threads
that are at the place behind its wait, whether it holds them or not (`Room`). A wait that
passes, a wait that blocks and the signal that ends one leave this number unchanged
(`GoToWait`, `SignalTo`); only the step from that place takes one away, and gives one to
the other semaphore of the ring (`PassOver`, `HandOver`), so the two always sum to the
size (`Sums`). `Rings` says that the positions are that far apart and that the places
between them hold characters; `Carried` that the device is still as the two console
threads found it before they waited: this is what makes the write to the transmitter and
the read of the receiver right. `EndsFlushed` needs two more parts, as positions that
have been loaded are stale when they are compared (`Looked`, `Watched`): as long as nothing
is stored the tail stays where it was loaded, and the head comes nearer to it by less than
the size of the ring, so two loads that are equal, in whichever order they were made, are
of an empty ring. For `ImplementsTerminal` the characters in each ring are a sequence, and each
lemma on an action says what that step does to it: `Append`, `Tail` or nothing.

**Page tables.** That the number of links is one less than that of tables, as
`TablesExact` says, is no use for a step: it does not tell which tables an entry leads to.
`IInv` names the middle tables `M` and the last ones `L` (`Tree`): two disjoint sets
without the root, each table of which is pointed to by one entry of one table above it
(`Points`), while an entry that is not null points into the set below; and every one has
an entry (`Filled`). From that the number follows, by a bijection between the entries in
use and the tables (`TreeExact`), and so does that a table is left for `pgalloc`: the
tables in use are at most one for each entry above (`RoomLeft`). Each way in which `map`
and `invalid` change the tables is a lemma of its own (`NewMiddle`, `NewLast`, `SetEntry`,
`FreeLast`, `FreeMiddle`) which also says what becomes of every other path from the root;
in between a new table is still empty, which `FilledBut` allows for one. The pages that
`punmap` walks through are taken one by one (`UnmappedKeeps`, by induction over its loop).
That mapping one page changes no other needs that no two pages have the same three digits,
which is proved of `vpn` for every base `N` (`Digits`).

**Heap.** `HeapConsistent` holds between the calls only: within `kmem_free` the block that
was just put into the list may touch its neighbours, and before the first call there is no
list at all. `HeapIInv` therefore speaks of the headers that the next call finds
(`StartHdr`), and calls them `Sound`: they are typed, the blocks cover the heap (`Tiles`),
each free block has its neighbours in the set of free blocks as `next` and `prev` (`Chain`,
which needs no walk along the list), and no free block ends where another begins, but those
of a set `X` that may for a moment (`ApartBut`). Insertion puts the block and its
predecessor into `X` (`InsertSound`), each `tryToJoin` takes one away (`JoinSound`); cutting
and taking out a block leave `X` empty (`CutSound`, `TakeSound`). The loops that look for a
fit and for a predecessor are recursive functions, which exist because the list leads to
higher addresses (`FitExists`, `PredExists`); `FirstFitIs` and `PredecessorIs` say what they
find. For `UsedPagesMapped` the pages that lie wholly in a free block are shown to be none
that a block in use touches (`PagesApart`, `WholeApart`). A request is refused only if it
fits nowhere because a free stretch never goes over the end of a free block, behind which
there is a block in use or nothing (`StretchInOne`); that the bytes taken are the units
needed is `BytesAre`.

**Traps.** `IInv` says for each thread what its stack of traps may look like (`Stacks`):
from where the outermost was entered (`Outer`), that each of the others was entered from a
place in the handler of the one before which makes such a trap, with interrupts off, and
keeps what it must of the two registers (`Nested`, `Chain`), and at which place of the last
handler the thread is. That says nothing of a depth: one trap more, and one less, keep it
(`Deeper`, `Shallower`), and that three is the most (`Depth`) is derived from which handlers
make traps. `Unsaved`: the two handlers which keep nothing find in the registers what they
return with. `BootOrder`: in which order the first threads begin. `IdleAround`: the idle
thread runs or can be switched to, for which it, and `main`, must never wait nor be readied
with `blocked` set (`Steady`). `BootOrder` is what `KernelUninterrupted` needs: a thread
that begins leaves the trap of somebody else and takes over the `SPIE` of that trap. The
console threads are created, and begun, before the first thread whose traps have it set.

**PrintLock.** `LockTold` is inductive: besides the types and the mutual
exclusion it says that while the reservation is held, the thread that runs is at its
`sc.w` and the word is still what its `lr.w` saw (`ReservationTold`). With it
`StepsAreMutex` maps each instruction to a step of `Mutex` or to none.

**Induction.** The library's induction theorems have an operator as a parameter and
cannot be applied here. Where a proof needs induction, it takes the set of the
numbers for which a statement fails and its least element (`Least`, `Up`, `Down` in
`QueueProofs`, from the well-foundedness of the order of the naturals), and the set is
written out in each case. For a recursive function, that one exists is shown first,
order by order, and the definition's `CHOOSE` then gives it (`Carried` in `BuddyProofs`,
`DueExists` in `ThreadsProofs`).

**Left to TLC.** Liveness under fairness (`ReadyRuns`, `SleepersWake`, `LockPasses`,
`OutputDrains`, `InputDelivered`): `ENABLED` is beyond the provers. And the two runs that
expect a violation, which show a trace of the code.

## 6. What is not modelled

* General registers, and what `TIME_SLEEP` and `suspend` leave in them
  (`pushRegisters` is only called by `yield`); arguments and results of calls.
* The order of the calls at the end of `main()` and what the destructors of the console
  and of semaphores do there (of the traps that they make, `Traps` has any number, in any
  order), and the result of `wait`.
* The C++ classes of the programs, and everything that only prints.
* The translation cache of the processor (no `sfence.vma` follows a change).
* Callers that break the rules: destroying a live thread, using a closed semaphore,
  freeing what they do not have.
* What comes after two failures that no caller in the code survives or repairs: the list
  of records after a creation that failed (`RecordsListed` ends there), and the printing of
  other threads when the holder of the print lock was suspended (`LockPasses` leaves such
  runs out).
* Null results of `kmem_cache_alloc` in `createSem`, `insert` and `getNode`, which the
  code does not test.

## 7. Plan

Done, in this order, the most important first: the buddy allocator and the caches,
which give the repository its name; threads, semaphores and sleep; console; heap; page
tables; cache descriptors; small buffers; the print lock; traps; the proofs of section 5.

Next:

1. `Shutdown.tla`: `main()` after `flush`, with the order in which the caches of nodes,
   threads and semaphores go; the result of `wait`.
