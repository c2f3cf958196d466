# A verification of OSY

The repository holds one operating-systems course's programs: a small kernel
with a user-space allocator (`hw10`), and stand-alone programs with threads
(`hw5`, `hw6`), processes (`hw4`), raw system calls (`hw7`) and shell scripts
(`hw2`, `hw3`). This directory keeps TLA+ models of the parts that have
behaviour worth checking, TLC configurations for small instances, and theorems
with proofs for instances of every size.

Everything here was translated from the source; `PROJECT.json` ("map") gives
the lines each definition stands for, and "hazards" the places in the code
where something could go wrong that a test would hardly reach, with the
properties that cover each.

The systems that meet are the kernel's: `PageBitmap` and `PageTable` are the
operators `KallocSearch`, `Syscall` and `Loader` share, `Kalloc` and `Break` are
the abstract specifications, and `Loader` is composed with `Syscall`: it shows
that the memory it leaves is one `Syscall` begins with. `Printf` is shared by
the kernel and the program in `Output`. The programs of `hw4` to `hw7` stand
alone.

## 1. The system

### 1.1 Components, state, operations

| component | source | state | operations |
|---|---|---|---|
| page allocator | `hw10/kern/src/kalloc.cc` | `page_bitmap`, `end` | `alloc_page(size, fill)`, `free_page`, `alloc` (cuts from the top) |
| page tables | `hw10/kern/src/ptab.cc` | page directory and tables, in pool pages | `insert_mapping`, `get_mapping`, `remap` |
| system calls | `hw10/kern/src/ec_syscall.cc` | `break_min`, `break_current`, saved registers | `sys_print`, `sys_sum`, `sys_break` |
| execution contexts | `hw10/kern/src/ec.cc` | `Ec::current`, its registers | `root_invoke` (loads the ELF image), `ret_user_sysexit`, `handle_exc` |
| boot | `hw10/kern/src/init.cc`, `start.S` | descriptor tables, interrupt controller | `init`, `bootstrap` |
| console, printf lock | `hw10/kern/src/console*.cc`, `stdio.cc`, `include/spinlock.h` | `printf_lock`, the serial port | `printf`, `panic`, `vprintf` |
| user allocator | `hw10/user/mem_alloc.c` | `head`, `tail`, block headers in the heap | `my_malloc`, `my_free` |
| user console | `hw10/user/lib/*` | 100-byte buffer, a `printf_lock` of its own | `printf`, `puts`, `panic`; `putc` flushes with `sys_print` |
| producer and consumers | `hw5/prod-cons.c` | `lst`, `sem`, two mutexes, `end`, `negativ`, `prod_terminate` | the threads `producer`, `consumer`, `main` |
| factory | `hw6/factory.cpp` | places, parts, current steps, mutex, condition | commands of `main`, `routine` of each worker |
| fork and pipe | `hw4/forkpipe.c` | pipe ends, processes, signal flag | the three processes |
| divisors | `hw4/nd.c`, `nsd.c`, `nsd_main.c` | none | `nd`, `nsd`, the line loop |
| number reader | `hw7/hw7.c` | 20-byte buffer, number, digit count | `_start`'s loop, `print` |
| scripts | `hw2`, `hw3` | none | text filters |

### 1.2 How they interact

`init` takes four runs of pages from `Kalloc`, two of which become page
tables; `bootstrap` cuts the first `Ec` from the top of the same pool;
`root_invoke` maps the program's image and stack through `Ptab`, which takes
table pages from `Kalloc`. From then on the program and the kernel meet only
in system calls and exceptions. `sys_break` calls `alloc_page`, `insert_mapping`,
`get_mapping` and `free_page` for every page it moves over. The user allocator
sees the kernel only as `nbrk`. What a program prints goes through `vprintf`
twice, once in the program and, character by character, once in the kernel, and
an exception's report goes to the same line. `hw5` and `hw6` are programs of their own,
whose threads share memory.

### 1.3 What is hard

- *Partial failure.* `sys_break` can run out of memory at two places of any
  iteration and then has to undo the iterations that succeeded.
- *Two allocators in one pool.* `alloc` and `alloc_page` do not look at each
  other's state.
- *Search with jumps.* `alloc_page` keeps a run's start and length over a loop
  that sometimes jumps 32 pages.
- *Metadata among the data.* The user allocator's list lives in the heap it
  hands out; gathering blocks turns headers into payload.
- *Threads.* In `hw5` a flag is read outside the lock under which the list was
  seen empty, waits time out, a post follows its push in a second step, and the
  exit status is made of flags written without a lock.
  In `hw6` workers look their phases up, and main sorts the lists they look in,
  without the mutex; and two places lock the mutex they hold.
- *Processes.* In `hw4` a signal may come before its handler, and the end of a
  pipe is known only when every process has closed its other end.
- *Input in pieces.* In `hw7` a number may be cut by a read anywhere.
- *A loader that trusts its file.* `root_invoke` maps the file's own pages,
  clears `.bss` through those mappings, and takes the break from the last
  segment, whatever the order.
- *One line, several writers.* The exception handler needs the lock that printf
  holds; the transmitter is slower than the processor; buffers are flushed at
  newlines only.
- *No concurrency in the kernel.* There is one processor, system calls run with
  interrupts off, and all interrupt lines are masked; what interleaves in the
  kernel is the order of calls, not of instructions.

### 1.4 What correctness means, component by component

- Allocator: the lowest free run or a justified NULL; no page given out twice
  or above `end`; `free_page` never panics for a page its caller owns.
- Page tables and system calls: every frame has one use and the bitmap knows
  it; the mapped heap is exactly the pages up to the break, whatever failed;
  the program sees a flat heap whose new bytes are zero.
- User allocator: blocks do not overlap, free memory on the list is reused, the
  search ends, and the program's bytes are the program's alone (the last fails).
- Loader: the program finds its file's bytes and zeroes where the file says, in
  a memory the system calls can work with, exactly when that fits.
- Output: what is printed comes out once, in order, formatted as C says where
  this printf promises that; every crash is reported.
- Factory: phases in order and at the right place; a phase that can be done
  gets done (it is not: see 4.2).
- Fork and pipe: "OK" only if everything was answered; all processes end.
- Number reader: the output depends on the input, not on how it was read.
- Producer and consumers: first in first out, once each; the semaphore in step
  with the list; the program ends; nothing left behind unless by the stale
  check.

## 2. Plan

Modules, in the order of importance. All of them exist; the last column says
what they are checked against.

| order | module | models | abstract specification or reference |
|---|---|---|---|
| 1 | `PageBitmap`, `KallocSearch` | the allocator's loops | `Kalloc` |
| 2 | `PageTable`, `Syscall` | `sys_break` over tables and allocator | `Break` |
| 3 | `MemAlloc` | the user allocator | blocks as a history |
| 4 | `ProdCons` | `hw5` | the order of the input's lines |
| 5 | `Loader` | `root_invoke`, with `remap` | the file, and `Syscall`'s `LayoutOK` |
| 6 | `Places`, `Factory` | `hw6`: workers, commands, the mutex | the order of a product's phases |
| 7 | `Divisors`, `ForkPipe` | `hw4`: processes, pipe ends, SIGTERM; `nd`, `nsd` | the pairs generated; divisors by definition |
| 8 | `NumReader` | `hw7`: the loop over short reads, `print` | tokens of the whole input |
| 9 | `Printf`, `Output` | printf from the program's call to the serial line, exceptions, panic | C's conversions; the calls' texts |

The proofs follow the same order: `KallocSearchProofs`, `SyscallProofs`,
`MemAllocProofs`, `ProdConsProofs`, `LoaderProofs`, `FactoryProofs`,
`HomeworkProofs` (the two programs that compute with numbers, `hw4` and `hw7`)
and `OutputProofs`. Every safety property of the passing runs is a theorem.

## 3. Modules

`MC*` modules only give constants their values. Operators whose comment says
*Mutant* are variants of the definition after them with a plausible bug; no
specification uses them. Each property has one that violates it
(`PROJECT.json`, "mutants").

### 3.1 PageBitmap, KallocSearch, Kalloc

`KallocSearch` keeps `page_bitmap`, `end`, and `alloc_page`'s locals `size`,
`i`, `found`, `first`. An iteration of the loop is one action: `SkipFullWord`
(the word is 0xffffffff), `FreeBit`, `UsedBit`; `Return` is everything after
the loop. `free_page` and `NewEc` (`Kalloc::alloc`) are atomic: nothing can
happen in between. The callers are the kernel's own: `BootCall` makes `init`'s
allocations in their order, `NewEc` is `bootstrap`'s `new Ec`, then system
calls allocate (`KernelCall`) and free (`KernelFree`) pages that are not
`init`'s. `KernelCall` asks for any
size up to `MaxRun`, the search's whole interface; `sys_break` and
`root_invoke` ask for 1. Addresses are offsets from `begin` in units, with several units to a
page, because `alloc` moves `end` by less than a page. Page contents and `fill`
do not matter to the search and are left to `Syscall`.

`PageBitmap` has the operators on the bitmap, and `FirstFit`, what the search
should return. `Kalloc` is the abstract allocator: a set of owned pages and a
limit; it answers a request with the lowest run of unowned pages or refuses
when there is none. `ImplementsKalloc` checks `KallocSearch` against it under
a refinement mapping (owned pages are the set bits; a request is pending during
the search), with the fairness that every request is answered.

### 3.2 PageTable, Syscall, Break

`PageTable` has `insert_mapping` and `get_mapping` as operators on a page
directory and tables that occupy frames of the pool. `alloc_page(1)` is
`FirstFit`; theorem `SearchCorrect` is what entitles it to be.

`Syscall` is the handler and the program. User actions are stores
(`UserWrite`), `sys_sum`, `sys_print`, and the ways into `sys_break`
(`BreakQuery`, `BreakIllegal`, `BreakAccept`). `BreakAccept` does what the code
does before its loops, clearing the tail of the last page included; then
`GrowPage`, `UndoPage` and `ShrinkPage` are one iteration each, `BreakRefused`
and `BreakDone` the two ways out. `break_current` changes only in `BreakDone`,
as in the code. The handler's locals are reset when it returns.

Abstractions: frames are numbers; `data[f]` holds the bytes of a frame mapped
for the program and `ptab[f]` the entries of a frame that is a table, and
`Ownership` shows no frame is both; a table starts as `EmptyTable` (FILL_0);
entries below `break_min` that are not pool frames are `Image`; attribute bits
are dropped (all heap pages have the same). `sys_print` and an unknown call
that succeed change nothing and are not actions; a page fault, which
`handle_exc` answers with `panic`, ends the run in `pc = "fault"`.

`Break` has no pages: a break, a request being considered, a result and the
program's bytes. The refinement mapping reads a byte through the tables. A
lowered break is mapped to take effect when the handler accepts it, because it
cannot fail from there; a raised one only when it is done.

### 3.3 MemAlloc

The heap is a function from word addresses to values, headers included:
`SizeOf`, `Free` and `NextOf` read it. A turn of `new_free_memory_chunck`'s
loop is one action (`TakeBlock`, `GatherBlock`, `SkipBlock`), its end `Grow` or
`GrowFails`. The part of `my_malloc` after the search belongs to the action
that ends it. `my_free` is atomic. `blocks`, `live`, `filled` and `freed` are
bookkeeping of the properties. Sizes count words instead of bytes and do not
wrap at 2^32. nbrk's result is what `Syscall` shows: growth by what was asked
for, zero words, or 0.

The caller fills a payload once, with zeros or with another value (`Cookies`),
and writes only inside its payloads. It frees what it holds (`FreeLive`),
addresses it has given back (`FreeAgain`), also those whose block was gathered
into another since, and addresses it never got (`FreeStray`): any word of the
heap whose mark would be on the heap too, inside payloads and headers, and one
above the break. `my_free` takes such an address when a zero stands where the
mark would be, and then writes a 1 there; the program may have no allocator
worth the name any more, and the model follows it no further (`astray`). Left
out: addresses between words, addresses so low that their mark lies below the
heap, and what comes after a stray address was taken.

### 3.4 ProdCons

The list is its pointers: `head`, `tail`, `count` and each entry's `next`.
`PushEnd` has the code's two branches, and leaves the new entry's `next` as it
is (`NULL` stands for any value nobody has set). Entries are named by their
input line; `malloc` may reuse the address of a freed entry, which nobody who
only follows pointers to live entries can notice, and `Fifo` says that they do.
Every thread has a place in `pc`. Taking a mutex (`Acquire`) is one step and
the rest of the critical section with the unlock another, which is enough
because only the holder touches the list; `pop` is two, the read of the head
(`ReadHead`) and its move to `next` (`MoveHead`). Reading `end` (`TestEnd`), waiting
(`TimedWait`, `TimedWaitFails`), posting (`Post`) and setting each flag are
steps of their own. `sem_timedwait` may fail at any time: the deadline can pass
at any point of an execution, and when adding 100 ms to `tv_nsec` takes it to a
second or more the call fails with EINVAL even if the semaphore is positive.
`removeALL` on a list with entries may stop the program, because the last
`next` was never written. Whether a line's number is negative is chosen when it
is read. Left out: failing `pthread_create` and `malloc`, the range check of the
argument, the text, and the return of a consumer whose `clock_gettime` fails
(line 125), which for `CLOCK_REALTIME` and a pointer into the stack it cannot.

### 3.5 Loader

An iteration of `root_invoke`'s page loop is one action (`MapFilePage`,
`MapZeroPage`), and so is each of its stages before and after. Physical memory
is the pool's frames and, above them, the pages the boot loader put the file
in; every byte of the file has a number of its own, so `ImageLoaded` can tell
where a byte came from. `bitmap`, `pdir` and `ptab` are as in `Syscall`; an
entry also says whether the page may be written, because the kernel runs with
CR0.WP and its own `memset` faults on a read-only page. `remap` keeps bits 20
and 21 of an address out of the offset: `image.mega`. One such megabyte stands
for all that `root_invoke` reads through `remap` (`ec.cc:86`, 92, 95, 103), the
boot loader's data and the file's headers. Left out: program headers in another
megabyte than the ELF header, which would be read from the wrong place; that the
program header table may lie in the bytes that clearing `.bss` wipes, the wrap
of `v_addr % PAGE_SIZE + m_size` at 2^32, segments above the stack's page or in
the kernel's part of the address space, and headers that point behind the end of
the file (`ImageOK`).

`S!LayoutOK` is `Syscall`'s own definition, instantiated with the loader's
state (`FrameTables` forgets the write bits and calls the file's pages
`Image`).

### 3.6 Places, Factory

`Places` is the linked list: a sequence of nodes, the head last, since `insert`
adds there. `Phases` has the numbers `add` inserts for a place, `Insertions` the
order in which it does, `Positions` those `remove` hands to `deleteNodeIndex`: it
uses the number of a phase as a position in the list. An input starts a worker
once (`StartsOnce`), because every `start` takes an element of `my_worker` of its
own.

`Factory` has one action per critical section where nobody can look inside, and
one per node where somebody can: the lookups a worker starts with (lines
247-249), the later ones that meet main's sorting (line 415), the insertions and
deletions of `add` and `remove`, which the first lookups can run between, the two
writes of a swap, and the freeing of the lists at the end of the input. Main
chooses its branch, with the `strcmp` of `arg` that may be NULL (line 443), and
sets `arg` before it waits for the mutex, so all that is in `Read`; `changes` are
the calls of `insert` or `deleteNodeIndex` it has still to make.

A read of a deleted node (`FindFreed`) may crash or give any number from 0 to 7
(`AnyNumber`: 0, every phase, and one that is none), among them that of a node
which `insert` has made in the same memory. Reading `my_worker` while `start`
moves it may crash (`ReadsMovedArray`). The members `temp` and `lptr` are shared
by all users of a list. Built with -O2 as in the Makefile, each method keeps its
node in a register and only writes `temp`, so nobody is moved to another's node;
the model relies on that. `done` and `torn` are history. `pthread_cond_wait` does
not appear because it cannot be reached: the thread that would call it is waiting
for its own mutex (line 287). Left out: failing `realloc` and `pthread_create`,
invalid commands, the text.

### 3.7 Divisors, ForkPipe

`Divisors` gives `nd` and `nsd` as the code computes them, with the answer of
`nsd_main` to a pair; `MCForkPipe` also compares them with the definitions for
all numbers up to 40 and for negative ones. `ForkPipe` is the three processes:
who holds which end of the pipe, GEN's flag and its handler, and the exit
statuses. A signal that kills GEN before its handler is installed leaves a
status whose `WEXITSTATUS` is 0. If the second `fork` fails the parent goes on
(line 48 can never be true) and waits for any child.

### 3.8 NumReader

A read returns any number of bytes up to what fits and what there is, zero only
at the end. The body of the loop is one action, each of `print`'s three writes
another. A failing write returns minus an error number and the program
recognises only -1; an unnoticed one is recorded in `lost`.

What should be printed is said without the loop: a number of the input begins
(`Starts`) at a digit with no digit before it, ends (`Ends`) where no digit
comes, and stands for `Digital` of its digits in base 10, all before the first
other character (`Cut`). `IsHex` says what a number in base 16 is by the same
`Digital`, not by the division `print` does.

### 3.9 Printf, Output

`Printf` is `vprintf` with its conversions, character by character of the
format; program and kernel have the same text of it. Below, `Standard` says for
which conversions this printf promises what C does, and `CText` what that is.
Where it does not: a number's precision is ignored; zeros go before the sign
(`%05d` of -42 is `00-42`); `#` also puts `0x` before 0 and before decimal
numbers; strings are padded on the right; `%c` ignores its width; a precision of
0 is none.

Characters (`Chars`) are a set with at least those that conversions and messages
use. `IsSpec` and `IsCall` say which calls a program makes: the texts around the
conversion have no `%`, its arguments are what it takes, and a format that ends
inside a conversion has nothing after it.

`Output` follows a character from the program's call through the 100-byte
buffer, `sys_print`, the kernel's printf under `printf_lock` and the serial
line's transmitter. Both spinlocks are tickets modulo 2^8 in the halves of a
word. Beside it: the message at boot, the one for an unknown system call, the
three messages of `handle_exc` (the last two, of registers, abbreviated), and
both panics, neither of which takes a lock. Programs are data: which calls they
make and how they end. The processor is in one place at a time (`pc`), and only
the line's `Transmit` runs beside it.

## 4. What the runs check

| run | instance | result | question |
|---|---|---|---|
| `kalloc_search` | 14 pages under four 4-bit words, runs of 1 and 2, boot sequence 2,1,1,1 | passes | does the search find what it should, do the two allocators keep apart, is every call answered? |
| `syscall` | 9 frames of 2 bytes, tables of 2 entries, stack at page 10, two layouts | passes | does `sys_break` keep its books through every failure, and is the heap the one `Break` promises? |
| `mem_alloc` | 15 words of heap above NULL, sizes 0, 1, 3, 4, payloads of zeros or sevens | passes | do the allocator's blocks and list stay sound, whatever is freed? |
| `mem_alloc_payload` | the same | violated | is a byte the program wrote kept? |
| `prod_cons` | two consumers, three lines | passes | order, exactly-once, end, exit status |
| `loader` | 7 frames and a file, pages of 2 bytes, one or two segments and a note | passes | does the program see its file, in a memory `Syscall` can begin with, exactly when it fits? |
| `output` | buffer of 4, tickets modulo 4, words of 4 bits | passes | does what is printed come out, whole, in order and as C says; is every crash reported? |
| `factory` | two workers, nine inputs | passes | phases in order, at the right place, done if they can be |
| `factory_end` | the same | violated | does main go on after `end`? |
| `factory_add` | one worker, its place added late | violated | is a worker put to work at a place added after it started? |
| `fork_pipe` | two of ten pairs, a pipe of one line | passes | does "OK" mean answered, are the answers right, do all processes end? |
| `num_reader` | inputs of 4 characters, reads of 2, words of 6 bits | passes | does the output depend only on the input? |

**Bounds.** `kalloc_search`: 4-bit words put a partly used word, full words and
a last word that the pool does not fill into 16 bits; runs of two can straddle
a word boundary. The proofs cover every size. `syscall`: with tables of two
entries every second page needs a new table; the layout with an image frame in
the pool leaves an odd number of frames, so memory runs out once at a page and
once at a table; break arguments cover every byte up to more than fits and both
sides of the upper limit, with partial pages; bytes are written at both offsets
of the first heap page. The stores are limited to four addresses and two values
(`WriteAddrs`, `Bytes`). `mem_alloc`: `MaxBreak` = 16 allows three blocks of the
smallest size, or a gathered pair (1 and 3 make 4) and one growth after it; the
payload of that pair holds the whole header that was gathered, so its old
address is freed with the mark overwritten by zeros and by sevens. `prod_cons`: `MaxItems` = 3 allows one entry in each consumer's hands and
one on the list, or a list of three, so `PushEnd` meets an empty list that is new, an
empty one whose tail is stale, one entry, and a `next` field before the tail.

`loader`: segments at three addresses and four file offsets, in either order,
overlapping, sharing a page of memory or of the file, with up to five bytes of
`.bss`; the pool runs out at a page, at a table and at the stack. `output`: one
program per conversion with every flag, widths below and above what is printed,
numbers of either sign in one and in two words; and programs of two calls, with
newlines before, in and after a full buffer, for every way to end. `factory`:
two places whose phases follow each other, one with a second phase; `make`,
`add`, `remove` and `end` before, between and after the starts, and the end of
the input after any command. `fork_pipe`: the pipe of one line makes GEN wait;
two pairs tell the order of answers; the pairs include primes, equal numbers, 0
and 1. `num_reader`: four characters in reads of up to two put a number across
two or three reads; 99 wraps in 6 bits and has two digits in base 16.

**Deadlock.** `kalloc_search` and `mem_alloc` never stop and are checked for
deadlock. In `syscall` a page fault halts the machine, and the other
programs end (or, in `factory`, lock themselves up, which is what the runs are
about), so their configurations switch the check off; `BreakReturns`,
`Termination`, `Decides`, `Finishes`, `AllEnd`, `Exits` and `PhaseGetsDone`
cover what hangs.

**Fairness.** A kernel handler is weakly fair: interrupts are off and one
processor runs it. In `MemAlloc` only the search is fair; when to call is the
program's choice. In `ProdCons` threads are weakly fair; nothing makes input
arrive. Taking a mutex is strongly fair: an idle consumer sleeps in
`sem_timedwait` almost all of the time, so the mutex is free again and again.
A successful `sem_timedwait` is strongly fair because the clock leaves the tenth
of a second in which it fails at once. In `Factory` main and the workers are
weakly fair except that input may stop coming, and the mutex is strongly fair: a
worker that finds nothing for its place releases it and takes it again at once,
but a waiting thread gets it some time. In `ForkPipe` each process is weakly
fair, in `NumReader` and `Loader` the one program is, and in `Output` the
processor and the serial line are: a line that never finishes sending would hold
the kernel in `Console_serial::putc` for ever.

### 4.1 Properties

`KallocSearch`: `ScanInv` is the loop's invariant (the last `found` pages are
free, no fitting run starts before them, full words are met only at their first
bit); `BootInv` that boot takes the lowest pages in order; `PagesBelowEnd` that
no page lies in what `alloc` cut off; `NoPanic`; `ReturnsFirstFit`;
`ImplementsKalloc`.

`Syscall`: `Ownership` (each frame one use, and the bitmap exact),
`HeapExtent` (the mapped heap is the pages up to the break, or up to the loop's
page, and the pages between it and the stack are not mapped), `LoopBounds` (the
`!=` loops start on the right side of their targets and stay there), `NoPanic`,
`ImplementsBreak`, `BreakReturns`.

`MemAlloc`: `BlocksDisjoint`, `ListOrdered`, `ReusesFreeBlocks` (the heap grows,
or the call fails, only when the payloads of no run of free neighbours on the
list, `Room`, have the words asked for), `FreeMarksNoOther` (my_free takes every
payload the program holds; of any other address it either wants nothing, or its
mark is no block's size or mark: at worst a word of somebody's payload or, for an
address the program never got, the `next` of the last block),
`DamageIsTailNext` (the only word of a live payload the allocator ever changes
is the `next` field of a gathered tail), `MallocReturns`.

`ProdCons`: `SemAccounting` (hence no pop of an empty list), `Fifo` (the
pointers lead through the entries that are not yet popped, in order),
`EachHandledOnce`, `LeftOnlyByStaleCheck`, `ExitStatus`, `Termination`,
`Delivered`.

`Loader`: `ImageLoaded`, `LeavesLayout`, `RunsIffFits` (the program starts
exactly when its file is well formed, lies where `remap` can show it, and the
pool has the frames it needs), `Decides`.

`Output`: `TerminalShows`, `LosesOnlyLastLine`, `Finishes` (with a fault inside
printf the handler would wait for the lock for ever).

`Factory`: `PhasesInOrder`, `WrongPhaseOnlyByRace`, `NothingAfterSelfLock`,
`PhaseGetsDone`; violated: `EndDoesNotWait`, `AddWakesWorker`.

`ForkPipe`: `OkMeansAnswered`, `AnswersRight` (in order, and right for every pair
without a 0), `AllEnd`.

`NumReader`: `PrintsNumbers`, `Exits`.

### 4.2 Bugs and limits the models show

`mem_alloc_payload`: when the tail block is gathered into an earlier one,
`tail` still points at its old header, now inside the payload handed out. The
next growth writes `tail->next` (`mem_alloc.c:100`) into the program's data and
links the new block where no search comes, so it is never reused. TLC's trace:
allocate 1 and 3, free both, allocate 4, fill it, allocate again. The malloc
tests of the repository check that bytes keep their values
(`malloc-basic.o`: "Error: Byte at address %p should be %#x, not %#x").
`DamageIsTailNext` in the passing run says that this is the only damage.

`factory_end`: `end NAME` locks the mutex at line 361 where it should unlock it.
Main never reads another command, although the comment handed out with the task
(`old_factory.cpp:457-463`) says that it should not even wait for the worker.

`factory_add`: a worker looks up its phases once, before its loop. A place added
afterwards stays unused, although the comment on `add` (`old_factory.cpp:541-544`)
says that a worker who is ready starts working. The run's only input orders a
part of A, starts the worker, and then adds its place: no swap and no deletion
takes part.

`nsd` answers 0 for a pair with one 0, because its loop begins at the smaller
number and ends at 1. The comment in it (`nsd.c:7`) says "urci nejvetsi spolecny
delitel cisel a, b" (determine the greatest common divisor of the numbers a, b),
which is the other number: the code and its comment disagree, and GEN's
`rand() % 4096` can be 0. An assumption of `MCForkPipe` states both values for
TLC to compute; `AnswersRight` leaves pairs with a 0 out. Of 0 and 0 there is no
greatest divisor.

The passing runs state exactly how far the code goes where it falls short:

- `NothingAfterSelfLock`: a worker that finds no part waiting locks the mutex it
  holds (line 287); from then on nothing behind that mutex happens. What is not
  behind it goes on: main still reads a command and sets `arg`, sorts, and frees
  the lists at the end of the input, and workers look up their phases.
- `PhasesInOrder`: no phase of B or C is ever done, because `make` counts their
  parts in a column no worker looks at.
- `WrongPhaseOnlyByRace`: a worker does another place's phase, but only if its
  first lookup met a list being sorted or stood on a node that was deleted.
- `FreeMarksNoOther`: my_free may accept an address the program does not hold and
  overwrite a word of a payload, or the `next` of the last block. A second free
  of a block that is still a block is always refused; one of a block gathered
  since is accepted if the program has filled the gathered payload with zeros.
- `ImageLoaded` names the only bytes of a file the program may not see: those in
  a page that two segments share, those behind a segment whose `.bss` begins in
  the same page, and everything if the file does not begin at a page (the
  multiboot header in `start.S` does not ask for that).
- `LeavesLayout` holds for files whose segments are in order on pages of their
  own, far enough below the stack; otherwise the break may lie inside the image.
- `LosesOnlyLastLine`: an unfinished last line is never printed.

## 5. What is proved

| theorem | module | says |
|---|---|---|
| `KallocInvariant` | `KallocSearchProofs` | `Spec => [](TypeOK /\ ScanInv /\ BootInv /\ PagesBelowEnd /\ NoPanic)` |
| `AllocatorsStayApart`, `KallocNeverPanics` | `KallocSearchProofs` | `Spec => []PagesBelowEnd`, `Spec => []NoPanic` |
| `SearchCorrect` | `KallocSearchProofs` | `Spec => ReturnsFirstFit` |
| `SearchImplementsKalloc` | `KallocSearchProofs` | `Spec => Promise!Safety` |
| `FramesHaveOneOwner` | `SyscallProofs` | `Spec => []Ownership` |
| `HeapIsMapped` | `SyscallProofs` | `Spec => []HeapExtent` |
| `LoopsStayInBounds` | `SyscallProofs` | `Spec => []LoopBounds` |
| `SyscallsAreSafe` | `SyscallProofs` | `Spec => [](TypeOK /\ NoPanic)` |
| `SyscallsImplementBreak` | `SyscallProofs` | `Spec => ImplementsBreak` |
| `BlocksStayDisjoint` | `MemAllocProofs` | `Spec => []BlocksDisjoint` |
| `ListStaysOrdered` | `MemAllocProofs` | `Spec => []ListOrdered` |
| `OnlyTailNextIsLost` | `MemAllocProofs` | `Spec => DamageIsTailNext` |
| `FreeMarksNothingElse` | `MemAllocProofs` | `Spec => FreeMarksNoOther` |
| `FreeBlocksAreReused` | `MemAllocProofs` | `Spec => ReusesFreeBlocks` |
| `SemaphoreCounts` | `ProdConsProofs` | `Spec => []SemAccounting` |
| `QueueIsFifo` | `ProdConsProofs` | `Spec => []Fifo` |
| `LinesHandledOnce` | `ProdConsProofs` | `Spec => []EachHandledOnce` |
| `LateLookLeavesNothing` | `ProdConsProofs` | `Spec => []LeftOnlyByStaleCheck` |
| `StatusIsRight` | `ProdConsProofs` | `Spec => []ExitStatus` |
| `ProgramIsLoaded` | `LoaderProofs` | `Spec => []ImageLoaded` |
| `StartsIffFits` | `LoaderProofs` | `Spec => []RunsIffFits` |
| `LoaderLeavesLayout` | `LoaderProofs` | `Spec => []LeavesLayout` |
| `MutualExclusion` | `FactoryProofs` | `Spec => []HoldsMutex` |
| `SelfLockStopsAll` | `FactoryProofs` | `Spec => NothingAfterSelfLock` |
| `PhasesOneByOne` | `FactoryProofs` | `Spec => []PhasesInOrder` |
| `RaceIsTheOnlyWrong` | `FactoryProofs` | `Spec => []WrongPhaseOnlyByRace` |
| `NsdIsGcd` | `HomeworkProofs` | `nsd(a, b)` is the greatest common divisor |
| `OkIsTrue` | `HomeworkProofs` | `Spec => []OkMeansAnswered` |
| `AnswersStayRight` | `HomeworkProofs` | `Spec => []AnswersRight` |
| `NumbersArePrinted` | `HomeworkProofs` | `ReaderSpec => []PrintsNumbers` |
| `ConversionIsC` | `OutputProofs` | `vprintf` puts `before \o CText(spec) \o after`, if `Standard(spec)` |
| `OutputInvariant` | `OutputProofs` | `Spec => []OutputInv`, the invariant below |
| `TerminalShowsAll` | `OutputProofs` | `Spec => []TerminalShows` |
| `LastLineOnly` | `OutputProofs` | `Spec => []LosesOnlyLastLine` |

**Assumptions.** The constants' `ASSUME`s, which TLC evaluates on every run:
a bitmap of whole words that covers the pool; `init`'s pages and the execution
context fit in the pool together (`BootAssumption`); the memory `root_invoke`
leaves has one use per frame, a mapped image and stack and nothing in between,
and the pool has no more frames than there are pages between image and stack
(`LayoutOK`; the pool of 16 to 20 MB is five thousand frames at most, against
nearly 786 thousand pages); consumers are finitely many; an input starts a
worker once; a word has more than 4 values, so that the fault's address is one;
a buffer holds a character and there are two tickets at least; a call's format
has one conversion with arguments it can take, words for numbers (`IsCall`); the
digits of `hw7`'s input are among 0 to 9.

**KallocSearch.** The invariant is the conjunction in `KallocInvariant`; each
part needs the others. `ScanInv` says where the search stands: without its last
part (a full word is met only at its first bit) the jump by `WordBits` could
not be shown to skip used pages only. `PagesBelowEnd` is inductive only because
`alloc` is called when `BootInv` says which pages are in use, and because
`Return` marks a run below `PageLimit`, which `ScanInv` gives. First fit then
follows: at `Return` either `found = size`, and no fitting run starts before
`first`, or the loop has reached the end and no run fits. The refinement maps
every iteration to a stutter and `Return` to `Answer`.

**Syscall.** The invariant is `TypeOK`, `Ownership`, `HeapExtent` and
`LoopBounds` together. `LoopBounds` gives the loops their direction,
`HeapExtent` that the page below `page` is mapped to a frame when a loop
releases it (so `free_page` does not panic) and that the page at `page` is not
when a loop fills it, and `Ownership` that the frame released or taken has no
other use. The heap stays below the stack by counting: distinct frames, one
for each heap page, cannot exceed `NumBits`. The lemmas on page tables they rest
on are a section of `SyscallProofs`, and one of `LoaderProofs` for the loader's
tables: what `alloc_page` returns, and what `insert_mapping` changes, with
and without memory for a table.

`SyscallsImplementBreak` reads every byte of the program through the tables. A
turn of a loop is a stutter: it changes the mapping of one page, and no byte
below the break is in that page, because `LoopBounds` keeps `page` above it. The
bytes that a finished growth adds are zero for two reasons: those of the last
page were cleared when the call was accepted, those of new pages when they were
mapped. The second needs an invariant of its own, `GrownIsZero`: the pages the
growth in progress has mapped so far hold zeros. `Break` states safety only, so
the whole of `ImplementsBreak` is a theorem.

**MemAlloc.** `Inv` is `Types`, `BlocksDisjoint`, `ListOrdered`, `EndsOfList`,
`SearchOK`, `FreedOK` and `Sized`. The list alone does not determine where blocks are
once they are gathered, so `BlocksDisjoint` needs the history variable `blocks`:
it fixes the layout (every block ends where another begins or at the break) and
the marks (used exactly when live). `EndsOfList` admits the state the code is in
after it has gathered the tail: `tail` is then no block but lies inside one.
`SearchOK` says what the search's locals stand for: `curr` is a block or the end
of the list, and the blocks from `new_block` up to it are free and have
`my_size` words between them. `OnlyTailNextIsLost` follows from where each action writes. `FreeMarksNothingElse`
rests on `WrongMark`: `my_free` takes an address that is not held only if the word
where its mark would be is zero, and a zero word of the heap is no block's size
(`Sized`: requests for nothing never reach the search) and no mark but that of a
held block; if it is a block's `next`, the block is the last of the list. An
address given back is that of a block, which is then marked free, or lies apart
from all headers (`FreedOK`), so it cannot even be that. After a stray address
was taken, `ListOrdered` claims nothing (`astray`) and the rest of `Inv` still
holds; `InOrder` is `ListOrdered` before that. `FreeBlocksAreReused` needs the loop
invariant of the search, `Passed`: any run of free blocks it has passed is too
small, and a free run that reaches up to `curr` is part of what it is gathering,
whose words are no more than `my_size`, which is still less than asked for. It
speaks of words as sets (`Room`) because a run is then smaller than another that
contains it, without adding sizes up.

**ProdCons.** `Inv` is `DataTypes`, `PlacesOK`, `Exclusive`, `SemAccounting`,
`Numbered`, `Hands`, `Outcome`, `EndIsFinal` and `Ending`. `SemAccounting` is
inductive by itself up to one fact, that the consumers about to pop are finitely many, so that
their number drops by one when one of them does. `Numbered` says that the popped
entries are the lines 1, 2, ... and that `head`, the `next` fields and `tail` lead
through those that follow, which gives `Fifo`. `PushEnd` keeps it because an
empty list gets a new head and any other an entry behind `tail`; `MoveHead` because
the entry it was read from is still the head (`Exclusive`: one thread at a time is
inside) and has a `next` that was set unless it is the last; `Free` because the
entry freed is no longer among those the pointers lead through (`Hands`: what a
consumer holds was popped, or is the head it is moving, and is held by no other).
`Outcome` ties the flag and the output to the popped entries outside anybody's
hands.
`EndIsFinal` says that a list seen empty after `end` stays empty, and `Ending`
what the producer tells main and that main waits for everybody.

**Loader.** `LInv` follows the loader through its file, for files placed as
`LeavesLayout` asks. `Own` and `Unmapped` say that every frame has one use and
that nothing is mapped at or above the page the loader has come to;
`InSegment` that the page loop reaches the end of its segment and meets no frame
of the pool among the file's pages; `BetweenSegments` that the break is not above
any segment still to come, which is where the order of the segments matters:
without it a page could be mapped twice and its first frame lost. The tables'
write bits are forgotten first (`ViewInsert`: what `insert_mapping` does to a
table it does to what `Forget` leaves of it), so that the lemmas on
page tables apply. With this theorem, the last line of `Syscall`'s
assumption, that layouts are `LayoutOK`, is what the loader is proved to deliver.

`FInv` is for every file, whatever its segments share. `Current` says that the
page loop has mapped each page it has passed as its segment asks, and that
`phys`, `fsize` and `msize` are where its page makes them; `Finished` that this is
still so for the pages of earlier segments that no other segment maps, with their
`.bss` clear. Bytes only ever become zero (`Clears`), so a finished segment can
lose nothing but file bytes, and `FileKept` says which: clearing reaches a page of
the file only through a page of the segment's own (`ClearsBehind`), where the
segment's bytes end. `ProgramIsLoaded` follows because `FilePlace` computes where
a byte of the file lies in memory.

`CInv` counts: the frames allocated are the kernel's, one for each slot that has a
table and one for each page passed that has no bytes in the file. A frame whose
mapping a later segment replaces stays allocated and stays counted, so the sum is
right for overlapping segments too. When a call finds no frame all are counted,
and what is counted is part of what the file needs, less the one that was asked
for; when the program starts, all the file needs has been counted.

**Factory.** Three invariants, one on the other. `HoldsMutex`: a thread where
the code stands between a lock and its unlock is the mutex's owner, with
`WhereOK`, which knows the places a thread can be at and that main reads
commands. `SelfLockStopsAll` follows: the thread that locks twice is the owner,
so nobody else is inside, and every handler that writes the parts, the phase due
or the jobs, inserts a node or deletes one is. It does not claim that `arg` stays:
main sets that before it waits. Sorting goes on too, which is why the theorem
speaks of the lists' lengths and needs `RaceInv`: a swap writes at a node that is
there.

`TurnInv` is `LookShape`, `Counted`, `OnlyA` and `Turn`. `Counted` says that the
phases done of a product are 1, 2, ... up to the one due; it is kept because
whoever does a phase has the number that is due (`Turn`), and the number stays
due because nobody else is inside. `OnlyA` is why B and C stay untouched: the
words of `parts` their branches test are never written.

`RaceInv` is `ListsRight` (every node names a phase its place can do, in the
middle of a swap too, and so does every call of `insert` the command has still to
make, `Doable`), `Sorting` (the sort stays inside its list and the node it saved
is a right one), `Starts` (a worker main will still start is new), `Readers` (a
lookup is at a node of its list, at none or at a deleted one, and the node where a
first lookup found its place is still that of its place unless a swap came
between) and `Numbers` (so what the worker has read can be done at its place,
unless it is among `torn`: it met a swap, or its node was deleted and it read
whatever was there). `Starts` is needed because a second `start` would change the
job of a worker whose numbers have been read.

**ForkPipe, Divisors.** `nd` and `nsd` are not recursive in `Divisors` but
choose the number the loop stops at, so what they compute can be proved for all
numbers: `NsdIsGcd` takes the greatest common divisor as a greatest element,
which exists because a set of natural numbers has a least one
(`NatLessThanWellFounded`). The processes' invariant is `InOrder` (the pairs sent
are those answered and then those in the pipe, and every answer to a pair without
a 0 is right),
`EndIsOpen` (the end GEN writes to stays open while the parent may still fork and
while GEN runs) and `EndsAtEnd` (NSD ends well only at the end of the pipe, after
which nobody writes, and the parent says OK only after that).

**NumReader.** What the program has been through is kept by `ReaderInv`.
`RestOfInput`: buffer and what is not yet read are the rest of the input, so
`Behind` is where the program stands. `InNumber`: no other character is behind
it, the `num_digits` characters before it are digits with no digit before them,
and `num` is what they stand for, wrapped; this needs that wrapping at every
digit is wrapping once (`WrapsOnce`), and, when the first digit of a number
comes, that no number has just been printed whose digits go on, which is what
`AtEnds` adds. `OutputSoFar` counts: three writes for every number that began
before the present one, then those `print` has made (`WritesBegun`), and each
fits the number of its place. `NextStart` and `NoStart` say how that number of
starts grows with each character. `HexIsHex` is the correctness of `print`'s
division by 16, with no bound on the number.

**Printf, Output.** Digits, formats and texts are recursive. The library's
induction theorems take an operator as the hypothesis and cannot be used, but
induction over a *set* of numbers can: a counterexample would be a least one
(`LeastOfSet`, from `NatLessThanWellFounded`). What a recursive function
computes is proved by showing that a function with its equation exists up to any
number, as a set of pairs, and that two of them agree (`DigitsUpTo` for the
digits of a number, `Joins` for `FlattenSeq`, `Path` for the states of `vprintf`
after each character of its format). `Reads` then follows `vprintf` through a
conversion's flags, width, precision and length to its character, for every width
and precision, whatever digits they have. `ConversionIsC` compares what it puts
there with `CText`.

`Course` says where the processor can be: `Control` who called the kernel's
printf, and that nothing is to be put or written except where code is that puts
or writes it; `String` that `sys_print` has the buffer's content while the
buffer is being emptied; `Messages` that what `handle_exc` has still to print is
the end of its three messages; `Buffer` that outside `sys_print` it has room and
no newline, without which `LosesOnlyLastLine` would not follow. `Split` is the
program's half: all that `vprintf` has put so far is what was handed to the
kernel, what is in the buffer and what is still to put, in this order. The
kernel's half is `TerminalShows`, inductive once the rest is there: each step
moves a character from the front of one part to the back of the one before it.
`OutputInv` is `Course`, `Split` and `TerminalShows`. `OnLine` is the carriage return before a newline.

**Only model-checked.** Liveness (`BreakReturns`, `MallocReturns`,
`Termination`, `Delivered`, `Decides`, `Finishes`, `PhaseGetsDone`, `AllEnd`,
`Exits`, the fairness part of `ImplementsKalloc`): fairness and ENABLED are
outside what the prover handles.

## 6. What is not modelled

- Processor and interrupt set-up (`start.S`, `gdt.cc`, `idt.cc`, `tss.cc`,
  `gsi.cc`, `lapic.cc`, the interrupt entries of `entry.S`): straight-line
  programming of hardware. Interrupts stay masked. `Output` has the entries
  a program can take.
- `handle_exc_ts`, `handle_tss`, `ret_user_iret` and `idle`: no path of this
  kernel leads there, unless a program sets up the processor's nested-task flag.
- `my_malloc.c`, `my_malloc2.c` and `old_factory.cpp`: drafts that later files
  replace and no makefile builds. Comments in the last are quoted above.
- The shell scripts of `hw2` and `hw3`: sequential text filters, whose work is
  done by external commands.
- Unused methods of `LinkedList` in `factory.cpp` (`removeNode`, `find`,
  `display`) and the table lookup before it.
- In `my_malloc`, arithmetic that wraps at 2^32 (`sys_sum`, `NumReader` and
  `Printf` have it).
- In `print` of `hw7`, the null character written one past the array: what is
  there is a matter of the stack frame, and nothing reads it back.
