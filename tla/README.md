# Verification of the programs in self-learning

The repository is a large collection of notes, and the code in it is a set of
small programs, each written to understand one mechanism: how goroutines share
a map, how an allocator merges blocks, how System V semaphores hand a string
over, how `Rc` and `RefCell` make a deque, and so on. They do not call each
other. This directory holds, for those with behaviour of their own,

* TLA+ models translated from the source, one module per program (or per
  program and implementation),
* TLC runs that check them on small instances, most of them under every
  schedule and against an abstract specification of what the program promises,
* TLAPS proofs of the most important results for every value of the constants.

`PROJECT.json` lists components, runs, mutants, hazards and theorems, and maps
every definition to the lines it models. Line numbers below are of the files
under `src/`.

Contents: [Inventory](#inventory) · [Modules](#modules-and-how-they-correspond-to-the-code)
· [Runs](#runs-and-bounds) · [Fairness](#fairness) · [Proofs](#proofs)
· [Findings](#what-the-runs-found) · [Not modelled](#what-is-not-modelled)
· [Plan](#plan)

## Inventory

What is modelled:

| component | state it keeps | operations | interaction | what is hard | what makes it correct |
| --- | --- | --- | --- | --- | --- |
| **Crawler** `ds/6.824/code/crawler/main.go` | map of fetched URLs; per call a `WaitGroup`; the master's counter `n`; the goroutines | `Serial`, `ConcurrentMutex`, `ConcurrentChannel` with `worker` and `master`, `Fetch` | a mutex, an unbuffered channel, spawning and waiting | goroutines that reach one page through different links; early returns; counting who will still send | every reachable page is fetched exactly once, no other is, and the call returns only then |
| **Mini C runtime: heap** `compiler/programmer/code/13/{malloc,entry,test}.c` | a linked list of block headers inside one `brk` area | `crt_heap_init`, `crt_malloc`, `crt_free`, entry and exit | called by the program, which owns the blocks and overwrites what lay there | a `prev` that names a block that is no longer the one before; any order of frees, and what comes after | the list tiles the heap, blocks in use are the program's, free neighbours are merged |
| **RPC key-value server** `ds/6.824/code/kv/main.go` | `kv.data` under `kv.mu`; connections | `server`, `connect`, `get`, `put`, handlers `Get` and `Put`, `main` | TCP calls, one goroutine per connection, a mutex | handlers at once; calls that fail after they took effect; the server ends with `main` | an atomic store: a call takes effect once, at one instant |
| **Shared-memory handoff** `docs/kernel/code/shm/svshm_string_{read,write}.c` | one segment, one semaphore | the reader creates, waits for 0, prints, removes; a writer attaches, copies, decrements | System V IPC between processes | several writers; kills between copy and signal; removal while others wait | the reader stays in the segment and prints a whole string, one writer at most succeeds |
| **Rust lists** `language/rust/too-many-linked-lists/src/{first2,second,second_gene,third,fourth}.rs` | nodes owned by `Box`, shared by `Rc`, or linked both ways by `Rc<RefCell>` | `new`, `push`, `pop`, `peek`, `append`, `tail`, iterators, `drop` | lists share tails; iterators borrow lists; neighbours own each other | last owners, cycles of counts, `borrow_mut` and unwraps that may panic, recursion of drop | stacks and persistent values, nothing leaked, counts exact, no panic |
| **Condition variable** `docs/concurrent/code/cv.cpp` | `ready`, `mtx`, waiters | `print_id`, `go`, `main` | `condition_variable` | lost, early and spurious wake-ups | a permit lets one thread pass and none lies unused |
| **std::thread demo** `language/cpp/threadlib/thread.cpp` | variables counted by reference or copy; `std::thread` handles | starts, a move, joins | unsynchronised increments | which threads share a variable, which handles are joinable | final counts, no `std::terminate` |
| **Goroutine demos** `language/go/goroutine/{2,4,5,9}.go` | channels; a counter in a map under a mutex | sends, receives, close, quit; `Inc`, `Value` | channels, a mutex | what is delivered, when the loops end | everything is delivered in order; no increment is lost |
| **edk2 compilation database** `docs/uefi/uefi/compile_commands_patch/edk2_compile_commands.py` | `compile_commands.json`, `lockfile.txt` | read, change and rewrite by parallel workers | a file lock with a relative name | lost updates, the half-written file, workers killed, files that cannot be read or written | no update is lost |
| **Algorithms** `algorithm/wheels/{Dijkstra,LIS,SCC,Edmonds-Karp,Dinic,StoreGraph,MCMF}.cpp` | queues, tails, stacks, edge arrays, lists and vectors of edges | `addEdge`, `shortestPath`, LIS, `SCC`, `max_flow`, `maxFlow` | none; the caller adds edges and asks in any order | stale queue entries, state kept between calls, indices at the ends | results agree with the definition of the problem |
| **strace** `kernel/plka/code/strace.c` | the tracer's `res`, its handler, what is pending; the tracee's place | `main`'s wait loop, `sigchld_handler` | `ptrace`, `wait`, SIGCHLD | the handler and `wait` compete for one stop; uninitialised `sa_flags` | the tracee is never left stopped but for a reason in the code; one report per stop |
| **GLib loops** `docs/qemu/glib/glib.c` | loops, timers, one shared count; `FILE` buffer | `two_main_loop`, `one_loop`, a source on standard input | main loop, `poll`, stdio | two buffers, of which `poll` sees one; timers that outlive their loop | loops return after three callbacks each; lines typed are printed |
| **Mini C runtime: formatting** `compiler/programmer/code/13/{printf,io,string}.c` | format, arguments, output | `printf`, `puts`, `write`, `strcpy` | 32-bit system calls from a 64-bit program | where a buffer lies, widths, overlap | the output is what the format says, or the call fails for a reason that is known |
| **debugfs module** `kernel/plka/syn/fs/debug/code/mydebug_fs.c` | entries, `ker_buf`, the state of the module | `init_debug`, `myreader`, `mywriter` | debugfs and the module loader | failing half way while users have opened the file | nobody leaves the buffer; nobody calls into the module before it is freed and fails |
| **Allocation loops** `docs/linux/malloc_thread_safe/{pthread,clone}.c` | each context's block, the library's free list | `malloc`, `free` for ever | threads, or processes that share memory | a library that was not told of the second context | no block is with two threads or lost |
| **/proc/self/maps** `hack/lab/proc-self-maps/main.c` | mappings, two threads, a mutex | `print_maps`, `mmap`, join | threads, the kernel's file | maps that change while they are read; threads that were never created | every mapping of the start is printed, once and in order |
| **snake** `language/c/snake.c` | `Board`, the ring `Snake`, `food` | steer, move, feed, quit | the keyboard; a terminal of some size | the ring's ends; a full board; cells that the terminal does not show | the board shows the snake and the walls, the snake is a way |
| **Virtual machine scripts** `docs/qemu/sh/{busybox,yocto,alpine,ubuntu,windows}.sh`, `docs/uefi/uefi/uefi.sh` | files that are absent, half made or whole | download, unpack, configure, build, install, boot | one run after another; the user | a run cut short at any command; `set -e` and what it does not see | machines start from whole files unless a run was cut short |

What is not modelled is listed, with the reasons, [below](#what-is-not-modelled).

The hazards of `PROJECT.json` name, line by line, what a test would hardly
reach; each is tied to the properties that would catch it. Where properties of a run of
several programs carry general names (`Safe`, `Sound`, `Correct`, `Ends`), these are
conjunctions with one named conjunct per program and claim.

## Modules and how they correspond to the code

Conventions used throughout:

* One variable per variable of the code that matters, with its name; control is
  a program counter whose values are named for the call that comes next.
* An action is what the code does between two points at which another process
  can see or change shared state. What is private in between is part of it.
* Mutants are definitions named `X_Something` just before `X`: the definition a
  plausible bug would give. They are used by no run; they show that every
  property can fail.
* `Terminated`, `Stopped` and `Stuck` are stutters in states where the program
  is over (or, as stated there, waits for something nobody owes it), so that TLC
  takes any other standstill for a deadlock.
* A history variable (`calls` of the crawlers, `seen`, `recorded`, `copied`,
  `accident`, `depth`) only records; no guard of a modelled operation reads it,
  with the exceptions named below. `accident` and `torn` of the scripts only record, too.
* A `.cfg` is named after the module that it checks. Inputs that a `.cfg` cannot write
  (graphs, formats, mappings) are definitions at the end of that module, under "the inputs of
  the runs"; nothing before them uses them.

### Crawler

`Web` declares the URLs, the root and the webs that `fakeFetcher` may serve, and
holds those that the runs use;
`Crawl` is the abstract crawl: `Visit(u)` fetches a known page that was not
fetched, `Return` happens when no known page is left. Three modules implement
it, each with an `INSTANCE Crawl WITH returned <- ...` (`Abstract`, `MutexCrawl`, `ChannelCrawl`):

* `CrawlerSerial`: the recursion is a stack of calls, each the rest of its links
  (lines 17-30). It is checked with the other sequential programs, in `Algorithms`: what
  the abstract crawl promises (`OnlyReachable`, `CompleteAtReturn`) as invariants
  through `Abstract`, and `FetchedOnce`, `DepthBounded` and `Returns`.
* `CrawlerMutex` (lines 38-71): goroutines are named by their path in the tree of
  spawns. `Lock`, `Unlock`, `Fetch`, `Spawn`, `Wait`, `Return` are the points at
  which they can be interleaved. The map (`marked`) is read in the step of `Lock` and written in
  the one of `Unlock`: without the mutex, others come in between, as the mutant
  that ignores it shows.
* `CrawlerChannel` (lines 78-116): the master's `pc`, `n`, `fetched` and slice, and the
  goroutines as a sequence. A send and a receive on the unbuffered channel are
  one rendezvous (`Receive(i)`), any waiting sender first.

Printing, URL bodies and the words of errors are left out; a missing page is one
outside the domain of the web. `main` runs the three one after the other with
no shared state.

### Mini C runtime heap

`MiniCrtHeap` keeps memory as the headers it holds, by address (`hdr`). The
program fills the blocks that it gets, which scrubs the headers there; headers
merged away stay in memory until then, because `crt_free` goes on reading them
through stale `prev` links. `Malloc` is the first fit
with both cases of the fit (whole or split, lines 73-89: a block that fits
exactly is not taken), `Free` and `DoubleFree` are `crt_free` of a block that the program holds
and of one that it freed before: lines 27-42 with the forward and the
backward merge in the order of the code, or the warning. Sizes wrap at `Unsigned`.

The list is `Sound` when its blocks fill the heap one after the other, those in use are the
program's, and these do not overlap. No action tests that, since the code does not: the program goes on with
a list that covers a block in use. With m for `crt_malloc` and f for `crt_free`, m(big) = A, m = C, f(A), m(small) = A,
m(rest) = N, f(A), f(C) merges A and C across N (the `prev` of C still names A), and the next
m of that size gives out memory in which N lies: such behaviours are in the model. It stops (`Astray`, state "undefined")
where the code would take the program's data for a header or walk in a circle, or write behind the heap. What
the data are as a header is any value, except that its type is neither FREE nor USED.

The properties say how a list that is not `Sound` can and cannot come about, since what it leads to has
no other end: never when blocks are freed in the reverse order
(`AlwaysSound`, `NothingLost`), never by `crt_malloc` of a sound heap, in whatever order blocks were freed, and by `crt_free` exactly
when the block's `prev` names a free block that is not the one before (`KeepsSound`, both ways: every such free does).
That a block freed twice is noticed (`FreedSaysSo`) holds after that, too.

### RPC key-value server

`KVServer` has for each client where it is, what it asked and where its handler is.
`net`, `net/rpc`, the kernel's backlog and the scheduler are external: a
connection is complete before the accept loop takes it (`Accept` may be late),
it may break at any time (`Fatal`), and that does not stop a handler, unless the call was one of `main`: its
`log.Fatal` ends the server as well (`Down`). `main`
puts and then gets (lines 137-139); other processes call `get` and `put`
with any key and value, up to `MaxCalls` times. `ServerExit` takes the server down
with the process, handlers and all; a reply on the wire may still arrive.
`KVStore` is the atomic store: a call is asked, takes effect once, is answered
or abandoned. The wrappers `get` and `put` ignore their parameters (lines 54, 66) and
send what `main` happens to pass; the model keeps what is sent.

### Shared-memory handoff

`SvShm` has one action per system call of the two programs (`at` says which comes next); `memcpy` copies
byte by byte in any order; the reader's `printf("%s")` reads byte by byte up to
the first NUL, in one pass. Every system call may fail (`errExit`) and a signal
may come at any point: `Dies`. The kernel objects follow the manual pages: a
segment marked by `IPC_RMID` goes with the last process that has it attached, a semaphore
set goes at once and wakes its waiters with an error. Stdio buffering of what is printed
is abstracted.

### Rust lists

`BoxList` is `second_gene.rs`, with `first2.rs` and `second.rs` as subsets of its
operations; `RcList` is `third.rs`, any number of lists that share tails;
`RefCellDeque` is `fourth.rs` statement by statement, because its counts and borrows
are only interesting in the middle of `push_front` and `pop_front`. Freed nodes
are reused (`heap` is a function on what is allocated). The borrow checker is
part of the guards: what it refuses is no program. `Stack` and
`PersistentLists` are the abstract lists. `RustLists` puts the three side by side;
they share no state, and `uses` names the module in use, so the union adds no
behaviour and costs one run instead of three. `Debug` chooses the `println!` of
`first2.rs` line 68. When a node of `BoxList` goes out of scope (`OutOfScope`), its drop glue frees all that its `Box` owns at
that moment (`Owned`: the way along the `next`s), and `depth` is how many nodes that were: 1 because the loop of `drop`
takes `next` out first, the length of the list in the mutant that leaves that to the glue.

### Small concurrent programs

`CondVar` (with spurious wake-ups; `Thread` and `Permits` in the place of 10 and 4),
`ThreadLib` (each `++n` a load and a store; which variable a thread counts
follows from `std::ref` or a copy), `GoChannels`, `SafeCounter`
(`main` sleeps for a second and does not wait for the goroutines: it may print
less than the total, and `NoIncLost` is about the map),
`CompileCommands` (lock names are relative, so workers in
different directories do not exclude each other; `open(..., 'w')` empties the
file and `json.dump` fills it, with a kill or a failure possible in between; two
writers of one open file may leave a mixture; every `open`, read and write may fail). `SmallPrograms` is their union,
`runs` names the one that runs.

`CompileCommands!accident` records the last of two things that lose updates. "torn": a worker was killed, or
`json.dump` failed (`DumpFails`), between emptying the file and closing it. "unread": a file that exists could not be read; `except IOError`
(line 75) does not tell that from a file that is not there, so the worker starts from an empty list and
rewrites the file, without the entries of all others. Until then no
update is missing, and no worker ends because of the file; at all times what the file has of a source
file is the newest update of it (`NoUpdateLost`). `TornIsFinal`: with a single directory a torn file stays torn, and every later worker
that can read it exits (lines 77-80), although the message of line 79 says that it
creates a new one; only an IOError gets past it. The lock is not left behind: an exception releases it, and the kernel frees it with its holder.

### Algorithms

`Dijkstra`, `LIS`, `SCC`, `EdmondsKarp` and `Dinic` follow the loops of the programs,
recursion as an explicit stack; the two flow classes share `FlowNetwork` (edges
in pairs `2k`, `2k+1`, and what a flow and a cut are). The reference definitions
(shortest walk, longest increasing subsequence, components by reachability, minimum
cut) are written from the problem and not from the code. Edges are added and
flows are asked for in any order, since the classes allow it. `Algorithms` is their
union.

* `Dijkstra`: `main`'s calls of `addEdge` come one by one. The comment of the class says "a directed graph"
  (`Dijkstra.cpp:16`), and `addEdge` (lines 43-47) lists an edge at both its ends. `Shortest` is over the edges that `addEdge` was given
  (`given`), not over `adj`, and walks them either way (`Roads`): it states what the code computes, the
  shortest paths of the undirected graph, and would fail for a directed one, as the mutant that lists
  an edge once shows.
* `LIS`: for an element equal to the smallest, `pos` is 0 and line 44 reads
  `tailIndices[-1]`, in front of the vector. The model takes any index or -1 there,
  and follows it for `n` elements at most, since it may lead into a cycle. `len` is
  right all the same (`BestTails`); `PrintsLongest` leaves such runs out (`astray`).
* `SCC`: `res` is not reset between the tests of one run (line 138), so what it
  returns is the largest component of all graphs so far: `LargestSoFar` states
  that, and not the size for the current graph.
* Flows: both classes give the reverse edge the capacity of the edge, so the
  network is undirected; the reference takes it as such. Edmonds-Karp's `init` clears `G` of the vertices below its
  public member `n` (line 44), which no method sets: `Clear` is for a caller that has set `n` so
  that it covers every vertex of the network before. With another `n` the old indices would stay.
* `EdgeStores`: how the two skeletons keep edges. In `StoreGraph.cpp` the heads are
  global and 0 until `initGraph` runs, so that before it no list ends
  (`ListsAreEdges` says both); what an earlier graph left in the array is never reached
  afterwards. In `MCMF.cpp` `init(n)` clears the vectors of the vertices in use, those of
  others keep indices of edges that are gone; `VectorsAreEdges` is about the ones in use.
* `Dinic`: see [findings](#what-the-runs-found). Its flows are sound, bounded by
  the cut, and `maxFlow` ends; that they are maximal is not claimed.

### System programs

Eight modules, each a program against an interface that is external: the interface
does whatever its manual allows, and what goes wrong goes wrong only for the reason that a
property names. `SystemPrograms` is their union; `runs` names the one that runs.

* `Strace`: `main` waits and the handler of SIGCHLD peeks at `orig_eax`, prints and
  resumes. The handler returns without resuming when `orig_eax` is -1, which it is when
  the tracee stops outside of calls: such a tracee stays stopped, and so says
  `NeverForgotten`, which allows for nothing else but flags that keep SIGCHLD away.
  Of `sigact` only the handler is set, so `sa_flags` is any set of flags (a read of
  uninitialised memory). The loop ends when `res` is 0: for an exit with another code
  `wait` goes on failing for ever (`LeavesOnExit`, `TracesToTheEnd`).
* `GlibLoops`: the demos with timers share `callback`'s count modulo 3, and each loop
  runs for three callbacks (`LoopsLive`); the first loop is freed while its timer is
  still set, which nothing iterates any more. The last demo, the only one that `main` calls,
  reads with `fgets` what `poll` has announced: stdio may take several lines at once from a pipe,
  which then wait in its buffer unseen (`NoLineWaits` is about a terminal), half a line
  blocks the main loop in `read`, and at the end of the input the source spins and
  prints its last line again and again.
* `MiniCrtPrint`: formats are sequences of characters and arguments numbers of `Width`
  bits, pointers of twice as many, or strings with the place where they lie. `%d` of a negative number prints it
  plus 2^`Width`, since `i` is unsigned (line 84); `%p` goes through a signed `long long` (line 105), and for one that is negative
  `convert` reads in front of its digits (line 27: `BeforeDigits`, `astray`); `%%` prints nothing; a lone `%` at the end
  steps over the NUL (`astray`). `PrintsFormat` is about formats that this `printf` is right for: `%d` of numbers that are not
  negative, `%p` of pointers from the lower half (`HasDigits`), and no other conversions than those it has. `write` is a 32-bit system call, so a buffer above 4 GB, that is
  on the stack, gives EFAULT and the process ends with 14 (`OnlyStackFaults`): that is
  what `%c` does always, and it explains the "unknown reason" for which `test.c:3-5` "can not
  print string from string". The length that is returned counts failed writes. `strcpy` never
  ends when its destination lies within its source (`CopiesString`).
* `Debugfs`: `init_debug` tests `u64int`, a global that nothing sets, so it always
  fails with -ENODEV after it has created the directory and the files; the loader frees
  the module, and the entries stay with operations in freed memory (`LeftBehind`). The
  rest of `init_debug` and `exit_debug` never run.
* `MallocLoops`: two contexts that read the free list and write it back. Threads take the
  library's lock; a process of a raw `clone` with shared memory does not make the library
  use it, and blocks are handed out twice or freed twice (`docs/linux/musl.md`, line 330). `SafeForThreads` is the claim for threads; for
  `clone` the model goes to `crash`.
* `SelfMaps`: the kernel makes up `/proc/self/maps` as it is read. Either thread may not
  have been created; `main` does not look, and joins a `pthread_t` that
  nobody set, which is `undefined` in the model and ends it, as is reading from a file that could not be opened (line 22).
* `Snake`: the whole game but for what it draws. `Board` takes what `mvprintw` returns (line 6), which is an error for a cell that the
  terminal does not show: `screen` is the set of cells where it draws. With 30 rows on a terminal of
  24 the lower walls are not set, the snake below is not either, a tail wiped off there becomes taken (line 28), and the snake can
  leave the board, which is `undefined`. So `BoardShowsAll`, the way of `IsWay` and what fills the board when it `hangs` are claims for terminals that show the whole board
  (`Whole`); that the snake is in no wall that shows, and that the game goes on only with food that it can get, hold on every terminal.
  The cell where the game begins is
  never set in `Board`, so the snake may cross itself there, and food may lie on
  it; the search for a free cell never ends once the board is full (`hangs`). Both are in
  the properties as the only exceptions.
* `Provision`: the six scripts as a table of what each tests and makes in order, with
  one set of actions; `busybox.sh` and `uefi.sh` have steps of their own. Any command may fail
  or be killed (`CutShort`), and the user runs a script again and again, or removes
  what it made (`Clear`). `make && make install` does not end `busybox.sh` when `make` fails
  (`set -e` looks at the last command only), nor does a `cpio` that fails in a pipe.
  `StartsFromWhole`: while nothing was cut short, machines start from
  whole files, whatever was answered. `HalfMadeStays`: what was, is taken for finished ever after.
  `sure` treats an answer that is neither yes nor no as a yes, although it says "Please answer
  yes or no."; `uefi.sh -d` only warns when there is no script for gdb. One script runs at a time.

## Runs and bounds

| run | checks | instance, and why it is enough |
| --- | --- | --- |
| `crawler_mutex` | `MutexTypeOK`, `FetchedOnce`, `WaitGroupCounts`, `MutexImplementsCrawl` | `main`'s web (5 URLs) and every web over two URLs. The tree of goroutines grows with every link, so three-page webs are left to the proof of `MutexFetchesOnce` |
| `crawler_channel` | `ChannelTypeOK`, `FetchedOnce`, `CountsOutstanding`, `NobodyLeftBehind`, `ChannelImplementsCrawl` | `main`'s web and every three-page web |
| `heap` | `TypeOK`, `AlwaysSound`, `FreedSaysSo`, `NothingLost`, `KeepsSound` | 17 words with headers of 3: room for four blocks, with free ones between them, so that forward, backward and double merges, merges through stale `prev`s, and blocks handed out over others happen. Requests 0, 1, 3 and 5 exercise NULL, the whole fit, the split and what does not fit. Sizes wrap at 18, past the heap, as 2^32 is. From 18 words on, what follows a wrong merge is too many states |
| `heap_coalesced` | violation of `Coalesced` | the same |
| `kv_server` | `ServerTypeOK`, `NoMapRace`, `ImplementsStore`, `Answered` | `main` and two other clients with one call each on one key: three handlers at once, with overwriting, failing (of `main`'s calls, too) and ending |
| `svshm` | `ShmTypeOK`, `StaysInSegment`, `Handoff`, `OneSucceeds`, `WriterEnds`, `CleansUp` | two writers, a segment of 3, strings of 1 and 2 characters (so that a shorter string can mix with a longer one) and one of 3 that does not fit |
| `rust_lists` | `TypeOK`, `NothingLeaks`, `CountsExact`, `NeverPanics`, `InOrder`, `ShallowDrop`, `Implements` | 3 nodes, 3 handles, 2 elements: one node, two nodes and a middle node; three lists that share a tail |
| `box_list_debug` | violation of `ShallowDrop` | the same with `Debug` |
| `small_programs` | `TypeOK`, `Safe`, `Ends` | 4 threads for 2 permits, two rounds per loop, 3 goroutines, `main`'s slice, a capacity of 4, 2 workers × 2 directories × 2 files, each failing or killed at any step |
| `algorithms` | `Sound`, `Correct`, `Ends` | Dijkstra on every sequence of up to 3 calls of `addEdge` on 3 vertices, loops and parallel edges included, on `main`'s 9 vertices, and on 5 where an entry of the queue goes stale twice; LIS on every array of up to 4 elements over 1..4, of 5 over 1..3, and `main`'s; SCC on two tests of every digraph on 3 vertices; flows over any order of 4 pipes on 4 joints, two calls between additions; two graphs or more with 2 edges each on 3 vertices in the edge stores; the serial crawler on `main`'s web and every web on three pages with up to two links each: self links, double links, cycles, dead links, unreachable pages |
| `dinic_bfs` | violation of `DistancesShortest` | the same, Dinic alone |
| `system_programs` | `Safe`, `Ends` | a tracee with 3 calls and a signal, under every set of flags; 7 units of input in two layouts of lines (fitting ones with half a line at the end, and one too long for the array of 4), from a pipe or a terminal; every format of up to three of 13 pieces, numbers of 4 bits, pointers of 8 on both sides of the middle, strings on both sides of 4 GB, and 24 copies, most of them overlapping; two users of a buffer of 2 that ask for 1 to 3 bytes; 3 blocks; 4 addresses, two of them mapped at the start; a board of 6 × 4, small enough to be filled, on a terminal that shows it and on one that lacks the last column of cells and the one before; any number of runs of each script |

`small_programs`, `algorithms`, `dinic_bfs` and `system_programs` do not check for
deadlock: their programs end, and `cv.cpp` waits for ever by design (10 threads, 4 permits; `main`
joins them all). `Ends` says which ones must get to their end.

What bounds behaviours is named: `MaxCalls`, `Calls`, `Tests`, `Rounds`, `EdgeBound`,
`CallsMade`, `Signals`, `Input` are
constants with that meaning; `Unsigned` is the width of the sizes. No counter is cut off by a state constraint.
No symmetry is used, because the runs have liveness properties or ordered data.

## Fairness

Stated per module, and only what the code's scheduling gives:

* Crawlers: weak fairness of `MutexNext` and `ChannelNext`: some runnable goroutine runs. Goroutines take
  finitely many steps, so no more is needed.
* `KVServer`: weak fairness of each handler, of returning a reply that was sent, and
  of a call on a dead server failing; strong fairness of taking `kv.mu`, since a
  `sync.Mutex` starves none (its starvation mode after 1 ms). None on clients:
  they may stop calling or lose their connection.
* `SvShm`: weak fairness of each process's next call. None on `Dies` or `Start`: a
  writer need not come.
* `SmallPrograms`: weak fairness per thread; strong fairness only for `go()`
  locking `mtx`, which would otherwise be starved by threads that wake up without
  cause for ever (a wake-up itself is not fair). None on `Kill` or on `Update`.
* `Algorithms`: weak fairness of the running program's own steps (the serial crawler's
  too), none on the calls of its user; the edge stores have nothing that must happen.
* `SystemPrograms`: weak fairness of the tracer and of the tracee, of an iteration of a GLib
  loop and of a second passing, of `init_debug`, of `main` and each thread of the maps
  demo, and of writing back and unlocking in the allocator; strong fairness of taking the allocator's lock,
  because the kernel hands a contended lock over in the end. None on signals, kills, typing, users or runs of scripts.
* `MiniCrtHeap` and the Rust lists have no liveness property and no fairness.

## Proofs

All are theorems of the specification for every value of the constants, under the
`ASSUME`s of the modules alone. These only type the constants (`RootIsUrl`,
`WebsLinkUrls`: webs have links to URLs; `MainIsClient`, `MainPutsIsTyped`,
`MaxCallsNat`; `ReaderIsNoWriter`, `ArgumentsAreStrings`, `MemSizeNat`; `HeaderSizePositive`,
`HeapHoldsHeader`, `UnsignedHoldsHeap`, `RequestsAreSizes`; `NullIsNoNode`, `NoneIsNoElem`,
`DebugType`; `PermitsNat`, `RoundsNat`, `CapPositive`, `WorkersAreSomeone`; `LayoutsOfInput`,
`CountsAreSizes`, `BlocksNat`, `AddressesPositive`, `ScreensOfCells`; `ArgumentsAreTyped`: `printf` gets a string
for `%s`, a pointer for `%p` and a number of `Width` bits for every other conversion, which its variadic call cannot check;
`PipesAreEdges`, `GraphsAreWeighted`, `ArraysOfNumbers` and
`DigraphsOnVertices`: an array of `Algorithms` holds numbers, a graph has its vertices numbered from 0, a
digraph from 1; weights and capacities are `int` in the code, and natural numbers here, which is the
precondition of Dijkstra's algorithm and what a capacity is; the one graph that a `main` builds has them), or say of them what
holds of every program: `ThreadsFinite` (the threads of one process are finitely many),
`WebsAreFinite` (so is the map that `fakeFetcher` serves) and `JointsAreFinite` (so are the vertices of a network),
`SinkIsNotSource` (a flow goes from one vertex to another), and that an array of `LIS.cpp` is not empty
(for an empty one see the [findings](#what-the-runs-found)),
`ABuildHasFiles` (a worker of the compilation database has something to compile),
`StringsEnd` (what `strcpy` gets ends at a NUL), `MaxLineAtLeastTwo` (an array for `fgets` has
room for a character and the NUL), and of snake's board, which is 30 by 30, `EvenBoard` (a snake
would start in the wall of a board with an odd number of rows) and `BoardNotTall`: `H <= W + 4`. The
last is exact, and there because the proof needs it: line 30 gives `W + 1` to
`W + 1 + (W - 1)(H - 1)` at most, which is before the last free cell of a taller board, so
that the search for food could hang with that cell left.

| module | theorems | the argument |
| --- | --- | --- |
| `CrawlersProofs`, with a channel | `ChannelTypeCorrect`, `ChannelFetchesOnce`, `CountIsExact`, `LeavesNobody`, `ChannelImplements`, `ChannelFetchesReachable` | `ChannelInv == Typed /\ Counted /\ Single /\ Tracked`. `Counted`: `n` is the senders left plus the slice in hand, which needs facts on cardinalities, and gives that `n` is never negative. `Single`: the worker for a URL is unique, and its URL is marked and not fetched yet; `FetchedOnce` alone is not inductive, since it says nothing of who will fetch. `Tracked`: a link of a fetched page is marked, in a slice some goroutine holds, or in the master's hand; hence nothing is unfetched when all have exited. `ChannelFetchesReachable` is about the abstract crawl, through the refinement: it visits only what lies in every closed set, and its visited pages are closed when it has returned, so together they are the reachable pages |
| `CrawlersProofs`, with a mutex | `MutexTypeCorrect`, `MutexFetchesOnce`, `WaitGroupsCount`, `MutexImplements`, `MutexFetchesReachable` | `MutexFullInv == MutexInv /\ Tree /\ Coverage`. `MutexInv`: one goroutine at most between `Lock` and `Unlock`, and who is to fetch a page is alone with it, finds it unfetched and has marked it or is about to. `Tree`: the names of goroutines are a forest, whoever has not returned was started by a call that still ranges over the page it was found on, and `WaitGroupCounts`. `Coverage`: a marked page is fetched or being fetched, and the links of a fetched page are handed out or still being handed out. When the first call returns, its `WaitGroup` is 0 and so, down the forest, nobody is left, and nothing is left to fetch. `MutexFetchesReachable` as above |
| `ServicesProofs`, the key-value server | `ServerTypeCorrect`, `HandlersExclude`, `MutexReleased`, `ServerImplements` | `ServerInv`: `Exclusive` (at most one handler at the map or about to unlock) and `MutexHeldInHandler`; for the refinement `Quiet`, `Asked`, `Replied`, `NotBefore`, `Fresh` tie a handler's place to its call, its reply and the client. `ServerImplements` is the whole of `ImplementsStore`: `KVStore` has no fairness |
| `ServicesProofs`, shared memory | `ShmTypeCorrect`, `ReaderStays`, `HandsOver`, `SucceedsOnce` | `ShmInv`: `NotYet` (no writer before the ids are known), `Signals` (`OneSucceeds`, and once set the value is 0 exactly after a success), `Copies` (which bytes a writer has copied, all of them when it signals), `Contents` (a writer that is alone finds what it copied, and the last byte of the segment stays NUL, whoever copies), `Printed` (what the reader has printed is what a lone writer copied) |
| `ServicesProofs`, the heap | `HeapInvariant`, `HeapTypes`, `FreedBlocksSaySo`, `SoundWhenStacked`, `WholeAgain`, `SoundIsKept` | `HeapInv` and, for frees in reverse order, `Stacked`: the list, a recursive function in the model, is related to the set of headers it reaches: it tiles the heap when each header ends where its `next` begins, with one last header at the end. `crt_malloc` splits one tile and `crt_free` merges up to three. Of a list that is not sound `HeapInv` says no more than what the headers are (`TypeOK`, `FreedSaysSo`), and `SoundIsKept` is about steps from a sound one: a `prev` that names the block before, a header that is off the list or a block in use does no harm (the first is merged with, the second stays off the list, the third is not free), and one that names a free block further off always does, since the tiles then have a gap. With frees in reverse order (`Stacked`) only the last block of the list is free, so that no merge leaves a stale `prev` that is followed later. Headers that were merged away stay free in memory until they are scrubbed |
| `RustListsProofs` | `TypeCorrect`, `NoLeaks`, `Counts`, `NoPanic`, `Orders`, `DropIsShallow`, `Refines` | three inductive invariants. `BoxInv`: the nodes are exactly one path from their owner, be it the head or the place of `drop`. `RcInv`: links have no cycle (a rank bounds the way to the end), each count is the number of links and handles, and an iterator has seen the way between its list's head and its place. `DequeInv`: at each statement of `push` and `pop` the nodes are one path linked both ways, but for the single node that the statement is about to attach or has detached; counts and borrows follow from the place on the path. `Refines` is the whole of `Implements`, since the abstract lists have no fairness: the values from a link on depend only on the nodes that come after it, and every statement changes the links at one end only. `DropIsShallow` unfolds what the `Box` of a node owns once its `next` is gone (`OwnedUnfolds`, `OwnsItself`): nothing but the node. It has `~Debug` as its hypothesis, which is the case that the code of `second_gene.rs` is in (for `first2.rs` see the [findings](#what-the-runs-found)) |
| `SmallProgramsProofs` | `TypeCorrect`, `AllSafe` | `AllSafe` is the whole of `Safe`, one inductive invariant per program. `CVInv`: the permits taken are the threads between their wake-up and their end. `TLInv`: which handles are joinable at each line, and a variable together with what its one thread has left to count is its final value. `SCInv`: one goroutine at most within the lock, and the value that an `Inc` has read is still the counter's. `GCInv`: what was received and what is buffered or being sent are, in order, what was sent so far. `CCInv`: a worker between reading and writing holds the lock of its directory; if all are in one directory, what it has read is the file, and a file torn by a worker that died stays so until one cannot read it |
| `SystemProgramsProofs` | `AllSafe` | `Safe` of all eight programs; `PInv` has one inductive invariant per program, and two for the mini C runtime. `STInv`: a stop within a call is pending or its handler is at it, and the reports printed and due are the stops. `GLInv`: the count says which loop runs, and stdio has one line of a terminal at most, if lines fit. `PFInv` (`printf`): what is written, with what `_puts` has left, is what the format means up to where `printf` has come, `len` counts it also when the file is closed, and a string on the stack is still to be put when `printf` has come to it; below that, that the digits which `convert` finds from the last to the first are those of the numeral (`ConvertIs`). `MPInv`: what `strcpy` has copied is as it was, or, if the destination lies in the source, no NUL is left between the two. `DFInv`: `init` never succeeds, so that the module is never live, and positions stay within the buffer. `MLInv`: the list that the holder of the lock has read is the list, which together with the blocks held is all blocks, once each. `SMInv`: the lines printed are, in order, mappings below the place to which the file was read, among them all that were there at the start. `SNInv`: from the tail to the head the ring is a way of cells, twice at most through the cell of the start; the cells that are no wall are fewer than the slots of the ring, even with one of them counted twice, so it never runs full (`SNBoard`, for a terminal that shows the board; `SNSeen` is what holds on any: walls that show are set, and the ring is on cells); that the loop of line 15 draws exactly the border is a lemma of its own (`SNVisited`), on where it is after `n` rounds. `PVInv`: what lies before the test a script has come to is there, what the run is making was not there before it, and unless a run was cut short nothing half made is left |
| `AlgorithmsProofs`, with `AlgorithmsFlows` and `AlgorithmsLemmas` | `LoopsSound`, `ReturnsCorrect` | the whole of `Sound` and of `Correct`, from `ProgramsInv`, which has one inductive invariant per program; see [below](#the-algorithms) |

In each case it is proved that the invariant holds initially, that every step keeps it and that
it implies what the theorem states; the proof of the step has one case per action, and temporal steps are by
PTL.

### The algorithms

`Algorithms` is checked by TLC on small inputs; `LoopsSound` and `ReturnsCorrect` say the same of
every graph, array, digraph, network and web. Most of the reference definitions are optimal values over
infinite or exponential sets, so an invariant must carry a witness for what was found and a reason why
nothing is better. `AlgorithmsLemmas` has the facts about numbers, folds and sequences and the first four
invariants, `AlgorithmsFlows` networks and Edmonds-Karp, `AlgorithmsProofs` the rest and the composition:
three modules in a chain, so that none of them takes a prover long.

* `SerialInv` (serial crawler): the stack is at most one deeper than there are fetched pages with links;
  what is fetched or pending lies in every closed set that holds the root; the links of a fetched page are
  fetched or pending. When nothing is pending, the fetched pages are closed, hence the reachable ones.
* `DijkstraInv`: the lists hold the edges given, each at both ends (`Built`); every finite distance is the length of a walk; `links` is the rest of the list of `top`;
  `NothingForgotten`: an edge that could still shorten a distance starts at a vertex in the queue or is in `links`. Stale
  queue entries only repeat work. When the queue is empty no edge shortens anything, so no walk is shorter than
  the distance of its end, and a walk of as many edges as vertices passes a vertex twice and can be cut (`Shortest`
  is about walks with fewer).
* `LISInv`: the tails are ordered, each ends an increasing subsequence of its length, and none of that length ends
  lower. For the printed chain there are depths of the elements such that `prevIndices` leads one depth down,
  to a smaller element; where line 44 reads in front of the vector there are none, and `PrintsLongest` excepts it.
* `ListsInv`, `VectorsInv` (edge stores): a head is the last stored edge of its vertex, and its `head` the last
  before that, so the way along them is all of them; before `initGraph` no link reaches -1. A vector holds the indices of the edges
  that leave its vertex, ascending.
* `EKInv`: flows stay within capacity; what leaves each vertex is 0, but for the source and the vertex
  that the augmenting path has come to. The search keeps a tree (each reached vertex
  has a predecessor of a lower rank, and room on the edge between) and has looked at all edges of what has left the queue.
  If it ends without the sink, no edge with room leaves what was reached: the flow fills a cut, and no flow exceeds
  any cut, so `FlowMaximal`. This is max-flow min-cut for the networks that `addEdge` builds.
* `DIInv` (Dinic): from the outermost open call of the depth-first search to the innermost, distances strictly
  grow, so that the calls are at different vertices; what a call has counted has left its vertex and not
  yet arrived there, what it still may send fits the edge its caller waits on, and elsewhere flow is conserved. That holds
  whatever BFS leaves in `d`, and is enough for flows to be sound and under every cut; so the
  [finding](#what-the-runs-found) costs maximality only.
* `SCInv`: in the first search the open calls are a path (`Trail`). If a finished vertex reaches one that lies above it in
  the order in which the second search takes them, a vertex of its own component lies at that place or above, or is still in progress
  (`Ranked`); likewise for what reaches an open call (`Joined`). Hence, when the second search starts from a
  vertex, what reaches it has been visited or is of its component, and it visits that component and
  nothing else (`Placed`, `InComponent`). `affection_num` counts what is visited of it (`Tallied`), `res` is no less than any
  size so far (`Sized`); `SizesInv` and `ReadInv` carry `res` from test to test.

### How induction is done

The library's induction theorems take an operator as a parameter, which the installed
provers cannot instantiate. Where an argument is by induction (a path, the values of
a list, a sum over threads), it is written as the choice of a smallest number, a last
node or a smallest set at which the claim fails (`Smallest`, `LastOf`, `SubsetInduction`); a recursive function or a fold is unfolded by
showing that some function satisfies its equation. For this the algorithms' reference definitions are recursive functions
and folds, and no module under proof has a `RECURSIVE` operator.

### Only model-checked

* liveness under fairness (`Answered`, `WriterEnds`, `CleansUp`, `Ends`, and the
  `WF` conjunct of `Crawl!Spec`: `MutexImplements` and `ChannelImplements` are the safety part
  of `MutexImplementsCrawl` and `ChannelImplementsCrawl`), and anything with `ENABLED`.

Every other property of the passing runs is proved. Powers are a recursive function of the model (`Power`
of `MiniCrtPrint`), since the provers know nothing of `^`.

## What the runs found

* **`crt_free` does not merge all it could** (`heap_coalesced`,
  `malloc.c:28-42`). The comment says "merge if possible". A split (lines 81-90) sets the `prev` of the new header and
  not that of the block behind it, which goes on naming the block before the new one. That one is in use, so
  `crt_free` of the block behind does not see the free block before it: two
  free neighbours stay apart. The forward merge (lines 29-33) leaves such a `prev`, too, and the "double linked list" of line 31 is not linked back.
  With a longer sequence of frees the `prev` names a free block further off, and the list covers a block in
  use, which is handed out again (see [above](#mini-c-runtime-heap)).
  Freed in the reverse order of the allocations, nothing goes wrong (`AlwaysSound`).
* **The drop of `first2.rs` recurses** (`box_list_debug`, line 68). The comment of line 71
  says "no unbounded recursion occurs"; the `println!` formats the rest of the list with the
  derived `Debug`, which recurses over it. `second_gene.rs` and `second.rs` do
  not print and are right.
* **BFS of Dinic does not determine shortest distances** (`dinic_bfs`,
  `Dinic.cpp:69`). It sets `vis` of the vertex whose edges it scans. Distances are set
  again, longer; the sink counts as reached only if it leads on to another
  vertex, so that `maxFlow` returns 0 for a network of one edge.

Seen on the way, in text only: `Dijkstra.cpp:16` says that the class represents a directed graph, and `addEdge` lists every edge
at both ends (lines 43-47), so that what it computes are the distances of an undirected one; `iter_mut`'s comment at `second_gene.rs:136` says
something else than the code under it; `SCC.cpp` accumulates `res` over tests (lines 83, 138,
151); `LIS.cpp` line 44 reads before the vector for a repeated minimum, and returns 1 for
an empty array; `edk2_compile_commands.py` prints that it creates a new file (line 79) and
exits (line 80; `TornIsFinal` shows what follows); `mydebug_fs.c:65` says that `exit_debug`
cleans up, which never runs; and what is said of each program under
[System programs](#system-programs).

## What is not modelled

Not modelled because nothing in it is a state machine of its own: the notes, figures and
Markdown; samples of C, C++, Go and regex syntax; inputs for compilers, linkers and ELF
dumpers; boot sectors and bare assembly; pasted macros; the goroutine demos that only print
or sleep (1.go, 3.go, 6.go); shell scripts that are straight lines of commands.

Not modelled because what matters is outside the code: benchmarks of the C
library's `malloc`, huge-page demos and other one-call experiments (the kernel); taichi kernels
(an external compiler, floating point). The perceptrons add coordinates divided by 600 in floating
point, and whether a point counts as right (a product > 0) depends on the rounding: a
model over integers would be another algorithm.

Not modelled because it has no defined behaviour: `setjump_longjump.c` jumps into functions that have
returned, so that every outcome of every line is allowed.

Within what is modelled: printing and logging (but for the mini C runtime's own), error texts, the fixed array sizes of
the algorithms, what `crt_malloc` and `crt_free` do once they take the program's data for a header, a terminal whose size changes during the game, the error that ncurses
gives for a string that ends in its last corner, what a `json.dump` that failed still had buffered (it is taken to be lost), and the words of the
commands in `compile_commands.json`.

## Plan

Done: every program with behaviour of its own is modelled, and every safety property of the
passing runs is proved; so are the refinements, but for fairness. Liveness stays with TLC, for the reasons
[above](#only-model-checked).

To check: `tlc -workers 2 -config X.cfg M` for a run of the table (module and cfg
in `PROJECT.json`), `tlapm XProofs.tla` for the proofs.
