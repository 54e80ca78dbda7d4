# Verification of the System Fundamentals II course programs

The repository holds five C programs, one per homework. They share no code and
never run together, so each is a system of its own here.

| program | what it is | concurrency |
|---|---|---|
| HW5 | a telephone exchange: a server with one thread per client | threads, mutexes, semaphores, SIGHUP |
| HW4 | `polya`: a master process that hands problems to worker processes | processes, signals, pipes |
| HW3 | `sfmm`: a memory allocator with boundary tags and size-class lists | none |
| HW1 | a Sequitur grammar compressor | none |
| HW2 | `vtree`: a directory tree printer with an inode hash table | none |

This file first takes stock of the five programs, then gives the plan, and then
describes, program by program, what is modelled, checked and proved: HW5 in
sections 3 to 5, HW4 in 6, HW3 in 7, HW1 in 8 and HW2 in 9. Section 10 says what is
not modelled.

## 1. Inventory

### HW5: private branch exchange

*PBX module* (`src/pbx.c`). State: `struct pbx` (the array `tus[]` of registered
telephone units, the pointer `tup` where the search for a free extension
starts, `exiting`, a mutex, one exit semaphore per extension) and one `struct
tu` per client (state, buddy, extension, mutex, descriptor). Operations:
`pbx_init`, `pbx_register`, `pbx_unregister`, `pbx_shutdown`, `tu_pickup`,
`tu_hangup`, `tu_dial`, `tu_chat`. Every operation of one thread reads and
writes the TUs of others, under mutexes taken in different orders.
Correct means: calls are two-sided, no freed TU is touched, a TU changes only
under its mutex, clients know the state of their TU, every extension has one
owner, and the threads make progress.

*Server* (`src/server.c`, `src/main.c`). State: the global `found_EOF`, one
service loop per client. Operations: accept a connection and start a thread,
read a command, call the PBX, leave the loop at end of file, unregister.
`main.c` installs a SIGHUP handler that calls `pbx_shutdown` and `exit`.
Correct means: a loop ends when its own client has gone, and then the TU is
unregistered and freed; SIGHUP ends the process.

*Socket helpers* (`src/socket_helper_functions.c`): `P` and `V`, and wrappers of
socket calls. *Tester* (`util/tester.c`): a client program.

### HW4: polya

*Master* (`src/master.c`, `src/master_helper.c`, `src/main.c`). State: for every
worker its process id, pipes, worker state and flags set by the SIGCHLD
handler; the current problem. Operations: start workers, hand out variants of a
problem, read results, cancel the other workers with SIGHUP, terminate.
Hard: signals arrive between any two instructions outside the blocked
sections, several state changes are reported by one signal, a cancel crosses an
answer. Correct means: each solved problem is solved by a correct result, each
worker follows the state diagram of `polya.h`, the master ends when all workers
have.

*Workers* (`src/worker.c`, `src/worker_main.c`): stop, continue, read a problem,
solve, write a result; SIGHUP sets a flag that the solver polls, SIGTERM ends.
*Problems and solvers* (`src/problem.c`, `src/trivial.c`, `src/crypto_miner.c`).

### HW3: allocator

`src/sfmm.c`, `src/sfhelperfunctions.c`. State: the heap as a row of blocks with
header and footer, and the array of free lists. Operations: `sf_malloc`,
`sf_free`, `sf_realloc`, `sf_memalign`, with splitting and coalescing. Hard:
long sequences of legal calls; each coalescing branch rewrites the tags of
neighbours. Correct means: blocks tile the heap, tags agree, exactly the free
blocks are in the lists, no two free neighbours, payloads disjoint.

### HW1: Sequitur

`src/sequitur.c`, `rules.c`, `symbol.c`, `digram_hash.c`. State: the storage of
symbols with its stack of recycled ones, rules as rings of symbols with reference
counts, a hash table of digrams with open addressing. Operations: begin a block,
append a byte and restore the constraints of the algorithm (digrams are replaced,
rules made and expanded, recursively). `comdec.c` writes the rules of each block as
bytes and reads them back in another run. Hard: each change moves pointers that a
caller further up holds; recycled memory keeps its fields. Correct means: no symbol
is lost, no digram occurs twice, what is decompressed is what was compressed, and
a transmission that was cut short is refused.

### HW2: vtree

`src/vtree.c` walks directories recursively; its state is in global variables that
every level changes (`stb`, `cur_depth`, `sub_dirs`, the running figures).
`src/hash.c` remembers the inodes that were counted, a table for each device, in
buckets that grow. Hard: a name may lead to an inode that was counted elsewhere, to a
directory that cannot be read or entered, or nowhere. Correct means: an inode counts
once (the program does so for files only), figures stand at the directory they are of,
totals are those of the report (its inodes are not), the tree drawn is the one walked.

## 2. Plan

The order follows the weight of the concurrency; the models of all five programs
are written.

1. **HW5**: `Exchange` (abstract), `PBX`, `PBXProperties`, `PBXServer`; theorems in
   `PBX_proofs`, `PBXLocks_proofs`, `PBXCalls_proofs`.
2. **HW4**: `Dispatcher` (abstract), `Polya`, `PolyaProperties`; theorems in `Polya_proofs`.
3. **HW3**: `Heap` (abstract), `Allocator`, `AllocatorProperties`; theorems in
   `Heap_proofs`, `Allocator_proofs`.
4. **HW1**: `Sequitur`, `Utf`, `Comdec` (the two programs), `ComdecProperties`;
   theorem in `Utf_proofs`.
5. **HW2**: `Vtree`, `VtreeProperties`; theorems in `Vtree_proofs`.

Nothing of the plan is left. The properties of `Comdec` are about mutually recursive
operators over whole inputs and stay with TLC, as does all liveness.

## 3. HW5: the model

| module | models |
|---|---|
| `Exchange` | what the exchange promises: calls with no threads or mutexes |
| `PBX` | `pbx.c` and `P`/`V`: TUs, registry, shutdown, with every semaphore wait a step |
| `PBXProperties` | what `PBX` is checked for, and its mapping to `Exchange` |
| `PBXServer` | `server.c` and `main.c`: service loops, `found_EOF`, clients |
| `MCPBX` | symmetry for TLC |
| `PBX_proofs`, `PBXLocks_proofs`, `PBXCalls_proofs` | theorems |

A connection, its server thread and its TU come and go together, so one element
of `Conns` names all three. `state`, `buddy`, `ext`, `tuMutex` are the fields of
`struct tu`; `mem` says whether the struct exists. `tus`, `tup`, `exiting`,
`pbxMutex`, `exitSem`, `pbxMem` are `struct pbx`. `pc` is the place of each
thread inside the operation it runs, `mainPc`/`mainI`/`mainTu` that of the main
thread inside `pbx_shutdown`. `heard` is the last notification a client was
sent.

A step is one semaphore wait, or the code between the last wait of an operation
and its last `V`. Inside that code a thread holds every mutex of what it touches
(`WritesUnderMutex`, `MutexesHeld`), so joining it into one step loses no
behaviour that another thread can see. `tu->buddy` is read once under the
thread's own mutex to find the second one, and again in the body, as in the code.
What no mutex guards is a step of its own: `free` and the exit semaphore
after `pbx_unregister` has let go of the PBX, and the second read of
`pbx->tus[i]` in `pbx_shutdown`.

An access to a struct that is NULL or freed is not a step that is missing but
one that sets `fault`, after which the model stops.

Assumptions. The SIGHUP handler runs in the main thread (which waits in
`accept`). `malloc`, `accept` and socket writes do not fail. Dialed extensions
are in range. A line is read in one step.

`Disciplined` says that clients dial only when they last heard DIAL TONE. It is
needed for calls to be two-sided, because of the divergence shown by `pbx_dial`;
whatever does not need it is checked and proved without it.

## 4. HW5: the runs

| run | instance | shows |
|---|---|---|
| `pbx_calls` | 3 clients, 3 extensions, disciplined | `CallsPaired`, `NoDanglingBuddy`, `ClientsKnowTheirState`, `ChatOnlyToPeer`, `LockUpsAreDialersOrPeers`, and `ImplementsExchange` |
| `pbx_anyclient` | 3 clients, 2 extensions, any dialing, SIGHUP | `TypeOK`, `MutexesHeld`, `RegistryOK`, `ExitSemaphores`, `WritesUnderMutex`, `RefusedOnlyWhenFull` |
| `server_calls` | 2 clients, 2 extensions, fair | `GoneClientsAreUnregistered` |
| `server_shutdown` | 2 clients, 1 extension, SIGHUP, fair | `ShutdownCompletes` |
| `pbx_lockup` | 2 clients | violates `NoCircularWait` |
| `pbx_dial` | 2 clients, 3 extensions | violates `DialKeepsCall` |
| `server_eof` | 2 clients | violates `LoopEndsAtOwnEOF` |

Bounds. Nothing is cut off but the sizes of the constants: a connection is used
once, so behaviours are finite up to the commands of its client. Two clients
make a call; the third dials a busy TU, rings a TU whose call is ending, or waits
for a mutex the two ends hold. Three clients with two extensions make one
refused and an extension reused; a free extension beyond the registered ones
(3 extensions, 2 clients) is needed to dial nobody. With one extension and two
clients in `server_shutdown` the second is refused or reuses the extension. Of the
states of a TU all seven occur.

Symmetry on `Conns` is sound: no definition tells clients apart, and it is not
used with liveness.

Deadlock is not an error by itself: the system may stop when all clients have
gone, when it has exited, after a fault, and when threads lock each other up.
The last is a real defect, which `pbx_lockup` shows and
`LockUpsAreDialersOrPeers` delimits.

Fairness. Threads are scheduled and `sem_wait` on a semaphore that is posted
again and again returns in the end: strong fairness of each thread's steps and
of the main thread once the handler runs. A connection that has ended holds
finitely many lines, so reading its end is strongly fair. Clients owe nothing.
The liveness properties except executions that lock up, fault, or in which a
client registers after `pbx_shutdown` has looked at its extension (`Stuck`).

### What the violations show

* `pbx_lockup`: the mutexes of TUs and of the PBX are taken in different
  orders, so two clients of one call that act at once, or two that dial each
  other, wait for each other for ever. `README.md` of HW5 asks for
  synchronization that ensures correct and reliable operation.
* `pbx_dial`: `README.md` says that a dial has no effect in any state but DIAL
  TONE; `tu_dial` puts a ringing or connected TU into ERROR when the extension is
  free, and leaves its buddy set.
* `server_eof`: `found_EOF` is one variable for all threads, so the end of one
  connection ends the loop of another.

## 5. HW5: the theorems

All are proved for every set of connections and every number of extensions, from
`ConstantsAssumption`; in `PBX_proofs` and `PBXLocks_proofs` for clients that dial
whenever they like.

* `TypeCorrect`: `Spec => []TypeOK`. The invariant is inductive as it stands.
* `RegistryCorrect`: `Spec => []RegistryOK`, that `tus[]` holds exactly the live TUs that have
  not been removed. It needs `MemOK`: a TU has
  no memory before its registration, and freed memory only in the last two places of its thread;
  without it a thread that registers might be in `tus[]` already.
* `ExitSemaphoresCorrect`: `Spec => []ExitSemaphores`, through `ExitOK`, the same
  facts without the set `holders`: an extension has at most one holder, its count
  is 0 or 1, and is 1 exactly when neither a TU nor the shutdown has it. It uses
  `RegistryOK`: a thread at `reg_exit` is the TU at its extension.
* `RefusalsAreDue`: `Spec => RefusedOnlyWhenFull`, an action property. The offset the
  search stops at is the least one from `tup` that is free (every set of naturals has
  one), and every extension is at some offset below the number of extensions; so a search that
  stops nowhere has seen them all.
* `MutexesCorrect`: `Spec => []MutexesHeld`. The inductive invariant is `Locks`:
  who holds the PBX mutex, who holds each TU mutex, and `LocksOK`, that a TU not
  yet registered is unlocked, no TU is its own buddy, and the TU being dialed
  is another one. The last two keep a thread from locking itself, and the middle
  is what makes the buddy that is unlocked the one that was locked.
* `WritesProtected`: `Spec => WritesUnderMutex`, an action property, from `Locks`.

The theorems of `PBXCalls_proofs` assume `Disciplined`. They would be false without it:
`pbx_dial` shows a dial that tears a call apart and leaves one side with a buddy. Shutdown
is not excluded, so they say more than `pbx_calls`, where SIGHUP does not come.

The inductive invariant is `Calm`: the invariants above and

* `CallsPaired`, which says what a call is;
* `Places`: what a thread saw of its TU before it waited for another mutex is still so
  after the wait. A thread inside `tu_dial` has a TU at DIAL TONE, one inside `tu_chat` a
  connected one, and one that is to lock a buddy has a buddy. It holds because nobody
  changes a TU but under its mutex;
* `Known`: a client that has not heard its state was left by its party in shutdown, so
  it hears no dial tone, and does not dial. This is where `Disciplined` is used;
* `NoDanglingBuddy`.

A thread has 24 kinds of step, but a step does one of seven things to the calls
(`Effect`: a TU registers, leaves, hangs up, picks up, answers, fails to dial or rings
another one), or nothing. `StepEffect` shows that, action by action; that each of the
seven preserves the invariant, and what it is in `Exchange`, is then shown once.

* `CallsCorrect`, `BuddiesAreThere`, `ClientsAreTold`, `ChatsStayInTheCall`: the
  invariants of `pbx_calls`, from `Calm`.
* `LockUpsOnlyThere`: if nobody in a circle of waiting threads dials, each holds no TU
  but its own, so whoever waits for a TU waits for that of its buddy, which by
  `CallsPaired` waits for the first; and a circle cannot consist of waits for the PBX.
* `ExchangeImplemented`: `Spec => ImplementsExchange`. Each effect is the action of
  `Exchange` of that name under the mapping of `PBXProperties`, or a stutter.

Only model-checked: liveness, and the two properties of `PBXServer` that need it.

## 6. HW4: the model

`Polya` models the master, its SIGCHLD handler, the problem source, the workers
and the part of the kernel between them; `PolyaProperties` states what is checked;
`Dispatcher` is what the whole promises, without processes, pipes, signals or states of workers.

| state | in the code |
|---|---|
| `worker_states`, `sigchld_flag`, `current_problems`, `no_more_problems` | the arrays of `master.c` |
| `mpc`, `mi`, `ending` | where the master is, its loop index, whether it has left the main loop |
| `problems_remaining`, `current_problem`, `heap` | `problem.c` and the problems its pointers point to |
| `chld`, `status`, `proc`, `sigs` | kernel: SIGCHLD pending, the change `waitpid` has to report, the process state, signals pending for a worker that does not run |
| `problem_pipe`, `result_pipe` | the two pipes of each worker |
| `wpc`, `got_cont`, `got_cncl`, `got_term`, `solving` | `worker.c` |

How signals are modelled. The master has SIGCHLD blocked except in `sigsuspend`, so its
handler runs only there; SIGCHLD is one bit, and the kernel keeps one change per
child for `waitpid`, the last. A signal to a running worker takes effect at
once, which loses nothing: between two steps of a worker that others can see
it makes no difference when its handler ran. A signal to a stopped one is
handled when it is continued, before anything else.

Granularity. A step of the master is its work on one worker. Nothing interrupts
it, and the signals it sends to several workers in one step reach processes that
have nothing in common but the master.

Undefined behaviour, first of what is read before anything is stored in it: `Init` gives
`sigchld_flag[]`, `no_more_problems[]` and `current_problems[]` any value, each worker's
apart. Of a pointer only NULL and `WILD` are told apart. When a problem is solved,
`master.c:138-147` follows the pointers of the other workers, of those too that have
not been given a problem (`Unset`). What it finds behind a `WILD` one is the type of the problem
solved, or another, or the read is a fault (`crashed`). In the first case the worker
gets SIGHUP, each set of them in a transition of its own, and that kills it if it has not
installed its handlers. The handler of the master overlooks a worker killed by a signal;
one whose flag was set too is taken for idle, and as it has been waited for, `kill()` then
fails and the master gives up (`Fail`).

Secondly of what has been freed. Whenever a problem is solved, `master.c:140` compares its type
with that of the problem each other worker was given, which for those that work on
the same one is the one `post_result` has just freed; this is so in any build. Either the
freed block still holds the problem (`intact`; the C library reuses its first
bytes only), or its type has been overwritten, in which case the comparison fails, nobody
is canceled, and a result for the freed problem is posted through a table entry that
does not exist (`crashed`). Both builds are checked. A new problem may get the address
of a freed one or not.

Left out: other failures of system calls, failures of `malloc`, SIGPIPE, a worker that exits with
a failure, a miner that exhausts all 2^64 nonces. A result solves a block only if
it was computed for it; any trivial result solves any trivial problem, as in
`trivial_check`. `read_result` wraps the pipe in a new stream each time, whose
buffer takes all the pipe holds, so what follows the first result is lost.

### The runs

`polya_workers`: 2 workers, 2 problems, both types, 2 addresses, every initial value of the
three arrays, both builds; 552284 states. Two workers make a solution cross a cancel and signals
merge; a second problem is what a late cancel or an unread result can fall on; two addresses are
one that is reused and one that is not.

* `AssignsToStoppedWorkers`, `PipesNeverBlock`: the protocol between master and
  worker never goes out of step, although the master learns of stops late. Only a worker
  that the master itself killed is given a problem without being stopped, in vain.
* `NoLostWakeup`: merged signals lose nothing, as the handler drains `waitpid`.
* `WorkersRestBetweenProblems`: SIGTERM and wake-ups find a worker only between two
  problems; branches of `worker.c` for anything else are dead.
* `CancelReachesSolvers`: in an intact build, who works on a solved problem has been told.
* `NoStalePointers`: in such a build no pointer to a freed problem outlives the turn of
  the loop in which it was freed, so no result is posted to one. Within that turn
  `master.c:140` reads it, as said above. `WILD` pointers are left only of workers that have not
  been given a problem, and nothing else can crash the master.
* `ImplementsDispatcher`: to the outside the program is `Dispatcher`. Problems are posed
  in order, one at a time, and given only to workers that have none. Each one given is answered once,
  by that worker. The first unread answer of a worker decides: one that
  solves the open problem closes it, any other changes nothing. The work is over only when all are
  solved and no worker has one left. The task of a worker is the problem in its pipe or in
  its hands (`Task`), the open problem is what `current_problem` points to (`Open`), and signals,
  states, `current_problems[]` and the order of the loop are not seen. An early end of the main loop
  because of what the uninitialized arrays held would be a step of no dispatcher. `sound` is
  whether the build is intact and no pointer is `WILD`: the dispatcher may break only while it is
  not (`Settle`: it may become so, when the last `WILD` pointer goes).
* `WorkerStateDiagram`: workers go through the states of `polya.h` in order; the
  handler's branch from stopped to idle is dead.
* `ProgramEnds`: the master exits. Weak fairness of each process is enough: whatever a
  process waits for stays there. Excepted are the two crashes above and workers that were
  signalled before they were ready because of an uninitialized flag or pointer (`Lost`).

`polya_idle` violates `IdleMeansNoResult`: `polya.h` says that an idle worker has no
result to be read, but that of a canceled worker is never read. The next read of
its pipe returns it in place of the right one; `ProgramEnds` shows that the worker
then simply gets the problem again.

The stale cancel (SIGHUP between `got_cncl = 0` and the stop, which aborts the
next problem) is in the model as well; it costs one more attempt.

The system may stop (the master has exited, given up or crashed, or a worker was lost), hence
`CHECK_DEADLOCK FALSE`.

### The theorems

`Polya_proofs` proves every property of `polya_workers` but `ProgramEnds`, for every
number of workers, problems and addresses, any set of types, every initial value and both
builds, from `ConstantsAssumption` alone.

The inductive invariant is `Base`: the types, `Place` (where the master may be, and that the
worker it is giving a problem to rests or is dead, `Asking`) and `Phases`. A phase says all
there is to know of one worker on both sides and in the kernel between them. Before the main
loop ends it is

* `Fresh`: it has not stopped yet, or nobody has noticed;
* `Slain`: the master has killed it before it could stop, by a pointer nobody had stored;
* `Resting`: it is stopped, idle, with nothing to report and nothing to read;
* `Working`: it was given a problem and continued (`Given`), has read it (`Solving`) or
  has answered (`Answered`), and the change to report is at most "continued";
* `Finished`: it has stopped with a result, and either that is not yet noticed, or its
  flag is set and the loop has not come to it in this pass (`Ahead`).

and after it `Told`, `Gone`, or one of the two that are `Lost`, `Killed` and `Missed`. None of
the properties is inductive by itself: that a continued worker finds a problem depends on the
problem having been written before SIGCONT, that the master does not give a second
one on the status that is still to be reported, and so on around the cycle. A step moves one worker
from one phase to another and leaves the others (`Kept`: it cancels them at most), and a turn of
the loop passes none that is to be looked at (`TurnGoesOn`), so each action is
looked at once (`WorkerPhase`, `MasterPhases`).

* `TypesKept`, `AssignsWell`, `NobodyWaitsForAPipe`, `TerminatedAtRest` follow from
  `Base`; so does `StatesInOrder`, an action property, since what `waitpid` reports
  fits the phase.
* `NoWakeupIsLost` needs that outside of the handler a change to report has SIGCHLD
  pending or belongs to a worker that is just waking up (`Wakeups`): continuing a worker makes a
  change to report before it makes a signal.
* `EveryProblemIsSolved` (the main loop ends only when all problems are created and solved,
  `EndsWhenSolved`) needs that a worker whose `no_more_problems[]` is set too early has
  not been looked at since it started, and will be in the pass that first finds it
  stopped (`Unasked`); and that a pass only begins when some worker has stopped, so
  it asks for a problem (`Somebody`, `SomebodyAsks`). A worker that was killed by a `WILD` pointer
  may have made the pass begin, but by then another one has solved a problem. This is why
  none of the uninitialized arrays ends the loop too early.
* `PointersAreCurrent` and `SolversAreCanceled` need `Cancels`: in an intact build a worker
  has a pointer to the current problem and that problem in its pipe or its hands, or no
  pointer and a cancel that is set or pending, or it has not been given a problem yet and
  its pointer is `WILD`.
* `SolverImplementsDispatcher` is the refinement. A step of a worker is an answer or is not seen
  (`WorkerDispatches`); a step of the master is `Pose`, `Share`, `Accept`, `Reject`, `Break`,
  `End` or not seen (`MasterDispatches`). The phases show that whoever is given a problem has
  none and that the answer that is read is that of a worker with nothing to do; `Cancels`, that
  in an intact build the answer is posted to the open problem or to none; `Ends`, that nothing
  is left at the end; and `Honest`, that only miners give up. A `WILD` pointer stays `WILD` or
  is stored over, so the program can only become sound (`Settle`).

Only model-checked: `ProgramEnds`, which is liveness.

## 7. HW3: the model

`Heap` is what an allocator promises: regions that are aligned and share no row.
`Allocator` models `sfmm.c` and `sfhelperfunctions.c` and the client that calls them;
`AllocatorProperties` states what is checked and maps `Allocator` to `Heap`.

| state | in the code |
|---|---|
| `heap.mem`, `heap.top` | the memory from `sf_mem_start()` to `sf_mem_end()`, in rows of 8 bytes |
| `heap.epilogue`, `prologue` | the pointers of the same names |
| `heap.lists` | `sf_free_list_heads[]`, each ring as a sequence |
| `live` | the regions the client holds, with the rows it asked for |
| `status` | whether `sf_free` has called `abort` |

A row is a tag (size, previous allocated, allocated), a row of the client's data, or
`Junk`. The tags are read and written at the addresses the code computes: a tag that
a block writes in the wrong place is read by the next call, and reading a row of data
as a tag stops TLC. Rows inside a free block become `Junk`, since the client has
written there and the links have: nothing may depend on them. A call is one step, as the
program has one thread.

The size of a minimum block is `M`; the code's 8 rows, pages of 512 rows and 16
pages are parameters. The address of a block is that of the row before its header, as in
the code.

The client fills every region, and calls `sf_free` with pointers that are NULL,
misaligned, or of free blocks, besides those it holds.

### The run and the refinement

`alloc_heap`: `M` of 4 rows, two pages of 16, requests of 0, 3 and 6 rows (one and two
units), alignments of 2 (refused) and 8 rows, three regions. The heap is grown once; three
regions are needed for a block that is freed between two free ones.

* `TagsTileTheHeap`: the blocks that the client holds or a list has tile the heap from the
  prologue to the end, with none lost and none overlapping; flags agree with
  neighbours, footers of free blocks with headers.
* `FreeListsHoldFreeBlocks`: the lists hold free blocks only, each once and in the list of
  its class, the one at the end of the heap in that of the wilderness. (That no two free
  blocks touch is not promised: the remainder of a `sf_realloc` that shrinks is not
  merged.)
* `RegionsAreAllocatedBlocks`: every region is the payload of an allocated block large enough
  for it.
* `ContentsStay`: what the client wrote stays, but for the last row of a block and for regions that
  `sf_realloc` has moved. These two losses are what the code does (below), so the property says that
  there are no others and cannot see them.
* `ImplementsHeap`: every call of `Allocator` is a step of `Heap` or leaves the regions as they are.

The system stops after `abort`, hence `CHECK_DEADLOCK FALSE`.

### What the code does otherwise

`Careful` keeps the client from the first two; the others are in the model.

* Without a wilderness the loop at `sfmm.c:113` compares the size of the list head, which
  is 0 and stays so: it takes all pages that are left and then fails, and the blocks that
  begin in the epilogue are misaligned.
* `sf_realloc` compares `rsize` with the size of the whole block (`sfmm.c:243`): a
  request for exactly that size returns the block as it is, one row too short.
* `sf_realloc` that moves a region copies to the payload of the payload (`sfmm.c:246`):
  the data begins 16 bytes late. `README.md:752-753` asks for the data in the block that `sf_malloc` returned.
  `ContentsStay` excepts moved regions until they are filled again.
* `sf_split` writes a footer into allocated blocks, over the last row of the payload,
  though `sfmm.h:35` says they have none. `ContentsStay` excepts that row.
* `sf_realloc(p, 0)` shrinks the region to the least block and does not free it.
* `get_min_fib` returns the same index for every size, so that all classes beyond the
  third are one list (`get_class_size`). `FreeListsHoldFreeBlocks` takes the class from the same
  function and cannot see it. The loop that should tell them apart runs for
  sizes of up to 5 units only, until an overflow ends it.
* `sf_memalign` accepts an alignment that is no power of two.
* The payload of the prologue passes the checks of `sf_free`. A region that is freed
  twice is noticed only while its header is still that of a free block.

### The theorems

All of what `alloc_heap` checks is proved, for every unit, size and number of pages, set of
requests and number of regions (`AllocatorAssumption`), under the hypothesis `Clients`:

* `Careful`: of a client that makes the two calls above nothing is claimed;
* every alignment that `sf_memalign` does not refuse is a multiple of `M`. `sfmm.h:222`
  asks for powers of two that are at least the size of the least block, itself a power of
  two. The code checks only the latter.

The inductive invariant is `Owned(heap, live)`: there is no heap and no region yet, or
there is a set of blocks `B` for which

* `Settled(heap, B)`: the blocks of `B` tile the heap, each is followed by one that has
  the right flag and, if it is free, ends in its footer; every free one is in its list,
  once, and nothing else is in any list;
* `Lets(heap, Allocated(heap, B), live)`: the allocated ones are the regions of the client,
  with the rows it wrote.

None of the invariants is inductive by itself: that a call leaves flags and lists right needs all
of them at once, for every block and not only for those that the call names. That the set
`B` is a bound variable lets a lemma speak of the blocks there are after a function without
walking the headers. There is one lemma for each function of the code, from the writing
of a tag to `sf_memalign`. It says what blocks there are afterwards, which of them are allocated, and
whose rows are as before (`Keeps`). Between two functions of one call a block is out of order:
in no list, with a flag behind it that may be wrong (`Flagged` with that block), and free
(`Pending`) or either (`Taken`). In these states `insert_to_free_list` and `sf_split` are entered.

* `HeapStaysInOrder`: `Owned` is an invariant.
* `TagsTile`, `ListsHoldFreeBlocks`, `RegionsAllocated`, `ContentsKept`: the four invariants
  of the run follow from it.
* `AllocatorImplementsHeap`: `ImplementsHeap`. Each lemma on a call says which region was
  obtained, released or replaced; that it is apart from the others is `RegionsLieApart`.
* `HeapKeepsRegionsApart`: in `Heap` regions lie in the heap, aligned and disjoint; with the
  refinement, so do those of the allocator, which `RegionsShareNoRow` states of it.
* `SearchMissesNothing`: when `find_fit` finds no block, every free block is too small, though
  the search begins at one class and the last block is listed apart.
* `MemalignAligns`: what `sf_memalign` returns is aligned as asked.
* `BlockSizeIsLeast`: the block for a request is the least multiple of `M` that holds
  it and its header.
* `ClassesAreOrdered`: a larger block is never in a lower class, so a search from the class
  of a request upwards passes no block that is large enough.

So nothing that `alloc_heap` checks is left to TLC alone.

## 8. HW1: the model

`Sequitur` models `symbol.c`, `rules.c`, `digram_hash.c` and `sequitur.c` as functions
from one state of the grammar to the next; `Utf` the encoding of `comdec.c`; `Comdec` the
steps of `compress`, `decompress` and `expand` in two runs of the program;
`ComdecProperties` states what is checked and `MCComdec` chooses inputs.

| state | in the code |
|---|---|
| `g` | symbol storage and its recycled stack, `main_rule`, `next_nonterminal_value`, the digram table |
| `phase` | which program runs and where it is |
| `input`, `pos`, `bsize`, `out`, `count` | `compress`: input, place in the block, block size, bytes written, the count returned |
| `file`, `at`, `b` | what `decompress` reads, where it is, what it read last |
| `nr`, `rb`, `rbKnown`, `rule_map`, `output`, `result` | its rule being read, the variable `rb`, the map of rules, its output |

A step of the compressor is one byte: what `check_digram` does with it, through all its
recursive calls, is one operator, as nothing interrupts it. Those operators are recursive,
so nothing is proved about `Sequitur`. `Then(x, F)` is the sequence of two calls: the
second is left out when the first has aborted. A symbol keeps its fields when it is
recycled, as in the code, and the counts of rules survive a block.

`rb` is a new variable in every turn of its loop and used before it is given a value
(`comdec.c:249`). `rbKnown` says whether what the memory held at first is NULL, which may be
either; later turns find there what the turn before has left, as in a build without
optimisation. The size of the digram table is a parameter (`MAX_DIGRAMS`). A file that is cut
short is a prefix of what was written.

### The run

`comdec`: all texts of up to 11 letters over two, and texts that nest rules, use three
letters, take two bytes each, or contain marks; blocks of 4, 6 and 20 bytes, so
that a text has one to five blocks; every prefix of the transmissions of texts of up to 4 bytes.
Eleven letters are what it takes to lose a digram; 30 symbols and a table of 23 are more than
any of these texts needs.

* `DigramsUnique`: after every byte, each digram of different letters is in the table at the
  place where it stands; the table has no recycled symbol and no digram twice.
* `SymbolsAccounted`: each symbol is in one rule or recycled, rules are rings in both
  directions.
* `RoundTrip`: what is decompressed is what was compressed; a transmission that was cut is
  refused; the counts that are returned are right.
* `FirstBlockNeverAborts`: in its first block, before counts of recycled symbols come in, the
  compressor does not reach the `abort` of `sequitur.c:257`.

Programs end, hence `CHECK_DEADLOCK FALSE`.

### The theorem

`GetReadsWhatWriteWrote`: `get_utf` reads back what `write_utf` wrote, at any place of a
file, for every value below 2^21 but the marks. The proof goes by the four lengths of
a code and reduces each to the arithmetic of its continuation bytes.

Only model-checked: the four properties of `ComdecProperties`. The insertions of `Sequitur`
call each other recursively, in operators that the provers cannot expand, and what they do to a
whole text would be shown by induction over it.

### What the code does otherwise

* A digram of two equal letters may be lost from the table: `join_symbols` puts the digram
  of a triple back while the old entry is still there, so it stays away, against the
  comment at `sequitur.c:49`. The text `aabbbaababb` then has a digram twice.
* When a rule is expanded, the digram of its last symbol and the one behind it is not put into
  the table.
* `new_symbol` increments the count of the symbol it makes, not that of the rule the
  symbol stands for (`symbol.c:81`). So no rule's count comes down to 1 in the first
  block, and rules that are used once stay. In later blocks recycled counts make
  the compressor abort at `sequitur.c:257` or expand a rule.
* The bytes 0x81 to 0x85 of the input are written as they are (`comdec.c:35`) and read as
  marks; `decompress` may then fail or crash. `RoundTrip` excepts them.
* `-b` counts bytes, not kilobytes; the test at `rules.c:161` is unsigned and never true.

## 9. HW2: the model

`Vtree` models the walk: `main`, `down`, `get_data` and `chk_4_dir` of `vtree.c`, and
`h_enter` of `hash.c`. `VtreeProperties` compares its results with the set of all
ways that lead down from the arguments; `MCVtree` has the file systems.

| state | in the code |
|---|---|
| `fs`, `args`, `opts` | the file system, the arguments, the options |
| `phase`, `arg` | the place of `main` and its loop variable |
| `stack` | the calls of `down` that have not returned: directory, list of entries, place in it |
| `stb`, `cur_depth`, `sub_dirs` | the globals of these names |
| `indented` | the global of that name: the last name has left its line open |
| `tally`, `total` | `inodes` and `sizes`, `total_inodes` and `total_sizes` |
| `summary` | what `-t` prints at the end |
| `hash` | the tables of `hash.c` with their buckets |
| `cwd`, `open` | kernel: the current directory and the descriptors in use |
| `lines` | what is printed |

A step handles one entry of the directory on top of the stack. `opendir` fails for a
directory that cannot be read and when the descriptors are used; `chdir` may fail; a name may
lead nowhere, and `stb` then keeps what the last `stat` left there. The order of
`readdir` is any.

Of the visual display the model has, for each name, whether it stands beside the name of its
directory, which has left its line open (`vtree.c:217-222`), or begins a line, and at which levels
to its left a branch goes on. A name beside its directory has one level only, its own, where a
tee is drawn without a look at `sub_dirs[]`: so an only child has a branch that goes on to nothing.
Where a line begins, `sub_dirs[]` decides at each level. Columns, the second line of a long
name and lines with nothing but bars are layout and left out.

### The run

`vtree`: six file systems (names in two directories; colliding and equal inode numbers on two
devices; an unreadable directory and one with two names; a cycle; dangling names; a
directory that cannot be entered), all 24 orders of `readdir`, three argument lists and 48 sets
of options; 840256 states. Two buckets that grow by two keys are filled and grown.

* `FilesCountedOnce`: the totals have each file once, or with `-d` once for each name, and each
  directory once for every way that leads to it, `-d` or not; and the space that `-t` prints at
  the end is that of the totals. It says what the program does, however it meets the names, and
  not what the documents say of inodes (below).
* `FiguresBelongToTheirLine`: the figures printed up to a line add up to what the
  directories named so far contain.
* `BranchesGoOn`: a name stands beside another one exactly when that is its directory's, printed
  just before; and left of a name that begins a line a branch is drawn onwards exactly when
  something hangs on it below. (Of the branch of a name beside its directory nothing is claimed:
  it goes on in any case.)

The first four file systems are `Intact` unless descriptors run out; the last two and the cycle
exercise the failures, of which nothing but the absence of a crash is claimed. The
program ends, hence `CHECK_DEADLOCK FALSE`.

### The theorems

`Vtree_proofs` proves all three properties of the run for every file system, all
arguments and options, every order of `readdir` and tables of any size. It assumes of the
constants what `VtreeAssumption` says: `stat` tells inodes apart by device and number,
and inode numbers are not 0 (`FileSystemOK`). The properties are about walks that are
`Intact`; the invariants are proved of those, too, as `Intact` cannot become true again.

* `EntersLikeASet`: `h_enter` answers OLD exactly for the inodes of a device that were
  entered before, and enters nothing else, whatever the calls before it
  (`NothingEntered` is their start, and the tables stay `HashOK`). `HashOK` says that a
  device has one table and that the keys of a bucket stand at 1 to `filled` with a 0 in
  front: that 0 is why a search that starts one place too low finds nothing it should
  not, and the comparison after the loop is why it misses nothing.
* `WalkAgrees` proves `Inv`, which the others build on: the globals say the same as the
  stack. `cwd` is the directory of the running call, `cur_depth` the number of calls and
  at most `open`; each call remembers the directory of its caller, its list has what it has read
  and wants to keep, each name once, and only a call that descends has called another.
  The bubble sort of `-o` only permutes the list (`Pass`).
* `BarsFollowBranches` is `BranchesGoOn`. Its invariant is `Branches`: `sub_dirs[i]` counts
  the names that the call at level i has still to descend to, and a name that begins a line has a bar
  at level i if and only if the next line at level i or further left is at level i or, as
  long as there is none, `sub_dirs[i]` is not 0. For the names beside others it needs `LineOpen`:
  `indented` is set exactly while the last thing printed is the name of the directory on top
  of the stack, so a name that finds it set is that directory's, and one that finds it
  clear has something else before it.
* `FilesOnce` is `FilesCountedOnce`. The totals are compared with a set of ways, and the
  stack has only one of them, so the invariant (`HaveCounted` of `WalkCounts`) says which
  ways have been gone: `Trail` is the way from the argument to the running call,
  `Pending` the names that each call on it has still to descend to, and `Gone` are the ways
  that do not leave the trail by a pending name. The figures are those of the ways gone and
  of the files in them, except the files that the running call has still to count, and the
  tables have exactly their inodes (`Counted`). Each step makes `Gone` grow by one way
  (a directory is entered, cut off by `-h`, or refused) or not at all: `GoneOn`, `GoneInto`,
  `GoneLeft`. When the stack is empty, `Gone` is everything.
* `FiguresOnTheirLines` is `FiguresBelongToTheirLine`. The invariant (`DisplayOK` of
  `WalkDisplays`) says the same of `Shown`, the ways that the printed lines stand for, with a
  trail that begins at the last level displayed (`HaveShownFor`); `History` keeps, for each
  line with figures, the equation that held when it was printed, for later lines do
  not change it.

### What the code does otherwise

* A directory with several names is walked and counted once for each, though `doc/vtree.1:10` says
  that duplicate inodes are ignored and `README.md:236-237` that an inode is a file or a
  directory: `get_data` looks up files only (`vtree.c:506-520`).
* "Total inodes" prints `inodes`, what the last lines of figures and the last argument have left
  there, not `total_inodes` (`vtree.c:678`), and so no total of the report (`doc/vtree.1:33-34`);
  `summary` has it as it is printed.
* The numbers of inodes include directories, though `doc/vtree.1:22` says they do not (the task
  in `README.md:315` asks for it). With `-v` only directories count.
* An only child is drawn with a branch that goes on, if its name stands beside that of its
  directory (`vtree.c:217-222`).
* A failing `stat` (`vtree.c:484`) and a failing `chdir` (`vtree.c:279`) go unnoticed.
* `free(dp)` (`vtree.c:430`) frees a directory stream without closing it: after some 1021
  directories none can be read. A cycle of links is walked until then.
* `sub_dirs[]` is written one past its end (`vtree.c:660`) and not checked for depth.
* The first key of a bucket that is full goes one past its array (`hash.c:130`), into the room
  `malloc` has rounded up by; `Grown` keeps that key, as the code does.

## 10. Not modelled

* HW5: the stress tester, the socket wrappers, failures of `malloc` and of the system calls.
* HW4: failures of system calls, the hashing of the miner (which nonce solves a block),
  the demo programs and libraries, of which no source is given.
* HW3: the unused declarations of the header, the test harness.
* HW1: `validargs` and `main`, which parse strings; `print_rules` and other debugging.
* HW2: the reading of options, columns, second lines of long names and spacer lines; `direct.c`,
  which is not built; more than 50 devices, which overflow `tables[]`; a file system that
  changes during the walk.
* Debug macros and Makefiles: no state.

None of the programs keeps anything over a crash, so there is no recovery to model; no
messages can be lost or reordered, as pipes, sockets and signals on one machine do not
(merged signals are modelled in `Polya`).
