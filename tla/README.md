# A verification project for h5cpp

TLA+ models of the parts of h5cpp where several threads, long sequences of
calls, index arithmetic, or failures of a library call decide whether data is
lost: the worker pool, the parallel filter pipeline on its write and its read
path, the packet table, the sequential path with its chunk splits and its
filter chain, the dataset view, and the wrapped ids with the process-wide lock
around the HDF5 library. TLC checks them on small instances, TLAPS proves the
most important results for every value of the constants.

h5cpp is a header-only C++ library over the HDF5 C library. Most of it is
compile-time dispatch (types, property lists, container adapters) around one
call of the C library each. The state and the concurrency sit in few files:
`H5Pthreads.hpp`, `detail/doorbell.hpp`, `detail/stoppable_thread.hpp`,
`H5Zpipeline*.hpp`, `H5Zall.hpp`, `H5Dappend.hpp`, `H5Dranges.hpp`, `H5Iall.hpp`,
`H5collector.hpp`, `H5Pall.hpp`, `H5Pdapl.hpp`.

## 1. Inventory

| component | state | operations | interacts with |
|---|---|---|---|
| worker pool (`H5Pthreads.hpp`, `detail/`) | task queue behind a mutex, `in_flight_`, `stopping_`, the doorbell's sequence number, the stop tokens | `submit`, `worker_loop`, `wait_idle`, destructor | called by every pool pipeline; global, shared by all of them |
| pool pipeline, write path (`H5Zpipeline_pool.hpp`) | deque of futures `in_flight_`, `cap_` | `write_chunk_impl`, `drain`, destructor | submits to the pool, stores with `H5Dwrite_chunk` on the calling thread |
| pool pipeline, read path (same file) | deque `read_in_flight_`, `read_dst_` | `read`, `drain_in_flight_read`, destructor | fetches with `H5Dread_chunk`, decodes in the pool |
| packet table (`H5Dappend.hpp`) | `current_dims`, the record count `n`, the buffer behind `ptr`, `dt`, the pipeline variant | construction, copy, move, `append` (record, string, pointer, container), `flush`, `reset`, destructor | extends the dataset, writes through either pipeline, whose `chunk0` is its buffer |
| chunk splitting (`H5Zpipeline.hpp`) | the index vectors of the pipeline | `split_to_chunk_write`, `split_to_chunk_read` | called by `h5::write` and `h5::read` |
| filter chain and filters (`H5Zpipeline*.hpp`, `H5Zall.hpp`) | two ping-pong buffers, a skip mask | apply and reverse, per filter encode and decode | called inline (basic) or in a worker (pool) |
| HDF5 lock and handles (`H5Iall.hpp`, `H5collector.hpp`, `H5io_registry.hpp`) | a process-wide mutex with a per-thread depth; the reference counts behind `hid_t` | lock, unlock; construct, copy, move, assign, close | around the C library |
| SWMR | the latch of the packet table, the library's metadata cache | `start_swmr_write`, flush, refresh | writer and reader processes |
| dataset view (`H5Dranges.hpp`) | a chunk buffer shared by the copies of an iterator | begin, increment, compare | reads through the C library |
| DAPL pipeline property (`H5Pdapl.hpp`) | a pipeline owned by one property list | set, copy and close callbacks | called by the library when lists are copied and closed |
| threads and back-pressure properties | values in property lists | set, resolve | select the pipeline and `cap_` |
| chunk arena | a bump pointer | allocate | behind `chunk0` and `chunk1` |
| gateways, gather and scatter, attributes, groups, types, adapters | none that outlives a call | one or two calls of the C library | - |

What is hard in this code, and what makes each part correct:

* **Interleavings** (pool). Clients push and ring while workers find the queue
  empty, note the sequence number, look at the stop flags, and go to sleep.
  Correct: no wake-up is lost; an idle pool has executed everything; no worker
  leaves while a task is queued; the destructor ends.
* **Order** (pool pipeline). Tasks finish in any order, the caller reuses its
  buffer at once, and several chunks in flight may be for the same place.
  Correct: the last chunk written to a place is the one that stays; memory is
  bounded; every call returns.
* **Partial failure** (both paths, packet table). A filter or an allocation
  throws in a worker and the exception reappears at a `get()`, perhaps inside
  a destructor; `H5Dwrite_chunk` and `H5Dread_chunk` return a status nobody
  looks at; `H5Dset_extent` fails at `max_dims`.
* **Protocol sequences** (packet table). `current_dims` in memory against the
  extent in the file, over appends of three kinds, flushes, resets, copies and
  moves. Correct: the dataset is an append-only log of what was appended.
* **Boundaries**. The trailing partial chunk of a read, the back-pressure cap,
  the 32-bit sequence number; blocks that end inside a chunk in one or several
  dimensions, cut with unsigned arithmetic. Correct: the HDF5 library finds each
  element where the caller wrote it.
* **Shared buffers** (filter chain, view). Each chunk passes through two buffers
  that keep what the chunk before has left, in an order of filters the user
  chooses; the copies of an iterator share them. Correct: what is stored can be
  decoded, and what is read is the element that was asked for.
* **Ownership** (handles). Copies, moves, temporaries and exceptions against the
  library's reference counts, and pipelines that hang on property lists. Correct:
  an id that is held is open, what was taken is given back, nobody is in the
  library beside another thread.

`PROJECT.json` has the full list of hazards, each at its line, with the
properties that cover it.

## 2. Modules

```
TaskExecutor                     what an executor promises
  ^ implemented by   WorkerPool        (WorkerPoolProofs, MCWorkerPool)
  | used by
PoolWrite  --implements-->  WriteBehind      (PoolWriteProofs, MCPoolWrite)
PoolRead                                      (PoolReadProofs, MCPoolRead)

PacketTable --implements--> AppendLog        (MCPacketTable)
  PacketTable < PacketTableProofs < PacketTableLog

ChunkSplit < FilterChain < DirectChunk < View        (MCSequential)
                           DirectChunk --implements--> ArrayStore
  FilterChain < FilterChainProofs;  View, FilterChainProofs < DirectChunkProofs

CapiLock < Handles                                   (MCHandles)
  Handles < HandlesProofs
```

`A < B` means that B extends A.

The pool is verified once, against `TaskExecutor`; the two paths of the
pipeline are built on `TaskExecutor`, so their state spaces hold no bell and
no worker. `PacketTable` stands on the write path in the same way: its
`WriteChunk` stores any number of chunks from the front of the queue that
leaves fewer than `Cap`, which is what `PoolWrite` establishes for a call that
returns (`BoundedInFlight`, `FlushedOnDisk`). Tasks that throw are looked at in
`PoolWrite` and left out of `PacketTable`.

### TaskExecutor and WorkerPool

`TaskExecutor` has a phase per task (new, accepted, done) and a `closed` flag:
a task is executed once, accepted tasks are executed in the end, and the
executor closes only when all of them are done.

`WorkerPool` has one action per atomic step of a thread. `SubmitCount`,
`SubmitPush`, `RingBump`, `RingNotify` are the four statements of `submit()`;
`LoopTest`, `Fetch`, `Snapshot`, `Execute`, `Settle`, `CheckStop`, `BellWait`
those of `worker_loop()`; `DtorBegin` to `Join` those of the destructor, with
the stoppable threads joined one by one. The program counters `cpc`, `wpc`,
`dpc` name the statement that is next. A critical section of `m_` never blocks
inside and is one step. `BellWait` compares and sleeps in one step, as a futex
does, and as the condition variable of the C++17 build does under its mutex.
The two builds differ in whom a `notify_one` wakes; the model takes the weaker.
`SubmitThrows` is a `bad_alloc` in `tasks_.emplace`. `rings` counts the rings,
`Seq32 == rings % SeqMod` is the 32-bit number in the code.

### WriteBehind and PoolWrite

`WriteBehind`: chunks may reach the file late, a place never goes back to an
older chunk, and when a drain has returned every place holds the last chunk
written to it that storage did not refuse.

`PoolWrite` numbers the calls of `write_chunk_impl`; the number is the data of
the chunk, so a stale or overwritten version can be told apart. `WriteChunk` is
the call up to `push_back`; `TakeFront`, `FrontThrows`, `PollDone`,
`WriteReturns`, `DrainDone` are the passes through the loops that call `get()`
on the front future; `ChunkTask` is the closure in a worker. `src` is the
caller's buffer, `raw[t]` the copy the task owns. A future that threw stays at
the front, because `pop_front` is skipped.

### PoolRead

One `read` of rank 1: a fetch per chunk, the decode in a worker, the copy of a
whole or trailing chunk into the caller's memory. Elements are their own
numbers. `h5::read` makes the pipeline, uses it once and destroys it, also when
`read` throws; the module follows it to the end of the destructor.

### AppendLog and PacketTable

`AppendLog`: records go behind one another, a flush pads the partial chunk and
makes everything visible, nothing committed ever changes.

In `PacketTable` a call is one action, because a table belongs to one thread.
`cur` is `current_dims`, `extent` and `disk` are the file, `buf` the first `n`
records of the buffer behind `ptr`, `pending` what a pool pipeline holds. Two
tables may stand on one dataset (`Copy`, `Move`, `MoveOnto`). The HDF5 calls are
`CanExtend`, `Resize`, `Writable`, `PlaceOf`, `PutChunks` and `PutStrings`: what
`H5Dset_extent`, `H5Dwrite_chunk` and `H5Dwrite` do to a chunked dataset, failure
included. `silent` records that a call failed and nobody was told. Dimensions
other than the first are taken together as columns, and the dataset is as wide
as the chunk. `init()` does not see to that: it puts the width of the chunk into
`current_dims`, in memory only (`H5Dappend.hpp:239-240`), and the first
`set_extent` (lines 253, 312) would cut a wider dataset to it. Such a dataset is
outside the model.

A dataset of variable-length strings (`strings`) takes `AppendString` and an
unpadded flush; `buf` then stands for pointers, which `Characters` follows when
they are written. The hyperslab that writes them is of rank 1. With "swmr" among
the calls the file may go over to SWMR; `latched` is `swmr_write_`, and
`published` is what a flush makes sure that a reader in another process sees. A
reader may see more, because HDF5 writes chunks when it likes. HDF5 has no SWMR
for variable-length data, so the two do not meet.

### ArrayStore, ChunkSplit, FilterChain, DirectChunk and View

`ArrayStore`: a write changes the elements of its block and no others, and when
it returns all of them have their new value, but for those storage refused. The
array is what the HDF5 library finds in the file.

`ChunkSplit` translates the loops of `split_to_chunk_write` and
`split_to_chunk_read`: `RowStart`, `WriteEdge`, `ReadEdge`, `RowLength` and
`RowPlace` are the index expressions, with their unsigned arithmetic modulo
`Word`; `Gather` and `Scatter` are the loops. Bytes are numbered, `Beyond` is what
lies behind the caller's memory. `PlaceOf` is the row-major place HDF5 gives an
element in its chunk, and does not come from the code.

`FilterChain` translates `write_chunk_impl` and `read_chunk_impl` of
`basic_pipeline_t`, with the ping-pong buffers, the in-place path and the skip
mask, and the closure of the pool (`EncodeInPool`). Shuffle moves bytes as the
code does, in both of its builds: with SSSE3 (`p.ssse3`, chosen per case), elements
of 2, 4 and 8 bytes are permuted register by register (`Vectors`, `Permuted`), and
those behind the registers go to the planes of the whole (`InTail`). Deflate and
fletcher32 produce bytes that stand for their input, so that a stream is decoded
only if it is the one that was encoded. `HdfDecode` is how the HDF5 library reads a
chunk, with filters of its own: its shuffle is made of byte planes
(`HdfUnshuffle`), and its checksum is the one of h5cpp with the bytes in the
other order (`HdfChecksum`). Data whose checksum reads the same both ways, such as
zeros, would be accepted by both; the model does not have it.

`DirectChunk` is `h5::write` and later `h5::read` of a dataset, chunk by chunk:
which chunks cannot be stored or fetched is chosen by TLC (`lost`, `missed`).
`View` adds the iterators of `H5Dranges.hpp`, which share the pipeline's `chunk0`
between copies. The program that uses them keeps the rules of input iterators.

### CapiLock and Handles

`CapiLock` has one action for the constructor and one for the destructor of
`capi_lock`, and the calls of the library with a beginning and an end. `LockSpec`
lets threads do this in any order, with or without the lock.

`Handles` is one such program. An operation (copy, assignment, move, destructor
of a wrapper, the conversion and the chaining of properties, `h5::open`, the
gateways by path) is a sequence of steps: locks, calls, and assignments to
wrappers. `todo[t]` holds those that thread `t` has still to do; an exception
leaves them and goes on with what unwinding does (`Throw`). `refs`, `pipe` and
`pipelines` are the library's side: reference counts, the pipeline of each property
list, and the pipelines allocated. `strays` counts the references of ids that only
a forgotten raw `hid_t` knew; `orphans` are the pipelines that
`dapl_pipeline_set` has allocated for a list that then did not take them
(`SetFails`). At the start the shared list and the dataset have a pipeline each, or
neither has. The gateways take the type of the elements from `resolved_type_t`, which
for a registered compound leaves one reference open (`Resolutions`), and write to a
dataset that exists. When two threads are inside the library nothing is defined
and no step follows.

Each module also has operators marked *Fault*: slips a programmer could have
made at that place (a dropped pop, an off-by-one, a missing copy). They are no
part of the specification; replacing the definition by one of them must break the
property named in `PROJECT.json`, which shows that the property notices.

## 3. Runs

Passing:

| run | instance | shows |
|---|---|---|
| `pool` | 2 workers, 2 clients, 2 tasks, `bad_alloc` | no lost wake-up; idle means done; workers leave only when drained; one holder per task; the pool implements `TaskExecutor`, liveness included; the destructor returns unless a `submit` threw |
| `write` | 2 places, 5 writes, cap 3, tasks and storage fail | the path implements `WriteBehind`; what is on disk after a drain; memory bounded until a task fails; every call returns |
| `read` | 0 to 8 elements, chunks of 2, cap 2, all failures | every element in its place, nothing beyond the end, bounded, the read ends |
| `table_log` | rank 1, chunks of 3, capacity 6, filters, both pipelines, records or strings, SWMR | the table implements `AppendLog`; its position is the extent; a flush shows SWMR readers everything |
| `table_wide` | rank 2, one row per chunk, pointers, containers and misfits | no chunk refused, growth by a chunk, stored records stay, the log again |
| `table_hands` | two tables, copy, move (also onto an open table), reset, destroy | a table that is flushed, closed or moved away holds nothing |
| `sequential` | lines, planes and solids cut by chunks that do not fit, every chain in which no filter comes twice, both encoders, HDF5 before 2.0 and since, builds with and without SSSE3, one failing chunk, two iterators | the path implements `ArrayStore`; padding is zero; a read delivers what the library would, in bounds; what is written is read back; iterators deliver |
| `handles` | 2 threads, 2 operations, one failing call, classic and hardened wrappers | callers under the lock exclude each other; an id that is held is open; references are given back; each list owns its pipeline, and only those whose insertion failed are left over; operations end |

Violated, each against a statement of the repository (the counterexample is
what the code does; `PROJECT.json` "findings" quotes the statement):

| run | statement | what happens |
|---|---|---|
| `read_throw` | a failed read is thrown as an exception | the future that threw stays in the deque, the destructor's `get()` throws again: `std::terminate` |
| `table_reset` | reset does not shrink the dataset | the next append sets the extent to one chunk |
| `table_buffer` | a pointer append bypasses the record buffer | the basic pipeline filters in that very buffer |
| `shuffle_vector` | the shuffle of doubles comes back, in builds for SIMD as well | the SSSE3 branch permutes each register with the same mask in both directions, which for 2 and 8 bytes is not its own inverse |

### Where a passing property carries a condition

The models also show behaviour that falls short of a comment or a document and
has no run of its own. In each case the condition of the property is what keeps
it out, and dropping the condition makes TLC produce the counterexample:

* `DestructorReturns`: a `submit` that threw leaves `in_flight_` raised, and
  the destructor spins for ever.
* `BoundedInFlight` (write path): after a task threw, its future stays at the
  front, every further write throws and still grows the deque beyond `cap_`.
* `FlushedOnDisk`: a chunk `H5Dwrite_chunk` refuses is popped and lost, and
  `drain()` returns; the property is about the chunks storage took.
* `ReadIsExact`: a chunk that cannot be fetched, one that was never written
  among them, is delivered as what an empty buffer decodes to, not as the fill
  value and not as an error.
* `GrowsByChunk`, `FailuresAreReported` (`table_wide` has one row per chunk): a
  container append moves by one row whatever the chunk, and the chunk after it
  goes to an offset off the grid, where it is refused in silence. Opening a
  table on an extent that is no multiple of the chunk has the same effect.
* `FailuresAreReported` (`table_wide` moves no table): a move leaves `dt` behind
  (`H5Dappend.hpp:69-76`). In the table moved to, `H5Tis_variable_str` of the invalid
  `dt` is negative, which line 380 takes for true, and the partial chunk goes to an
  `H5Dwrite` with an invalid type: it is never stored, and the flush reports
  nothing, where line 526 says that it throws. With "move" among the calls of two
  tables TLC finds it.
* `AppendOnly` (one table): a copy takes its position once; when table and copy
  both append, the one behind shrinks or overwrites what the other stored.
* `ImplementsAppendLog`: the destructor's flush at `max_dims` throws out of a
  `noexcept` destructor (`Crash` in `AppendLog`), and a block appended while
  records are buffered destroys them on a filtered dataset with the basic
  pipeline ("overlap" in `Calls`). A string append at `max_dims` throws before
  `n` is reset (`H5Dappend.hpp:265-277`): the pointer stays, the next calls put
  theirs behind the chunk and do not throw (`Strand` in `AppendLog`, `Overrun` in
  `TypeOK`, `Slack` bounds it). A string whose characters the caller has reused
  is stored as what is there when the chunk is written ("reuse" in `Calls`).
* `Packed` (`ImplementsStore`, `ReadAgrees`, `PaddingIsZero`): from rank 3 on, in a
  chunk cut short in a middle dimension, rows are packed one behind the other.
  That is not where HDF5 looks for them, against the comment of
  `H5Dwrite.hpp:140-143`; h5cpp itself reads them back (`RoundTrip` holds).
* `Wraps` and `WritesSound` (`PaddingIsZero`): a block narrower than a chunk whose width is no power
  of two makes `(N - B) % B` wrap, and bytes behind the row go to the file.
* `EndsOnChunk` (`ImplementsStore`): a block smaller than its dataset that ends
  inside a chunk sets the elements beyond it to zero. The padding is zero
  whatever the fill value of the dataset.
* `ShuffleSound` (in `WritesSound` and `ReadsSound`): in a build for SSSE3, a chunk
  that fills a register is not shuffled into planes, so that HDF5 finds other
  elements in it, and for 2 and 8 bytes h5cpp does as well (`shuffle_vector`). What
  is behind the registers is written over bytes of theirs (`H5Zall.hpp:258-262`).
* `NoChecksum` (`ImplementsStore`, `PaddingIsZero`, `ReadAgrees`, `IteratorDelivers`):
  fletcher32 appends its checksum with the most significant byte first
  (`H5Zall.hpp:333`, 354-357), HDF5 expects the least significant one and refuses the
  chunk, where `README.md:13` of the repository says that any HDF5-capable environment reads the
  files. What the four compare with is what HDF5 reads; `RoundTrip`, which compares
  with what was written, has no such condition.
* `ShuffleFirst` (in `ShuffleSound`): the shuffle copies whole elements
  and reports the length of all (`H5Zall.hpp:278-292`). Behind deflate or fletcher32 the
  length is no multiple of the element size, and the last bytes of the chunk are what
  the chunk before has left in the buffer (`ReadAgrees`, `IteratorDelivers`).
* A chain with two checksums: `filter_scratch_bound` has room for one, so that
  `DirectAssumption` leaves it out.
* `WritesSound`, `ReadsSound`: shuffle as the only filter runs in place and
  overwrites bytes it has yet to read, which `H5Zpipeline_basic.hpp:12-14` calls
  safe; `test/H5Zpipeline.cpp:217-221` knows of the bytes that come back wrong and
  puts it down to the read. Fletcher32 before deflate cannot be decoded, though
  `doxy/docs/reports/h5cpp-filters-inventory-and-use-guide.md:58` gives it as an
  example; with HDF5 before 2.0 the checksum is never verified.
* `ReadAgrees`, `IteratorDelivers`: a chunk that could not be fetched is delivered
  as what the buffer held before; nobody is told.
* `LeftBehind` (`IteratorDelivers`): `*it++` on the last element of a chunk reads
  the next chunk. A default-constructed iterator compares equal to `begin()`,
  not to the end as `H5Dranges.hpp:62` has it; it is not modelled further.
* `Exclusive` is about callers that hold the lock. `h5::open` and `h5::create` of
  datasets, writes and flushes through an open `ds_t`, `~tprop_t`, `dt_t<T>()` and
  `h5::copy` call the library without it, although `H5Iall.hpp:45-51` says that
  every call has to be exclusive. The model stops when two threads are inside.
* `NothingLeaks`: `strays` counts what is known to be left open, the creation list
  and the type `h5::open` looks at, the type `dt_t<T>()` counts twice (against
  `doxy/docs/curated/io-api/file.md:29-33`), in `h5::fill_value` and, for registered
  compounds, in `h5::read` and `h5::write` (`H5Tall.hpp:666`), and the merged list of
  `operator|` when `copy_impl` throws.
* `PipelinesOwned`: `dapl_pipeline_set` allocates before it inserts
  (`H5Pdapl.hpp:41-42`). When `H5Pinsert2` fails nobody deletes the pipeline;
  `orphans` has those, and the property says that no others are left over and no
  list has one of them.

### Bounds, and why they are enough

* `MaxRings` and `SeqMod` (pool): each submit rings once and the destructor
  once, so `AllRings` = tasks + 1 covers every run of the instance; `SeqMod`
  is above it. A wrap of the 32-bit number between a worker's look and its
  sleep would lose a wake-up; it takes 2^32 rings within that window and is
  excluded by the assumption `MaxRings < SeqMod` of the theorem.
* Two workers, two clients, two tasks: a lost wake-up needs one thread of each
  kind and a second one that could take the wake-up away. The safety results
  are proved for every number of them.
* `MaxWrites` above `Cap`: the back-pressure loop is entered, and a place is
  written again while its former chunk is in flight.
* `MaxElements` 8 in chunks of 2 with cap 2: four chunks, twice the cap; every
  remainder, the empty read included.
* `MaxRows` of 2 to 4 chunks: a full buffer, a partial one and the refusal at
  `max_dims`. `LastRow` bounds `current_dims`, which keeps growing with every
  refused call; it lies above `MaxRows`, except in `table_hands`, where the
  calls that matter are those that hand a buffer over.
* `Cap` 2 with the pool pipeline: one chunk may stay in flight between calls.
* `Slack` 2: two pointers behind the end of a buffer, one more than a single slip.
* `MaxRank` 3 of 7 (`H5CPP_MAX_RANK`): the loops beyond the second dimension are
  alike, and the third is the first that has a dimension in the middle. `Word`
  16 stands for 2^64: modulo 3, 5, 6 and 7 the two are the same, and the chunks
  of the cases are 1, 2 or 3 wide.
* The cases of `sequential` have chunks that fit, are cut in each dimension and
  are wider than the block. One fault (`MaxFaults`) per case: chunks are handled
  one by one, and what a failed one leaves in the buffers meets the next.
  The cases built for SSSE3 have chunks of 2 to 32 bytes: below, at and above
  one register, with and without elements behind it.
* `handles`: two calls are enough for one operation behind another, per thread
  or across threads, on ids that both know; ten ids, which are used again once
  nobody knows them; nesting to depth 2 is the deepest the code has (`MaxDepth`).
* No run uses symmetry or a state constraint.

### Fairness

Weak fairness only. `WorkerPool`: a `submit()` that began, a worker and a
destructor that began are threads with a step to take; the scheduler runs them.
Nobody is obliged to submit or to destroy, and spurious wake-ups are never
relied on. `PoolWrite` and `PoolRead`: the calling thread goes on (`Proceed`)
and the pool executes what it accepted, which is the liveness `WorkerPool`
is checked to implement. `Handles`: each thread goes on with an operation that
began, waiting for the mutex included; nobody is obliged to begin one. Weak
fairness is enough there, because a bounded program gives the mutex back for
good in the end. `PacketTable`, `DirectChunk` and `View` are sequential and have no
liveness. `handles` does not check for deadlock, since the threads stop when they
have made their calls; that nobody waits for ever is `OperationsEnd`.

## 4. Proofs

`WorkerPoolProofs` (`PoolAssumption`; any number of workers, clients, tasks):

* `TypeCorrect`, `IdleIsDone`: `in_flight_` is exactly the number of tasks that
  are counted, queued, running, ran or dropped. The invariant says so with
  `Cardinality(Outstanding)`; from it `in_flight_` never goes below zero, and
  zero means that nothing is outstanding. Each action adds or removes one task.
* `SingleHolder`: a task in the queue is there once and has status "queued", a
  running one has one worker, a counted one one client.
* `ExitIsDrained`: when the destructor has passed `wait_idle` nothing is
  outstanding and no client is in `submit`, so a worker that sees the stop flag
  leaves nothing behind.
* `WakeupIsNeverLost` (`MaxRings < SeqMod`): while a task is queued, some
  submit has its ring to complete or some worker will look again. The
  strengthening relates each worker's `last` to `rings`: a worker asleep or on
  its way there with a current number has seen the queue empty since the last
  ring.
* `PoolIsExecutor`: the safety part of the refinement, step by step.

`PoolWriteProofs` (`WriteAssumption`; any cap, any number of writes):

* `TypeCorrect`, `FlushIsDurable`: the deque holds the tasks `Stored + 1` to
  `Len(log)` in this order, and every place holds the last of the tasks up to
  `Stored` that storage took. Front-first removal keeps that, and with an empty
  deque it is the property; `FlushedOnDisk` alone is not inductive, because it
  says nothing while chunks are in flight.
* `MemoryIsBounded`: the bound with the place in the call where each value of
  the deque's length may occur.
* `PipelineKeepsPromise`: the refinement of `WriteBehind`, for storages that
  refuse chunks as well. `file[l]` is mapped to the latest chunk written at `l`
  and not refused, which exists and is unique (`HasLatest`, `LatestIs`); a
  refusal of the latest one makes it what the file holds (`RefusalMovesLatest`).

`PoolReadProofs` (`ReadAssumption`; any number of elements, chunk and cap):

* `TypeCorrect`, `ReadDelivers`, `MemoryIsBounded`, from one invariant (`IInv`): where
  the read stands, that the deque holds the tasks in the order of their chunks,
  that `read_dst_` runs beside it, the state of each task, and the elements that
  have been copied. That copies of whole chunks and of the trailing one meet
  without a gap or an overlap is arithmetic (`CopyCovers`).

`HandlesProofs` (`LockAssumption`, `HandlesAssumption`; any
number of threads, variables, ids, calls and faults):

* `LockExcludes`: whatever a program does with `capi_lock`, callers that hold it
  exclude each other. The invariant `LockInv` says that a thread's depth is the
  number of its locks, that the outermost one took the mutex, and that a thread
  with a lock holds the mutex.
* `HandlesUseLock`: `Handles` is such a program; `HandlesExclude` follows.
* `HandlesOwnPipelines`: no two lists share a pipeline, none outlives its list, and
  those without a list are the `orphans`, whose insertion failed (`LibraryInv`).
* `HandlesAccounted`, and from it `HandlesTypeCorrect`, `HandlesHeldAreOpen` and
  `HandlesLeakNothing` (`TypeOK`, `HeldIsOpen`, `NothingLeaks`). None of the three is
  inductive. Within an operation the wrappers and the counts disagree: a copy holds
  its id before `H5Iinc_ref`, a destructor closes before it forgets, a temporary has
  two references until one is handed over. The invariant says what each place stands
  for: its *weight* is the number of references it is to give back, -1 if it holds no
  id. Counts and weights always agree (`Balanced`), every thread knows the weights of
  its own places (its *account*, with the depth of its locks, and the one
  place that may hold the same id as another without a reference), and what it has still to
  do leads to an account in which each of its variables stands for one reference or
  none and its temporaries for none (`Sound`). The same holds for what an exception leads to,
  from each account in which a call may fail. An account that leads somewhere by
  steps is an `Outline`.
  - First, the programs: what a step does to the account of its thread (`Moves`), that
    outlines can be joined, and an outline for each operation of `Handles`, exceptions
    included: the copy constructor, both assignments, the conversions, the chaining of
    properties, `h5::open`, the gateways by path, the destructors.
  - Then, the system: a step that `Moves` describes keeps the counts balanced
    and the accounts of the other threads true. The others can only be disturbed
    through a shared variable, which stands for one reference whatever happens, or through
    an id that is closed; an id with a weight has a reference.

  `HandlesTypeCorrect` is more than a typing: it bounds the nesting of locks by
  `MaxDepth`, and says that a thread between operations has no lock and nothing in its temporaries.
  That `refs` never goes below zero is in it as well.
  TLC cannot evaluate the invariant, because of the quantifiers over all weights
  and all annotations of a program; what the run `handles` checks are the three properties
  it was made for, and `Exclusive` and `PipelinesOwned`.

The packet table (`TableAssumption`; any chunk, capacity, cap and set of tables):

* `PacketTableProofs`, `TypeCorrect`: each operation keeps the types; `TypeInv` adds
  that the buffers and queues are functions. For strings the bound on the buffer
  is the one with `Overrun`.
* `PacketTableProofs`, the positions: seen from the extent and the positions, each of the
  actions does one of four things (`Effect`): the dataset grows to where the table
  then stands, the table moves although the dataset cannot grow, both stay, or
  one table takes the place of another. From it, without reset and copy
  (`Steady`): `PositionStays` and `DatasetNeverShrinks`, and with the position moving
  by whole chunks `DatasetGrowsByChunk`. `NothingStaysBehind` holds for all calls
  and any number of tables.
* In the same module, `NoFailureIsHidden`. Nobody looks at the status of
  `H5Dwrite_chunk`, so that the result rests on every chunk having a place
  (`Placed`), which needs `Whole`: `Steady`, no move, the position moves by whole
  chunks, the dataset begins with whole chunks. The counterexamples of the runs
  and conditions above are what happens without each of these. `FlushIsSeen` is
  `FlushPublishes` for the only table of a dataset, whatever the calls.
* `PacketTableLog`, `TableIsALog`: the refinement of `AppendLog`, for the calls of
  `Whole` without "overlap" and "reuse". The log is read off `Image`, the file as it
  will be when the queue is stored. The invariant `InFile` says that the queued
  chunks have places of their own, which makes it irrelevant when each of them is
  stored (`PutInTwo`), and that the file has the fill value behind the extent, so
  that a hole is one (`LeaveHole`) and strings are padded. A call that commits puts
  one chunk behind the image (`CommittedGrows`); a call that throws finds the log
  full (`CapacityReached`).
* `PacketTableLog`, `FileIsAppendOnly`: `AppendOnly` for the calls of `Whole`, "overlap"
  and "reuse" included. That the log grows does not imply it, since the log is about the
  image and a reader sees the file. The invariant `Laid` adds to `InFile` that
  a place that waits for a queued chunk has nothing but the fill value; a step writes
  only to such places and to the one behind the extent (`Adds`). TLC has no
  counterexample to `Laid` on the instances of `table_wide` and `table_log`.

The sequential path (`WordAssumption`, `DirectAssumption`; any block, chunk and dataset
up to rank 3, any element size, any chain of the three filters with at most one
checksum, any compressor outcome, any number of faults and iterators):

* `FilterChainProofs`, the splits. The loops come to every chunk of the grid and to
  nothing else (`GridIsReached`, `ReachedIsGrid`); the rows of a chunk are runs of the
  block that do not meet (`RowIsReached`, `RowHits`); the remainder that a read
  computes is the height of a chunk in the fastest dimension, for a write it is
  unless `Wraps` (`ReadRow`, `WriteRow`). Hence `Gather` puts each byte of the block
  at its slot (`GatherFinds`) and zeros elsewhere (`GatherPads`), `Scatter` takes it
  from there and touches nothing else (`ScatterIs`), and the slot is the place HDF5
  looks at unless `Packed` (`SlotIsPlace`).
* In the same module, the filters. No filter outgrows the room that is left for it
  (`Fits`: the chunk, and four bytes more behind a checksum), so every buffer keeps
  its length (`EncodeKeeps`, `DecodeKeeps`). What a filter has made it also takes
  back (`UnapplyUndoes`), the permutation of the shuffle among them, provided that
  the length is a multiple of the element size and that there is no register in it
  (`Vectors`); the HDF5 library takes it back as well, but for a checksum. A *trail* (`Trail`) is the contents of
  a chunk before and behind each filter, with equal neighbours where the mask has a
  bit. Each of the three encoders leaves a trail from the chunk it was given to what
  is stored (`EncodeTracks`); `read_chunk_impl` goes back along any trail, from
  whichever buffer the parity selects (`DecodeBack`), and a read by the library along
  those without a checksum (`HdfDecodeBack`). For the in-place path with a shuffle, where the first contents are
  not the ones given, the trail begins at what the overwriting amounts to
  (`InPlaceTracks`): the chunk is spoilt, but it still decodes.
* `DirectChunkProofs`. The invariant has six parts: types (`Typed`, `Viewed`); every
  stored chunk has a trail (`FileSound`); a chunk the write has been at was made
  of what a `Gather` has filled, and without a checksum that is what HDF5 reads
  (`Written`); the elements of the chunks a read
  has been at are delivered (`ReadSoFar`); the buffer holds the chunk of every
  iterator that may be used (`ViewSound`). None of the properties is inductive:
  `RoundTrip` and `ReadAgrees` speak of finished reads only, and `IteratorDelivers`
  needs that nothing but a step into another chunk changes the buffer.
  From it: `ViewTypeCorrect`, `PaddingCorrect`, `ReadAgreesCorrect`, `RoundTripCorrect`,
  `IteratorCorrect`, and `WriteImplementsStore`, the refinement of `ArrayStore`: a
  round of `split_to_chunk_write` is a `StorePart`, the return a `StoreReturn`.
  All six hold for any element size with the shuffle of either build, under the
  conditions of their properties: `ShuffleSound` leaves out chunks with a register in
  them, and those that compare with what HDF5 reads (all but `ViewTypeCorrect` and
  `RoundTripCorrect`) leave out checksums (`NoChecksum`).
* What a recursive function computes for every input is an induction. The induction
  theorems of the library take an operator as a parameter, which the provers cannot
  instantiate; these proofs use that the natural numbers below a bound that satisfy a
  condition form a set with a least element outside (`LeastNatural`, `InductionUpTo`,
  from `NatLessThanWellFounded`).

Only model-checked:

* Liveness (`DestructorReturns`, `CallsReturn`, `ReadEnds`, `OperationsEnd`, the
  fairness half of `ImplementsExecutor`), which is outside what the prover does.
* That the inductive invariants of `HandlesProofs` and `DirectChunkProofs` hold of the
  small instances is not checked by TLC, which cannot enumerate what they quantify
  over; the properties that follow from them are.

Every safety property of a passing run is stated by a theorem.

## 5. Not modelled, and the plan

Done: the executor and the pool, both paths of the pool pipeline, the packet
table, the sequential path with its splits and filters, the view, the lock and
the handles with the pipeline property; the proofs of section 4.

What could follow:

1. `ChunkSplit` for ranks above 3; the lemmas of `FilterChainProofs` treat the dimensions
   one by one and would need a product over them.
2. The packet table with several tables on one dataset under `Whole`, for `AppendOnly`
   and the log, which are proved for the only table.

Left out for good:

* The compressors (libraries; deflate stands for those the chain calls), nbit and
  scaleoffset, which never reach this path.
* The hyperslab path of `h5::write` and `h5::read`, one call of the library; gather
  and scatter of strings, ragged and sparse data, attributes, groups, references,
  types, adapters and printing. They keep no state between calls, or are decided
  at compile time.
* `h5::refresh` and the check of the file system before SWMR: one call each. What
  a reader process sees between flushes is up to HDF5.
* The threads and back-pressure properties: read once, they are the constants
  `Pipelines` and `Cap`. The product in `resolve_dataset_backpressure` is zero only
  for 2^30 threads. The chunk arena: two allocations per pipeline.
* A list id that is shared because one named property object is converted twice;
  `release()`, which only borrows.
* An allocation that fails on the calling thread in `write_chunk_impl`
  (`H5Zpipeline_pool.hpp:168`, 174, 215); `pool` has the one in `submit`, and `read`
  those of the calling thread (`AllocMayFail`).
* The branch of `h5::write` that creates the dataset, a copy callback of
  `H5Pdapl.hpp` that throws inside the library, an `H5Pexist` that fails inside
  `h5::open`.
* The rank > 1 branch of the parallel read calls the sequential read, which
  `sequential` covers; a default-constructed pool pipeline has no pool and is never
  used by the library.
* `PoolRead` and `PoolWrite` treat the filters as a black box that returns or
  throws; what the box does is `FilterChain`.
