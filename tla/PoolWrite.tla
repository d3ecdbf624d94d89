----------------------------- MODULE PoolWrite -----------------------------
(***************************************************************************)
(* The write path of pool_pipeline_t (src/h5cpp/H5Zpipeline_pool.hpp): the *)
(* calling thread hands each chunk to the worker pool, keeps the futures   *)
(* in a deque in submission order, and itself passes the finished chunks   *)
(* to H5Dwrite_chunk, front first.  The pool is the abstract TaskExecutor, *)
(* which WorkerPool implements.                                            *)
(*                                                                         *)
(* The t-th call of write_chunk_impl makes task t.  The data of a chunk is *)
(* the number of the call that wrote it, so that a version that is stale   *)
(* or overwritten too early can be told from the right one; the filters    *)
(* are what turns it into a stored chunk and are not looked into here.     *)
(* An action is one pass through a loop of the calling thread, which no    *)
(* other thread can observe half-way, or the end of one task in the pool.  *)
(***************************************************************************)
EXTENDS Naturals, Sequences

CONSTANTS
    Locs,            \* the chunk offsets of the dataset
    MaxWrites,       \* bound: the calls of write_chunk_impl
    Cap,             \* cap_: resolve_dataset_backpressure()
    TasksMayFail,    \* whether the closure may throw in the worker
    StorageMayFail   \* whether H5Dwrite_chunk may return an error

ASSUME WriteAssumption ==
    /\ MaxWrites \in Nat
    /\ Cap \in Nat \ {0}
    /\ TasksMayFail \in BOOLEAN
    /\ StorageMayFail \in BOOLEAN

Tasks == 1 .. MaxWrites

VARIABLES
    log,        \* the offsets of the chunks written, in the order of the calls
    src,        \* what the caller's chunk buffer holds
    raw,        \* raw[t]: the copy of it that task t owns
    result,     \* result[t]: the data of the result_t behind the future of t
    failed,     \* the tasks whose future holds an exception
    phase, closed,   \* the executor
    inFlight,   \* in_flight_
    disk,       \* disk[l]: the data stored at l
    refused,    \* the tasks whose chunk H5Dwrite_chunk did not store
    raised,     \* an exception has left the pipeline
    pc          \* where the calling thread is

callVars == <<log, src, raw>>
poolVars == <<result, failed, phase, closed>>
fileVars == <<disk, refused>>
vars == <<callVars, poolVars, fileVars, inFlight, raised, pc>>

Pool == INSTANCE TaskExecutor

\* The calling thread is outside the pipeline; "flushed" just after drain().
Ready == pc \in {"idle", "flushed"}

TypeOK ==
    /\ log \in Seq(Locs) /\ Len(log) <= MaxWrites
    /\ src \in 0 .. MaxWrites
    /\ raw \in [Tasks -> 0 .. MaxWrites]
    /\ result \in [Tasks -> 0 .. MaxWrites]
    /\ failed \in SUBSET Tasks
    /\ Pool!ExecTypeOK
    /\ inFlight \in Seq(Tasks)
    /\ disk \in [Locs -> 0 .. MaxWrites]
    /\ refused \in SUBSET Tasks
    /\ raised \in BOOLEAN
    /\ pc \in {"idle", "poll", "cap", "drain", "flushed", "dtor", "gone", "terminated"}

Init ==
    /\ log = <<>>
    /\ src = 0
    /\ raw = [t \in Tasks |-> 0]
    /\ result = [t \in Tasks |-> 0]
    /\ failed = {}
    /\ Pool!ExecInit
    /\ inFlight = <<>>
    /\ disk = [l \in Locs |-> 0]
    /\ refused = {}
    /\ raised = FALSE
    /\ pc = "idle"

-----------------------------------------------------------------------------
(* The worker side: the closure of one task. *)

\* Fault: the closure reads the caller's buffer instead of its copy.
InputByReference(t) == src

Input(t) == raw[t]

\* Fault: an exception in the closure leaves its promise unset.
ChunkTaskSwallows(t) ==
    /\ t \notin failed
    /\ \/ /\ Pool!Finish(t)
          /\ result' = [result EXCEPT ![t] = Input(t)]
          /\ UNCHANGED failed
       \/ /\ TasksMayFail
          /\ phase[t] = "accepted"
          /\ failed' = failed \cup {t}
          /\ UNCHANGED <<result, phase, closed>>
    /\ UNCHANGED <<callVars, fileVars, inFlight, raised, pc>>

\* The filters run over the copy; a filter or an allocation may throw, and
\* then the future holds the exception.
ChunkTask(t) ==
    /\ Pool!Finish(t)
    /\ \/ /\ result' = [result EXCEPT ![t] = Input(t)]
          /\ UNCHANGED failed
       \/ /\ TasksMayFail
          /\ failed' = failed \cup {t}
          /\ UNCHANGED result
    /\ UNCHANGED <<callVars, fileVars, inFlight, raised, pc>>

-----------------------------------------------------------------------------
(* The calling thread. *)

\* Fault: the copy of the chunk is allocated and never filled.
CopyUnfilled(data) == MaxWrites + 1

\* The copy of the caller's chunk that a task owns.
CopyOf(data) == data

\* write_chunk_impl up to in_flight_.push_back: the caller's buffer holds a
\* new chunk, the task gets a copy of it, the future joins the deque.  That the
\* calling thread runs out of memory on the way (make_unique, submit,
\* push_back) is left out; submit() then is SubmitThrows of WorkerPool.
WriteChunk(l) ==
    LET t == Len(log) + 1 IN
    /\ Ready
    /\ t <= MaxWrites
    /\ log' = Append(log, l)
    /\ src' = t
    /\ raw' = [raw EXCEPT ![t] = CopyOf(src')]
    /\ Pool!Accept(t)
    /\ inFlight' = Append(inFlight, t)
    /\ pc' = "poll"
    /\ UNCHANGED <<result, failed, fileVars, raised>>

\* wait_for(0s) on the front future, or get() that need not block.
FrontReady == inFlight # <<>> /\ phase[Head(inFlight)] = "done"

\* Fault: off by one.
CapExceeded == Len(inFlight) > Cap

CapReached == Len(inFlight) >= Cap

\* The loops that call get() on the front future: the opportunistic drain,
\* the back-pressure, drain(), and the destructor.
Draining ==
    \/ pc \in {"poll", "drain", "dtor"}
    \/ pc = "cap" /\ CapReached

\* H5Dwrite_chunk, whose status nobody looks at.
StoreChunk(t) ==
    \/ /\ disk' = [disk EXCEPT ![log[t]] = result[t]]
       /\ UNCHANGED refused
    \/ /\ StorageMayFail
       /\ refused' = refused \cup {t}
       /\ UNCHANGED disk

\* Fault: any future that is ready is taken, not just the front one.
TakeReady ==
    /\ Draining
    /\ \E i \in DOMAIN inFlight :
          /\ phase[inFlight[i]] = "done"
          /\ inFlight[i] \notin failed
          /\ StoreChunk(inFlight[i])
          /\ inFlight' = SubSeq(inFlight, 1, i - 1) \o SubSeq(inFlight, i + 1, Len(inFlight))
    /\ UNCHANGED <<callVars, poolVars, raised, pc>>

\* get() returns, the chunk is stored and the future popped.
TakeFront ==
    /\ Draining
    /\ FrontReady
    /\ Head(inFlight) \notin failed
    /\ StoreChunk(Head(inFlight))
    /\ inFlight' = Tail(inFlight)
    /\ UNCHANGED <<callVars, poolVars, raised, pc>>

\* get() throws the task's exception, or throws because an earlier get() has
\* released the state.  pop_front is skipped, the future stays.  The
\* exception goes to the caller; out of a destructor it ends the process.
FrontThrows ==
    /\ Draining
    /\ FrontReady
    /\ Head(inFlight) \in failed
    /\ raised' = TRUE
    /\ pc' = IF pc = "dtor" THEN "terminated" ELSE "idle"
    /\ UNCHANGED <<callVars, poolVars, fileVars, inFlight>>

\* The opportunistic drain stops at a front future that is not ready.
PollDone ==
    /\ pc = "poll"
    /\ ~FrontReady
    /\ pc' = "cap"
    /\ UNCHANGED <<callVars, poolVars, fileVars, inFlight, raised>>

\* write_chunk_impl returns.
WriteReturns ==
    /\ pc = "cap"
    /\ ~CapReached
    /\ pc' = "idle"
    /\ UNCHANGED <<callVars, poolVars, fileVars, inFlight, raised>>

\* drain(), called by pt_t::flush, and the destructor.
Drain ==
    /\ Ready
    /\ pc' = "drain"
    /\ UNCHANGED <<callVars, poolVars, fileVars, inFlight, raised>>

Destroy ==
    /\ Ready
    /\ pc' = "dtor"
    /\ UNCHANGED <<callVars, poolVars, fileVars, inFlight, raised>>

DrainDone ==
    /\ pc \in {"drain", "dtor"}
    /\ inFlight = <<>>
    /\ pc' = IF pc = "drain" THEN "flushed" ELSE "gone"
    /\ UNCHANGED <<callVars, poolVars, fileVars, inFlight, raised>>

\* The global pool outlives the pipeline.
PoolCloses ==
    /\ pc = "gone"
    /\ Pool!Close
    /\ UNCHANGED <<callVars, result, failed, fileVars, inFlight, raised, pc>>

Ended == pc \in {"gone", "terminated"} /\ UNCHANGED vars

-----------------------------------------------------------------------------

Proceed == TakeFront \/ FrontThrows \/ PollDone \/ WriteReturns \/ DrainDone

Next ==
    \/ \E l \in Locs : WriteChunk(l)
    \/ \E t \in Tasks : ChunkTask(t)
    \/ Proceed \/ Drain \/ Destroy \/ PoolCloses \/ Ended

SafeSpec == Init /\ [][Next]_vars

\* A call that began goes on, and the pool executes what it accepted, which
\* is the liveness WorkerPool implements.
Spec ==
    /\ SafeSpec
    /\ WF_vars(Proceed)
    /\ \A t \in Tasks : WF_vars(ChunkTask(t))

-----------------------------------------------------------------------------
(* Properties. *)

\* The tasks for offset l whose chunk storage has not refused, and the last.
WrittenTo(l) == {t \in DOMAIN log : log[t] = l /\ t \notin refused}
IsLatest(l, v) ==
    \/ v \in WrittenTo(l) /\ \A t \in WrittenTo(l) : t <= v
    \/ v = 0 /\ WrittenTo(l) = {}

\* "data on disk after flush returns" (H5Zpipeline_pool.hpp:63-65): when
\* drain() or the destructor has returned, each offset holds the data of the
\* last chunk written to it that storage took, although the tasks finish in
\* any order and the caller reuses its buffer at once.
FlushedOnDisk ==
    pc \in {"flushed", "gone"} => \A l \in Locs : IsLatest(l, disk[l])

\* Producer memory is at most cap x chunk_size (H5Zpipeline_pool.hpp:220-221):
\* never more than Cap chunks are held, fewer when a call has returned, as
\* long as no task has failed.
BoundedInFlight ==
    ~raised => Len(inFlight) <= Cap /\ (Ready => Len(inFlight) < Cap)

\* Every call comes back: the caller waits only for futures that the pool
\* makes ready, with a value or with an exception.
CallsReturn ==
    /\ pc \in {"poll", "cap", "drain"} ~> Ready
    /\ pc = "dtor" ~> pc \in {"gone", "terminated"}

\* The chunk last written at l, stored already or not, and not refused.
Latest(l) == CHOOSE v \in 0 .. MaxWrites : IsLatest(l, v)

CallerState ==
    IF pc = "flushed" THEN "synced"
    ELSE IF pc = "gone" THEN "closed"
    ELSE IF pc = "terminated" THEN "crashed"
    ELSE "open"

Promise == INSTANCE WriteBehind WITH
    count <- Len(log),
    file <- [l \in Locs |-> Latest(l)],
    state <- CallerState

\* The parallel pipeline keeps the promise of a write path: consumers "never
\* see the pool dispatch" (H5Zpipeline_pool.hpp:13-16).
ImplementsWriteBehind == Promise!WBSpec

=============================================================================
