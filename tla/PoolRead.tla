------------------------------ MODULE PoolRead ------------------------------
(***************************************************************************)
(* The read path of pool_pipeline_t (src/h5cpp/H5Zpipeline_pool.hpp) for a *)
(* rank 1 dataset: the calling thread fetches the stored chunks one by one *)
(* with H5Dread_chunk, hands each to the worker pool to be decoded, and    *)
(* copies what comes back into the caller's memory, front future first.    *)
(* h5::read (src/h5cpp/H5Dread.hpp) makes a pipeline for one read() and    *)
(* destroys it, also when read() throws.  The pool is TaskExecutor.        *)
(*                                                                         *)
(* The elements of the dataset are numbered from 1, and the value of an    *)
(* element is its number: an element in the wrong place, of the wrong      *)
(* chunk, or missing can be told.  Chunk t is fetched by pass t of the     *)
(* loop and decoded by task t.                                             *)
(***************************************************************************)
EXTENDS Integers, Sequences

CONSTANTS
    MaxElements,     \* bound: the elements of one read, count * block
    ChunkSize,       \* B[0]
    Cap,             \* cap_: resolve_dataset_backpressure()
    TasksMayFail,    \* whether the closure may throw in the worker
    AllocMayFail,    \* whether make_unique or submit() may throw in read()
    FetchMayFail     \* whether H5Dread_chunk may return an error

ASSUME ReadAssumption ==
    /\ MaxElements \in Nat
    /\ ChunkSize \in Nat \ {0}
    /\ Cap \in Nat \ {0}
    /\ TasksMayFail \in BOOLEAN
    /\ AllocMayFail \in BOOLEAN
    /\ FetchMayFail \in BOOLEAN

ChunksOf(k) == (k + ChunkSize - 1) \div ChunkSize

Tasks == 1 .. ChunksOf(MaxElements)

\* The caller's memory as far as whole chunks would reach.
Slots == 1 .. (ChunksOf(MaxElements) * ChunkSize)

Untouched == 0               \* what the caller's memory holds before the read
Garbage == MaxElements + 1   \* what a buffer decodes to that no chunk was read into

VARIABLES
    n,          \* the elements the caller asks for
    j,          \* the loop variable: elements before it are submitted
    fetched,    \* the tasks whose compressed buffer holds their chunk
    result,     \* result[t]: the elements the future of t delivers
    failed,     \* the tasks whose future holds an exception
    phase, closed,   \* the executor
    inFlight,   \* read_in_flight_
    base,       \* read_dst_ is not null
    dst,        \* the caller's memory
    pc          \* where the calling thread is

poolVars == <<result, failed, phase, closed>>
vars == <<n, j, fetched, poolVars, inFlight, base, dst, pc>>

Pool == INSTANCE TaskExecutor

\* dst_offset and copy_size of the chunk at loop variable k, in elements.
First(t) == (t - 1) * ChunkSize

\* Fault: the trailing chunk is copied whole.
CopySizeWhole(t) == ChunkSize

CopySize(t) ==
    IF n % ChunkSize # 0 /\ First(t) = n - (n % ChunkSize)
    THEN n % ChunkSize
    ELSE ChunkSize

TypeOK ==
    /\ n \in 0 .. MaxElements
    /\ j \in 0 .. (ChunksOf(MaxElements) * ChunkSize)
    /\ fetched \in SUBSET Tasks
    /\ \A t \in Tasks : /\ result[t] \in Seq(1 .. Garbage)
                        /\ Len(result[t]) <= n - First(t) \/ result[t] = <<>>
    /\ failed \in SUBSET Tasks
    /\ Pool!ExecTypeOK
    /\ inFlight \in Seq(Tasks)
    /\ base \in BOOLEAN
    /\ dst \in [Slots -> 0 .. Garbage]
    /\ pc \in {"idle", "loop", "poll", "cap", "rest", "returned",
               "raised", "gone", "threw", "terminated"}

Init ==
    /\ n \in 0 .. MaxElements
    /\ j = 0
    /\ fetched = {}
    /\ result = [t \in Tasks |-> <<>>]
    /\ failed = {}
    /\ Pool!ExecInit
    /\ inFlight = <<>>
    /\ base = FALSE
    /\ dst = [i \in Slots |-> Untouched]
    /\ pc = "idle"

-----------------------------------------------------------------------------
(* The worker side. *)

Decoded(t) ==
    [i \in 1 .. CopySize(t) |-> IF t \in fetched THEN First(t) + i ELSE Garbage]

\* Fault: an exception in the closure leaves its promise unset.
DecodeTaskSwallows(t) ==
    /\ t \notin failed
    /\ \/ /\ Pool!Finish(t)
          /\ result' = [result EXCEPT ![t] = Decoded(t)]
          /\ UNCHANGED failed
       \/ /\ TasksMayFail
          /\ phase[t] = "accepted"
          /\ failed' = failed \cup {t}
          /\ UNCHANGED <<result, phase, closed>>
    /\ UNCHANGED <<n, j, fetched, inFlight, base, dst, pc>>

\* The filters run backwards over the buffer; one may throw, and then the
\* future holds the exception.  A buffer that was not filled decodes to garbage.
DecodeTask(t) ==
    /\ Pool!Finish(t)
    /\ \/ /\ result' = [result EXCEPT ![t] = Decoded(t)]
          /\ UNCHANGED failed
       \/ /\ TasksMayFail
          /\ failed' = failed \cup {t}
          /\ UNCHANGED result
    /\ UNCHANGED <<n, j, fetched, inFlight, base, dst, pc>>

-----------------------------------------------------------------------------
(* The calling thread. *)

Begin ==
    /\ pc = "idle"
    /\ base' = TRUE
    /\ pc' = "loop"
    /\ UNCHANGED <<n, j, fetched, poolVars, inFlight, dst>>

\* Fault: a trailing partial chunk is not asked for.
MoreWhole == j + ChunkSize <= n

More == j < n

\* One pass of the loop up to push_back.  Nobody looks at the status of
\* H5Dread_chunk.
Fetch ==
    LET t == (j \div ChunkSize) + 1 IN
    /\ pc = "loop"
    /\ More
    /\ \/ fetched' = fetched \cup {t}
       \/ FetchMayFail /\ UNCHANGED fetched
    /\ Pool!Accept(t)
    /\ inFlight' = Append(inFlight, t)
    /\ j' = j + ChunkSize
    /\ pc' = "poll"
    /\ UNCHANGED <<n, result, failed, base, dst>>

\* The buffer or the task cannot be allocated: read() unwinds.
FetchThrows ==
    /\ AllocMayFail
    /\ pc = "loop"
    /\ More
    /\ pc' = "raised"
    /\ UNCHANGED <<n, j, fetched, poolVars, inFlight, base, dst>>

FrontReady == inFlight # <<>> /\ phase[Head(inFlight)] = "done"

\* Fault: off by one.
CapExceeded == Len(inFlight) > Cap

CapReached == Len(inFlight) >= Cap

\* The loops that call get() on the front future.  "returned" and "raised":
\* the destructor, after read() returned or threw.
Draining ==
    \/ pc \in {"poll", "rest", "returned", "raised"}
    \/ pc = "cap" /\ CapReached

\* get() returns, the elements are copied to where they belong.
TakeFront ==
    /\ Draining
    /\ FrontReady /\ Head(inFlight) \notin failed
    /\ base
    /\ LET t == Head(inFlight) IN
       dst' = [i \in Slots |->
                 IF i - First(t) \in DOMAIN result[t] THEN result[t][i - First(t)] ELSE dst[i]]
    /\ inFlight' = Tail(inFlight)
    /\ UNCHANGED <<n, j, fetched, poolVars, base, pc>>

\* get() throws, now or because it has thrown before; the future stays.  In
\* read() the destructor runs next; out of the destructor the process ends.
FrontThrows ==
    /\ Draining
    /\ FrontReady /\ Head(inFlight) \in failed
    /\ base
    /\ pc' = IF pc \in {"returned", "raised"} THEN "terminated" ELSE "raised"
    /\ UNCHANGED <<n, j, fetched, poolVars, inFlight, base, dst>>

PollDone ==
    /\ pc = "poll"
    /\ ~FrontReady
    /\ pc' = "cap"
    /\ UNCHANGED <<n, j, fetched, poolVars, inFlight, base, dst>>

CapDone ==
    /\ pc = "cap"
    /\ ~CapReached
    /\ pc' = "loop"
    /\ UNCHANGED <<n, j, fetched, poolVars, inFlight, base, dst>>

LoopDone ==
    /\ pc = "loop"
    /\ ~More
    /\ pc' = "rest"
    /\ UNCHANGED <<n, j, fetched, poolVars, inFlight, base, dst>>

\* read() returns.
ReadReturns ==
    /\ pc = "rest"
    /\ inFlight = <<>>
    /\ base' = FALSE
    /\ pc' = "returned"
    /\ UNCHANGED <<n, j, fetched, poolVars, inFlight, dst>>

\* The destructor is through; h5::read returns, or throws on.
Destroyed ==
    /\ pc \in {"returned", "raised"}
    /\ inFlight = <<>>
    /\ pc' = IF pc = "returned" THEN "gone" ELSE "threw"
    /\ UNCHANGED <<n, j, fetched, poolVars, inFlight, base, dst>>

\* The global pool outlives the pipeline.
PoolCloses ==
    /\ pc \in {"gone", "threw"}
    /\ Pool!Close
    /\ UNCHANGED <<n, j, fetched, result, failed, inFlight, base, dst, pc>>

Ended == pc \in {"gone", "threw", "terminated"} /\ UNCHANGED vars

-----------------------------------------------------------------------------

Proceed ==
    \/ Begin \/ Fetch \/ FetchThrows \/ TakeFront \/ FrontThrows
    \/ PollDone \/ CapDone \/ LoopDone \/ ReadReturns \/ Destroyed

Next == Proceed \/ PoolCloses \/ Ended \/ \E t \in Tasks : DecodeTask(t)

\* The calling thread goes on, and the pool executes what it accepted, which
\* is the liveness WorkerPool implements.
Spec ==
    /\ Init /\ [][Next]_vars
    /\ WF_vars(Proceed)
    /\ \A t \in Tasks : WF_vars(DecodeTask(t))

-----------------------------------------------------------------------------
(* Properties. *)

\* The caller's memory: at any time an element is untouched or in its place,
\* nothing behind the n elements is written, and when h5::read has returned
\* all n are there, apart from the chunks H5Dread_chunk could not fetch.
ReadIsExact ==
    \A i \in Slots :
        LET t == ((i - 1) \div ChunkSize) + 1 IN
        /\ i > n => dst[i] = Untouched
        /\ dst[i] \in {Untouched, IF t \in fetched THEN i ELSE Garbage}
        /\ pc \in {"returned", "gone"} /\ i <= n => dst[i] # Untouched

\* The chunks held for a read never exceed cap_, and a chunk is held only as
\* long as drain_in_flight_read has somewhere to copy it ("no destination
\* available (shouldn't happen outside read())", H5Zpipeline_pool.hpp:235):
\* otherwise the destructor would spin on it for ever.
BoundedInFlight ==
    /\ Len(inFlight) <= Cap
    /\ inFlight # <<>> => base

\* h5::read comes back, by returning, by throwing, or by ending the process.
ReadEnds == <>(pc \in {"gone", "threw", "terminated"})

\* A failed read is thrown to the caller as h5::error::io::dataset::read
\* (H5Dread.hpp:38), it does not end the process.
FailureIsThrown == pc # "terminated"

=============================================================================
