---------------------------- MODULE DirectChunk ----------------------------
(***************************************************************************)
(* h5::write and h5::read of a chunked dataset on their direct-chunk path: *)
(* a pipeline is made, split_to_chunk_write cuts the block, every chunk    *)
(* passes the filter chain and goes to H5Dwrite_chunk; later a second      *)
(* pipeline fetches the chunks with H5Dread_chunk, reverses the chain and  *)
(* copies the rows back.                                                   *)
(*                                                                         *)
(* The paths are sequential; what is hard is the arithmetic of the splits, *)
(* the two buffers that every chunk passes through and that keep what the  *)
(* chunk before has left, and the calls whose status nobody looks at.      *)
(* A writer that uses the pool (kind = "pool") stores the same chunks in   *)
(* the same order, which is what PoolWrite shows; only its encoder         *)
(* differs.                                                                *)
(***************************************************************************)
EXTENDS FilterChain

CONSTANTS
    Cases,       \* the datasets, pipelines and blocks: see Case
    MaxFaults    \* bound: how many chunks cannot be stored or fetched

ASSUME DirectAssumption ==
    /\ MaxFaults \in Nat
    /\ \A c \in Cases :
          /\ c.rank \in 1 .. MaxRank /\ c.size \in Nat /\ c.size > 0
          /\ {c.b, c.n, c.extent, c.read} \subseteq Nat \X Nat \X Nat
          /\ \A d \in 1 .. MaxRank :
                /\ c.b[d] > 0 /\ c.b[d] < Word /\ c.extent[d] < Word
                /\ c.n[d] <= c.extent[d] /\ c.read[d] <= c.extent[d]
                /\ d > c.rank => c.b[d] = 1 /\ c.n[d] = 1 /\ c.extent[d] = 1 /\ c.read[d] = 1
          /\ c.chain \in Seq(Filters)
          /\ \A i, k \in Positions(c, "fletcher32") : i = k   \* there is room for one checksum
          /\ c.kind \in {"basic", "pool"} /\ c.hdf5 \in {1, 2}
          /\ c.ssse3 \in BOOLEAN /\ c.old \in BOOLEAN
          /\ c.old => c.chain = <<>>

VARIABLES
    case,      \* rank, b: the chunks of the dataset; extent: its size; n, read:
               \* the blocks that are written and read; size, chain, hdf5, ssse3,
               \* kind: the pipeline; old: the dataset has been written before
    pc,        \* write, read: in the call; written, done: it has returned;
               \* view: the dataset is iterated over instead (module View)
    next,      \* the chunk the loops have come to
    file,      \* file[j]: the stored chunk at corner j
    chunk0, chunk1,
    memory,    \* the caller's memory in a read
    lost,      \* the chunks that were not stored
    missed     \* the chunks that were not fetched

vars == <<case, pc, next, file, chunk0, chunk1, memory, lost, missed>>

Pipe == [chain |-> case.chain, size |-> case.size, hdf5 |-> case.hdf5, ssse3 |-> case.ssse3,
         block |-> Volume(case.b) * case.size]
SplitOf(n) == [rank |-> case.rank, n |-> n, b |-> case.b, size |-> case.size]
WriteSplit == SplitOf(case.n)
ReadSplit == SplitOf(case.read)

\* The chunks the dataset consists of.
Corners == LET s == SplitOf(case.extent) IN {Corner(s, k) : k \in 0 .. ChunkCount(s) - 1}

Exists(j) == file[j] # Absent(Pipe)

Full(byte) == [k \in 1 .. ScratchBound(Pipe.block) |-> byte]
Scratch == Full(Junk)

TypeOK ==
    /\ case \in Cases
    /\ pc \in {"write", "written", "read", "done", "view"}
    /\ next \in Nat /\ DOMAIN file = Corners /\ lost \subseteq Corners /\ missed \subseteq Corners
    /\ \A j \in Corners : Len(file[j].bytes) <= ScratchBound(Pipe.block)
    /\ Len(chunk0) = ScratchBound(Pipe.block) /\ Len(chunk1) = ScratchBound(Pipe.block)

-----------------------------------------------------------------------------
(* What is in the file. *)

ElementIn(s, bytes, x) == Element(s, bytes, PlaceOf(s, x))

Array ==
    LET s == SplitOf(case.extent) IN
    [x \in Box(case.extent) |-> ElementIn(s, file[CornerOf(s, x)].plain, x)]

\* The bytes of the caller's memory from the place of element x on.
ElementAt(bytes(_), n, x) ==
    [k \in 1 .. case.size |-> bytes(Linear(x, n) * case.size + k)]

New == [x \in Box(case.n) |-> ElementAt(Byte, case.n, x)]

Delivered(x) == ElementAt(LAMBDA k : memory[k], case.read, x)

-----------------------------------------------------------------------------
Init ==
    /\ case \in Cases
    /\ pc = "write" /\ next = 0
    /\ file = [j \in Corners |->
                  IF case.old THEN Stored(Pipe, [src |-> Full(Older), len |-> Pipe.block, mask |-> {}])
                  ELSE Absent(Pipe)]
    /\ chunk0 = Scratch /\ chunk1 = Scratch
    /\ memory = <<>>
    /\ lost = {} /\ missed = {}

MayFail == Cardinality(lost) + Cardinality(missed) < MaxFaults

\* One round of the loops of split_to_chunk_write.
WriteChunk ==
    /\ pc = "write" /\ next < ChunkCount(WriteSplit)
    /\ \E shrinks \in IF Positions(Pipe, "deflate") = {} THEN {FALSE} ELSE BOOLEAN :
       LET j == Corner(WriteSplit, next)
           filled == Gather(WriteSplit, j, chunk0)
           e == IF case.kind = "pool" THEN EncodeInPool(Pipe, filled, shrinks)
                ELSE Encode(Pipe, filled, chunk1, shrinks)
           inChunk0 == EndsInChunk0(Pipe, e) IN
       /\ \/ file' = [file EXCEPT ![j] = Stored(Pipe, e)] /\ UNCHANGED lost
          \/ MayFail /\ lost' = lost \cup {j} /\ UNCHANGED file
       /\ chunk0' = IF case.kind = "pool" THEN filled ELSE IF inChunk0 THEN e.src ELSE e.dst
       /\ chunk1' = IF case.kind = "pool" THEN chunk1 ELSE IF inChunk0 THEN e.dst ELSE e.src
    /\ next' = next + 1
    /\ UNCHANGED <<case, pc, memory, missed>>

\* h5::write returns, and its pipeline is gone.
WriteReturns ==
    /\ pc = "write" /\ next = ChunkCount(WriteSplit)
    /\ pc' = "written" /\ next' = 0
    /\ chunk0' = Scratch /\ chunk1' = Scratch
    /\ UNCHANGED <<case, file, memory, lost, missed>>

\* h5::read with a pipeline of its own.
ReadBegins ==
    /\ pc = "written"
    /\ pc' = "read"
    /\ memory' = Target(ReadSplit)
    /\ UNCHANGED <<case, next, file, chunk0, chunk1, lost, missed>>

\* read_chunk_impl: H5Dread_chunk into the buffer the parity selects.  HDF5 2
\* gives the length on disk, before that it is taken to be the chunk's.
Fetch(j) ==
    LET bytes == file[j].bytes
        odd == Len(case.chain) % 2 = 1 IN
    Decode(Pipe, IF odd THEN chunk0 ELSE Put(chunk0, bytes),
           IF odd THEN Put(chunk1, bytes) ELSE chunk1,
           IF case.hdf5 >= 2 THEN Len(bytes) ELSE Pipe.block, file[j].mask)

\* The call fails, for a chunk that was never stored among others: the chain
\* runs on what the buffer holds, with a mask nobody has set.
FetchFails(mask) ==
    Decode(Pipe, chunk0, chunk1,
           IF case.hdf5 >= 2 /\ case.chain # <<>> THEN ScratchBound(Pipe.block) ELSE Pipe.block, mask)

\* One round of the loops of split_to_chunk_read.
ReadChunk ==
    /\ pc = "read" /\ next < ChunkCount(ReadSplit)
    /\ LET j == Corner(ReadSplit, next)
           Take(d) ==
              /\ chunk0' = d.src /\ chunk1' = d.dst
              /\ memory' = Scatter(ReadSplit, j, d.src, memory) IN
       \/ Exists(j) /\ Take(Fetch(j)) /\ UNCHANGED missed
       \/ /\ ~Exists(j) \/ MayFail
          /\ \E mask \in SUBSET DOMAIN case.chain : Take(FetchFails(mask))
          /\ missed' = missed \cup {j}
    /\ next' = next + 1
    /\ UNCHANGED <<case, pc, file, lost>>

ReadReturns ==
    /\ pc = "read" /\ next = ChunkCount(ReadSplit)
    /\ pc' = "done"
    /\ UNCHANGED <<case, next, file, chunk0, chunk1, memory, lost, missed>>

\* Both calls have returned.
Ended == pc = "done" /\ UNCHANGED vars

Next == WriteChunk \/ WriteReturns \/ ReadBegins \/ ReadChunk \/ ReadReturns \/ Ended

Spec == Init /\ [][Next]_vars

-----------------------------------------------------------------------------
(* Properties. *)

ChainSound == WritesSound(Pipe, case.kind) /\ ReadsSound(Pipe)

\* The HDF5 library can read what the chain makes.
HdfReads == WritesSound(Pipe, case.kind) /\ NoChecksum(Pipe)

\* The block ends where the dataset ends, or where a chunk does.
EndsOnChunk == \A d \in 1 .. MaxRank : case.n[d] = case.extent[d] \/ case.n[d] % case.b[d] = 0

Store == INSTANCE ArrayStore WITH
    array <- Array, new <- New, returned <- pc # "write",
    refused <- {x \in Box(case.n) : CornerOf(WriteSplit, x) \in lost},
    promised <- EndsOnChunk /\ ~Packed(WriteSplit) /\ HdfReads

\* A write stores the elements of its block where the HDF5 library looks for
\* them and leaves the others as they are ("so the chunk decomposition is
\* correct", H5Dwrite.hpp:141), unless the chain ends in what that library
\* refuses or has no planes.
ImplementsStore == Store!StoreSpec

\* What the HDF5 library finds in a chunk beyond the block is zero, the value
\* the elements will have when the dataset is extended, and never what lies
\* behind a row.
PaddingIsZero ==
    ~Wraps(WriteSplit) /\ ~Packed(WriteSplit) /\ HdfReads =>
        \A k \in 0 .. ChunkCount(WriteSplit) - 1 :
            LET j == Corner(WriteSplit, k) IN
            pc # "write" /\ j \notin lost =>
                \A y \in Box(case.b) :
                    (\E d \in 1 .. MaxRank : j[d] + y[d] >= case.n[d]) =>
                        ElementIn(WriteSplit, file[j].plain, y) = [i \in 1 .. case.size |-> Zero]

\* A read delivers each element of a chunk it could fetch as the HDF5 library
\* would, in its place, and writes nothing behind the caller's memory.
ReadAgrees ==
    pc = "done" /\ ReadsSound(Pipe) =>
        /\ ~Packed(ReadSplit) /\ NoChecksum(Pipe) =>
              \A x \in Box(case.read) : CornerOf(ReadSplit, x) \notin missed => Delivered(x) = Array[x]
        /\ \A k \in DOMAIN memory : k > Volume(case.read) * case.size => memory[k] = Untouched

\* What is written is read back, for every shape, a checksum behind it or not.
RoundTrip ==
    pc = "done" /\ ChainSound /\ case.read = case.n =>
        \A x \in Box(case.n) : CornerOf(ReadSplit, x) \notin lost \cup missed => Delivered(x) = New[x]

-----------------------------------------------------------------------------
(* A claim of the repository that does not hold. *)

\* The elements come back from the shuffle whatever the processor (TEST_CASE
\* "shuffle: round-trip for 8-byte (double) elements", test/H5Zshuffle.cpp).
EveryShuffleReadBack ==
    pc = "done" /\ ShuffleFirst(Pipe) /\ case.read = case.n =>
        \A x \in Box(case.n) : CornerOf(ReadSplit, x) \notin lost \cup missed => Delivered(x) = New[x]

=============================================================================
