---------------------------- MODULE FilterChain ----------------------------
(***************************************************************************)
(* The filter chain of a pipeline: write_chunk_impl and read_chunk_impl of *)
(* basic_pipeline_t (H5Zpipeline_basic.hpp), the closure pool_pipeline_t   *)
(* hands to a worker (H5Zpipeline_pool.hpp), and the filters behind them   *)
(* (H5Zall.hpp).                                                           *)
(*                                                                         *)
(* A pipeline p has p.chain (the filters in the order of the dataset's     *)
(* creation property list), p.size (element_size), p.block (block_size),   *)
(* p.hdf5 (the major version it is built against) and p.ssse3 (whether it  *)
(* is compiled for SSSE3).  Buffers are sequences of bytes of the length   *)
(* of the allocation; what a filter does not overwrite stays.              *)
(***************************************************************************)
EXTENDS ChunkSplit, FiniteSets

Filters == {"shuffle", "deflate", "fletcher32"}

\* Fault: no room for what fletcher32 appends.
ScratchWithoutChecksum(n) == n

\* filter_scratch_bound: deflate never expands here, fletcher32 by 4 bytes.
ScratchBound(n) == n + 4

Prefix(buffer, n) == SubSeq(buffer, 1, n)

\* What a filter returns: the buffer behind dst, and the length (0: skipped
\* or failed).
Result(dst, bytes) == [buf |-> Put(dst, bytes), len |-> Len(bytes)]
Refused(dst) == [buf |-> dst, len |-> 0]

-----------------------------------------------------------------------------
(* The filters. *)

\* In planes: byte k of the shuffled data comes from here, and goes back there.
Plane(p, n, k) == ((k - 1) % (n \div p.size)) * p.size + ((k - 1) \div (n \div p.size)) + 1
Unplane(p, n, k) == ((k - 1) % p.size) * (n \div p.size) + ((k - 1) \div p.size) + 1

Whole(p, n) == (n \div p.size) * p.size

\* shuffle_ssse3: elements of 2, 4 and 8 bytes are taken 16 bytes at a time,
\* and these are permuted within themselves, the same way in both directions.
Vectors(p, n) ==
    IF p.ssse3 /\ p.size \in {2, 4, 8} THEN (n \div p.size) \div (16 \div p.size) ELSE 0

InVector(p, n, k) == k <= Vectors(p, n) * 16
Permuted(p, k) == ((k - 1) \div 16) * 16 + Plane(p, 16, ((k - 1) % 16) + 1)

\* The elements behind the vectors go to the planes of the whole: what they
\* overwrite there has come from a vector, and other bytes are never written.
InTail(p, n, k) == (k - 1) % (n \div p.size) >= Vectors(p, n) * (16 \div p.size)

ShuffledByte(p, dst, src, n, k) ==
    IF InTail(p, n, k) THEN src[Plane(p, n, k)]
    ELSE IF InVector(p, n, k) THEN src[Permuted(p, k)] ELSE dst[k]

\* The bytes of an incomplete element are not copied: the length counts them.
Shuffle(p, dst, src, n) ==
    [buf |-> Put(dst, [k \in 1 .. Whole(p, n) |-> ShuffledByte(p, dst, src, n, k)]), len |-> n]

UnshuffledByte(p, src, n, k) ==
    IF InVector(p, n, k) THEN src[Permuted(p, k)] ELSE src[Unplane(p, n, k)]

Unshuffle(p, dst, src, n) ==
    [buf |-> Put(dst, [k \in 1 .. Whole(p, n) |-> UnshuffledByte(p, src, n, k)]), len |-> n]

\* shuffle with dst = src: the loops read what they have overwritten.
Overwritten(p, buffer, n) ==
    LET done[k \in 1 .. Whole(p, n)] ==
            IF InTail(p, n, k) /\ Plane(p, n, k) < k /\ InTail(p, n, Plane(p, n, k))
            THEN done[Plane(p, n, k)]
            ELSE ShuffledByte(p, buffer, buffer, n, k) IN
    done

ShuffleInPlace(p, buffer, n) ==
    [buf |-> Put(buffer, [k \in 1 .. Whole(p, n) |-> Overwritten(p, buffer, n)[k]]), len |-> n]

\* The stream of n bytes, for a compressor that halves.
Squeezed(n) == (n + 1) \div 2
StreamByte(i, n, data) == <<i, n, data, 0>>
Stream(data) == [i \in 1 .. Squeezed(Len(data)) |-> StreamByte(i, Len(data), data)]

\* deflate: 0, to skip the filter, where compression does not pay.
Deflate(p, dst, src, n, shrinks) ==
    IF shrinks /\ Squeezed(n) < n THEN Result(dst, Stream(Prefix(src, n))) ELSE Refused(dst)

\* Is there a complete stream at the front of src?  The rest is ignored.
IsStream(src, n) ==
    /\ n > 0 /\ Len(src[1]) = 4
    /\ LET size == src[1][2]
           data == src[1][3] IN
       /\ size \in Nat /\ Squeezed(size) <= n
       /\ \A i \in 1 .. Squeezed(size) : src[i] = StreamByte(i, size, data)

\* Decompression stops where the room ends, with a status that becomes 0.
Inflate(dst, src, n, room) ==
    LET size == src[1][2]
        data == src[1][3] IN
    IF ~IsStream(src, n) THEN Refused(dst)
    ELSE IF size <= room THEN Result(dst, Prefix(data, size))
    ELSE Refused(Put(dst, Prefix(data, room)))

\* The most significant byte first.
Checksum(data) == [i \in 1 .. 4 |-> <<i, data, 0>>]

Fletcher(dst, src, n) == Result(dst, Prefix(src, n) \o Checksum(Prefix(src, n)))

Unfletcher(dst, src, n) ==
    IF n >= 4 /\ SubSeq(src, n - 3, n) = Checksum(Prefix(src, n - 4))
    THEN Result(dst, Prefix(src, n - 4))
    ELSE Refused(dst)

Apply(p, f, dst, src, n, shrinks) ==
    CASE f = "shuffle" -> Shuffle(p, dst, src, n)
      [] f = "deflate" -> Deflate(p, dst, src, n, shrinks)
      [] f = "fletcher32" -> Fletcher(dst, src, n)

\* The HDF5 library: its shuffle is made of planes, with the bytes of an
\* incomplete element behind them, and its checksum has the least significant
\* byte first.  (Data whose checksum passes in either order, zeros among them,
\* does not occur here.)
HdfUnshuffle(p, dst, src, n) ==
    Result(dst, [k \in 1 .. n |-> IF k <= Whole(p, n) THEN src[Unplane(p, n, k)] ELSE src[k]])

HdfChecksum(data) == [i \in 1 .. 4 |-> Checksum(data)[5 - i]]

HdfUnfletcher(dst, src, n) ==
    IF n >= 4 /\ SubSeq(src, n - 3, n) = HdfChecksum(Prefix(src, n - 4))
    THEN Result(dst, Prefix(src, n - 4))
    ELSE Refused(dst)

HdfUnapply(p, f, dst, src, n) ==
    CASE f = "shuffle" -> HdfUnshuffle(p, dst, src, n)
      [] f = "deflate" -> Inflate(dst, src, n, ScratchBound(p.block))
      [] f = "fletcher32" -> HdfUnfletcher(dst, src, n)

\* room: params[1], which set_cache has set to the size of a chunk.
Unapply(p, f, dst, src, n, room) ==
    CASE f = "shuffle" -> Unshuffle(p, dst, src, n)
      [] f = "deflate" -> Inflate(dst, src, n, room)
      [] f = "fletcher32" -> Unfletcher(dst, src, n)

-----------------------------------------------------------------------------
(* Applying the chain. *)

AllInplace(p) == \A i \in DOMAIN p.chain : p.chain[i] # "deflate"

\* Fault: a skipped filter leaves a chunk of length 0 (issue #287).
PingPongStepCollapses(p, e, i, shrinks) ==
    LET r == Apply(p, p.chain[i], e.dst, e.src, e.len, shrinks) IN
    IF r.len = 0 THEN [e EXCEPT !.mask = @ \cup {i}, !.len = 0]
    ELSE [src |-> r.buf, dst |-> e.src, len |-> r.len, mask |-> e.mask]

\* A filter that returns 0 is skipped: buffer and length stay.
PingPongStep(p, e, i, shrinks) ==
    LET r == Apply(p, p.chain[i], e.dst, e.src, e.len, shrinks) IN
    IF r.len = 0 THEN [e EXCEPT !.mask = @ \cup {i}]
    ELSE [src |-> r.buf, dst |-> e.src, len |-> r.len, mask |-> e.mask]

Begun(p, chunk0, chunk1) == [src |-> chunk0, dst |-> chunk1, len |-> p.block, mask |-> {}]

PingPongs(p, chunk0, chunk1, shrinks) ==
    LET run[i \in 0 .. Len(p.chain)] ==   \* i filters have been applied
            IF i = 0 THEN Begun(p, chunk0, chunk1) ELSE PingPongStep(p, run[i - 1], i, shrinks) IN
    run

PingPong(p, chunk0, chunk1, shrinks) == PingPongs(p, chunk0, chunk1, shrinks)[Len(p.chain)]

\* The path for chains without a compressor: every filter has dst = src.
InPlaceStep(p, e, i) ==
    LET r == IF p.chain[i] = "shuffle" THEN ShuffleInPlace(p, e.src, e.len)
             ELSE Fletcher(e.src, e.src, e.len) IN
    [e EXCEPT !.src = r.buf, !.len = r.len]

InPlaces(p, chunk0, chunk1) ==
    LET run[i \in 0 .. Len(p.chain)] ==
            IF i = 0 THEN Begun(p, chunk0, chunk1) ELSE InPlaceStep(p, run[i - 1], i) IN
    run

InPlace(p, chunk0, chunk1) == InPlaces(p, chunk0, chunk1)[Len(p.chain)]

\* basic_pipeline_t::write_chunk_impl; without filters the chunk as it is.
Encode(p, chunk0, chunk1, shrinks) ==
    IF AllInplace(p) THEN InPlace(p, chunk0, chunk1) ELSE PingPong(p, chunk0, chunk1, shrinks)

\* Which of the two buffers is chunk0 when the chain has been applied.
EndsInChunk0(p, e) == AllInplace(p) \/ (Len(p.chain) - Cardinality(e.mask)) % 2 = 0

Fresh(p) == [k \in 1 .. ScratchBound(p.block) |-> Junk]

\* The worker of pool_pipeline_t: the same, in buffers of its own and never in
\* place.
EncodeInPool(p, chunk, shrinks) ==
    PingPong(p, Put(Fresh(p), Prefix(chunk, p.block)), Fresh(p), shrinks)

-----------------------------------------------------------------------------
(* Reversing the chain. *)

\* Fault: the filter mask is not looked at.
UnfilterIgnoringMask(p, d, i, mask) ==
    LET r == Unapply(p, p.chain[i], d.dst, d.src, d.len, p.block) IN
    [src |-> r.buf, dst |-> d.src, len |-> r.len]

\* One round: a masked filter is passed by, then the buffers are swapped.
Unfilter(p, d, i, mask) ==
    LET r == IF i \in mask THEN Result(d.dst, Prefix(d.src, d.len))
             ELSE Unapply(p, p.chain[i], d.dst, d.src, d.len, p.block) IN
    [src |-> r.buf, dst |-> d.src, len |-> r.len]

\* read_chunk_impl behind the fetch: len bytes are in chunk1 where the number
\* of filters is odd, else in chunk0, and the result ends up in src, chunk0.
Fetched(p, chunk0, chunk1, len) ==
    IF Len(p.chain) % 2 = 1 THEN [src |-> chunk1, dst |-> chunk0, len |-> len]
    ELSE [src |-> chunk0, dst |-> chunk1, len |-> len]

Decodes(p, chunk0, chunk1, len, mask) ==
    LET tail == Len(p.chain)
        run[i \in 0 .. tail] ==   \* the last i filters have been reversed
            IF i = 0 THEN Fetched(p, chunk0, chunk1, len)
            ELSE Unfilter(p, run[i - 1], tail - i + 1, mask) IN
    run

Decode(p, chunk0, chunk1, len, mask) == Decodes(p, chunk0, chunk1, len, mask)[Len(p.chain)]

\* The HDF5 library reads a chunk by its mask and its length on disk, with as
\* much room as the data takes; where a filter fails there is nothing to read.
HdfUnfilter(p, d, i, mask) ==
    IF i \in mask THEN d ELSE HdfUnapply(p, p.chain[i], Fresh(p), d.buf, d.len)

HdfDecodes(p, chunk) ==
    LET tail == Len(p.chain)
        run[i \in 0 .. tail] ==
            IF i = 0 THEN [buf |-> Put(Fresh(p), chunk.bytes), len |-> Len(chunk.bytes)]
            ELSE HdfUnfilter(p, run[i - 1], tail - i + 1, chunk.mask) IN
    run

HdfDecode(p, chunk) == Prefix(HdfDecodes(p, chunk)[Len(p.chain)].buf, p.block)

\* A stored chunk: its bytes, the filters that were skipped, and what HDF5
\* reads from it.
Stored(p, e) ==
    LET chunk == [bytes |-> Prefix(e.src, e.len), mask |-> e.mask] IN
    [bytes |-> chunk.bytes, mask |-> chunk.mask, plain |-> HdfDecode(p, chunk)]

\* A chunk that does not exist reads as the fill value.
Absent(p) == [bytes |-> <<>>, mask |-> {}, plain |-> [k \in 1 .. p.block |-> Zero]]

-----------------------------------------------------------------------------
(* Pipelines that read what they have written. *)

Positions(p, f) == {i \in DOMAIN p.chain : p.chain[i] = f}

\* The shuffle leaves out what is behind the last whole element, so that no
\* filter that changes the length may come before it.
ShuffleFirst(p) ==
    p.size = 1 \/ \A i \in Positions(p, "shuffle") : \A j \in 1 .. i - 1 : p.chain[j] = "shuffle"

\* What shuffle_ssse3 makes of a chunk with vectors in it is not made of
\* planes, and the other direction undoes it for elements of 4 bytes only.
ShuffleSound(p) == ShuffleFirst(p) /\ (Positions(p, "shuffle") # {} => Vectors(p, p.block) = 0)

\* The HDF5 library refuses what fletcher32 has appended.
NoChecksum(p) == Positions(p, "fletcher32") = {}

\* The shuffle of the in-place path overwrites what it has yet to read.
WritesSound(p, kind) ==
    /\ ShuffleSound(p)
    /\ kind = "basic" /\ AllInplace(p) => Positions(p, "shuffle") = {} \/ p.size = 1

\* The room for decompression has no place for a checksum, and before HDF5 2.0
\* the length of a chunk is not known, so that the checksum is not found.
ReadsSound(p) ==
    /\ ShuffleSound(p)
    /\ \A i \in Positions(p, "fletcher32"), j \in Positions(p, "deflate") : i > j
    /\ Positions(p, "fletcher32") # {} => p.hdf5 >= 2

=============================================================================
