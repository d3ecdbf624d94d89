----------------------------- MODULE ChunkSplit -----------------------------
(***************************************************************************)
(* split_to_chunk_write and split_to_chunk_read of H5Zpipeline.hpp: how a  *)
(* block of data in the caller's memory is cut into chunks and put         *)
(* together again.                                                         *)
(*                                                                         *)
(* A split s has s.rank, s.n (the extent of the block), s.b (the extent of *)
(* a chunk) and s.size (bytes per element).  n and b are in the order of   *)
(* N and B: the dimension that varies fastest comes first, and the         *)
(* dimensions beyond the rank are 1.  h5::write and h5::read reach this    *)
(* code without an offset only, so O is zero and C is D.                   *)
(***************************************************************************)
EXTENDS Integers, Sequences

\* Bound: H5CPP_MAX_RANK is 7 in the code.
MaxRank == 3

CONSTANT Word    \* 2^64; a run takes 16, which is the same modulo 3, 5, 6 and 7

ASSUME WordAssumption == Word \in Nat

Ceil(x, y) == (x + y - 1) \div y

LessOf(x, y) == IF x < y THEN x ELSE y

-----------------------------------------------------------------------------
(* Bytes.  A byte of the caller's memory is its own number, from 1 on. *)

Byte(k)   == <<k>>
Zero      == <<0>>     \* memset, and the fill value
Older     == <<-1>>    \* what a former write has left in the file
Beyond    == <<-2>>    \* what lies behind the caller's memory
Untouched == <<-3>>    \* what the caller's memory holds before a read
Junk      == <<-4>>    \* memory nobody has initialized

-----------------------------------------------------------------------------
(* Places. *)

\* The order of a block: coordinate x in an array of extent n.
Linear(x, n) == ((x[3] * n[2]) + x[2]) * n[1] + x[1]

Volume(n) == n[1] * n[2] * n[3]

Box(n) == (0 .. n[1] - 1) \X (0 .. n[2] - 1) \X (0 .. n[3] - 1)

\* The loops over j: how many chunks there are, and the corner of each.
ChunkCount(s) == Ceil(s.n[1], s.b[1]) * Ceil(s.n[2], s.b[2]) * Ceil(s.n[3], s.b[3])

Corner(s, k) ==
    LET k1 == Ceil(s.n[1], s.b[1])
        k2 == Ceil(s.n[2], s.b[2]) IN
    <<(k % k1) * s.b[1], ((k \div k1) % k2) * s.b[2], (k \div (k1 * k2)) * s.b[3]>>

\* The loops over i: how many rows of the chunk at j are in the block, and
\* where the r-th of them begins in the block.
Height(s, j, d) == LessOf(s.b[d], s.n[d] - j[d])

RowCount(s, j) == Height(s, j, 2) * Height(s, j, 3)

RowStart(s, j, r) ==
    Linear(<<j[1], j[2] + (r % Height(s, j, 2)), j[3] + (r \div Height(s, j, 2))>>, s.n)

\* Ry[0] in unsigned arithmetic: (N - Rx) % B for a write, N % B for a read.
WriteEdge(s) == ((s.n[1] + Word - s.b[1]) % Word) % s.b[1]

\* Fault: the remainder at the trailing edge is taken as for a write.
ReadEdgeAsWrite(s) == WriteEdge(s)

ReadEdge(s) == s.n[1] % s.b[1]

\* How many elements of a row are copied.
RowLength(s, j, edge) == IF j[1] # s.n[1] - edge THEN s.b[1] ELSE edge

\* Where the r-th row lies in the chunk: p advances by b0 for every row.
RowPlace(s, r) == r * s.b[1]

-----------------------------------------------------------------------------
(* Copies. *)

BlockBytes(s) == Volume(s.b) * s.size

\* Overwrites the front of a buffer.
Put(buffer, bytes) == bytes \o SubSeq(buffer, Len(bytes) + 1, Len(buffer))

\* The caller's memory, as the copies see it.
Source(s, k) == IF k < Volume(s.n) * s.size THEN Byte(k + 1) ELSE Beyond

\* The caller's memory before a read, with a guard behind it.
Target(s) == [k \in 1 .. (Volume(s.n) + s.b[1]) * s.size |-> Untouched]

\* Fault: only the fastest dimension is looked at.
OverTheEdgeOfRow(s, j) == j[1] + s.b[1] > s.n[1]

OverTheEdge(s, j) == \E d \in 1 .. MaxRank : j[d] + s.b[d] > s.n[d]

\* split_to_chunk_write: chunk0 for the chunk at j.
GatherRows(s, j, chunk) ==
    LET row == s.b[1] * s.size
        length == RowLength(s, j, WriteEdge(s)) * s.size IN
    Put(chunk, [k \in 1 .. BlockBytes(s) |->
        LET r == (k - 1) \div row
            col == (k - 1) % row IN
        IF r < RowCount(s, j) /\ col < length
        THEN Source(s, RowStart(s, j, r) * s.size + col)
        ELSE IF OverTheEdge(s, j) THEN Zero ELSE chunk[k]])

\* Its fast path for rank 1.
GatherLine(s, j, chunk) ==
    LET length == LessOf(s.b[1], s.n[1] - j[1]) * s.size IN
    Put(chunk, [k \in 1 .. BlockBytes(s) |->
        IF k <= length THEN Source(s, j[1] * s.size + k - 1) ELSE Zero])

Gather(s, j, chunk) == IF s.rank = 1 THEN GatherLine(s, j, chunk) ELSE GatherRows(s, j, chunk)

\* split_to_chunk_read: the r-th row of the chunk at j goes to the caller's
\* memory m.
CopyRow(s, j, chunk, m, r) ==
    LET start == RowStart(s, j, r) * s.size
        p == RowPlace(s, r) * s.size
        length == RowLength(s, j, ReadEdge(s)) * s.size IN
    [k \in DOMAIN m |-> IF k > start /\ k <= start + length THEN chunk[p + k - start] ELSE m[k]]

RowsCopied(s, j, chunk, memory) ==
    LET copied[r \in 0 .. RowCount(s, j)] ==   \* the rows below r have been copied
            IF r = 0 THEN memory ELSE CopyRow(s, j, chunk, copied[r - 1], r - 1) IN
    copied

\* The caller's memory after the chunk at j.
Scatter(s, j, chunk, memory) == RowsCopied(s, j, chunk, memory)[RowCount(s, j)]

-----------------------------------------------------------------------------
(* What HDF5 makes of a chunk: its elements lie in the order of the chunk. *)

CornerOf(s, x) == [d \in 1 .. MaxRank |-> (x[d] \div s.b[d]) * s.b[d]]

PlaceOf(s, x) == Linear([d \in 1 .. MaxRank |-> x[d] % s.b[d]], s.b)

Element(s, bytes, place) == SubSeq(bytes, place * s.size + 1, (place + 1) * s.size)

\* From rank 3 on, a chunk that is cut short in a dimension between the
\* fastest and the slowest has its rows packed, because p advances over the
\* rows the loops visit.
Packed(s) == LessOf(s.b[3], s.n[3]) > 1 /\ s.n[2] % s.b[2] # 0

\* Fewer elements than a chunk is wide: N - Rx wraps.
Wraps(s) == s.rank > 1 /\ s.n[1] < s.b[1] /\ WriteEdge(s) # s.n[1]

=============================================================================
