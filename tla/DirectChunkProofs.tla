------------------------- MODULE DirectChunkProofs -------------------------
(***************************************************************************)
(* Theorems about the direct-chunk path and the views, for every dataset,  *)
(* block, element size and chain of filters: what is written is read back, *)
(* the write implements an array store, what it pads is zero, and an       *)
(* iterator delivers the element at its offset.                            *)
(***************************************************************************)
EXTENDS View, FilterChainProofs

-----------------------------------------------------------------------------
(* Cases. *)

\* The blocks a case is about.
Blocks == {case.n, case.read, case.extent}

LEMMA CaseFacts ==
    ASSUME case \in Cases
    PROVE  /\ case.rank \in 1 .. MaxRank /\ case.size \in Nat \ {0}
           /\ case.b \in Nat \X Nat \X Nat /\ case.n \in Nat \X Nat \X Nat
           /\ case.read \in Nat \X Nat \X Nat /\ case.extent \in Nat \X Nat \X Nat
           /\ \A d \in 1 .. MaxRank :
                 /\ case.b[d] > 0 /\ case.b[d] < Word /\ case.extent[d] < Word
                 /\ case.n[d] <= case.extent[d] /\ case.read[d] <= case.extent[d]
                 /\ d > case.rank => case.b[d] = 1 /\ case.n[d] = 1 /\ case.extent[d] = 1 /\ case.read[d] = 1
           /\ case.chain \in Seq(Filters)
           /\ \A i, k \in Positions(case, "fletcher32") : i = k
           /\ case.kind \in {"basic", "pool"} /\ case.hdf5 \in {1, 2}
           /\ case.ssse3 \in BOOLEAN /\ case.old \in BOOLEAN
           /\ case.old => case.chain = <<>>
BY DirectAssumption

LEMMA BlockFacts ==
    ASSUME case \in Cases, NEW n \in Blocks
    PROVE  /\ n \in Nat \X Nat \X Nat
           /\ \A d \in 1 .. MaxRank :
                 n[d] <= case.extent[d] /\ n[d] < Word /\ (d > case.rank => n[d] = 1)
<1>1. n \in Nat \X Nat \X Nat
    BY CaseFacts DEF Blocks
<1>2. ASSUME NEW d \in 1 .. MaxRank
      PROVE  n[d] <= case.extent[d] /\ n[d] < Word /\ (d > case.rank => n[d] = 1)
  <2>1. n[d] \in Nat /\ case.extent[d] \in Nat /\ case.n[d] \in Nat /\ case.read[d] \in Nat
    <3>1. ASSUME NEW m \in Nat \X Nat \X Nat PROVE m[d] \in Nat
      <4>1. m[1] \in Nat /\ m[2] \in Nat /\ m[3] \in Nat /\ d \in {1, 2, 3}
          BY DEF MaxRank
      <4> QED
          BY <4>1
    <3> QED
        BY <1>1, <3>1, CaseFacts
  <2>2. case.extent[d] < Word /\ case.n[d] <= case.extent[d] /\ case.read[d] <= case.extent[d]
      BY CaseFacts
  <2>3. d > case.rank => case.n[d] = 1 /\ case.extent[d] = 1 /\ case.read[d] = 1
      BY CaseFacts
  <2> QED
      BY <2>1, <2>2, <2>3, WordAssumption DEF Blocks
<1> QED
    BY <1>1, <1>2

LEMMA SplitsAre ==
    ASSUME case \in Cases, NEW n \in Blocks
    PROVE  /\ IsSplit(SplitOf(n))
           /\ SplitOf(n).n = n /\ SplitOf(n).b = case.b /\ SplitOf(n).size = case.size
           /\ SplitOf(n).rank = case.rank
           /\ BlockBytes(SplitOf(n)) = Pipe.block
<1>1. /\ SplitOf(n).n = n /\ SplitOf(n).b = case.b /\ SplitOf(n).size = case.size
      /\ SplitOf(n).rank = case.rank
    BY DEF SplitOf
<1>2. /\ n \in Nat \X Nat \X Nat
      /\ \A d \in 1 .. MaxRank : n[d] < Word /\ (d > case.rank => n[d] = 1)
    BY BlockFacts
<1>3. IsSplit(SplitOf(n))
    BY <1>1, <1>2, CaseFacts DEF IsSplit
<1> QED
    BY <1>1, <1>3 DEF BlockBytes, Pipe

LEMMA PipeIs ==
    ASSUME case \in Cases
    PROVE  /\ IsPipe(Pipe)
           /\ Pipe.chain = case.chain /\ Pipe.size = case.size /\ Pipe.hdf5 = case.hdf5
           /\ Pipe.block = Volume(case.b) * case.size
<1>1. Pipe.chain = case.chain /\ Pipe.size = case.size /\ Pipe.hdf5 = case.hdf5
      /\ Pipe.block = Volume(case.b) * case.size
    BY DEF Pipe
<1>2. Volume(case.b) \in Nat
    BY CaseFacts, VolumeNat
<1>3. Pipe.block \in Nat /\ \E e \in Nat : Pipe.block = e * Pipe.size
    BY <1>1, <1>2, CaseFacts, MulNat
<1>4. Positions(Pipe, "fletcher32") = Positions(case, "fletcher32")
    BY <1>1 DEF Positions
<1> HIDE DEF Pipe
<1> QED
    BY <1>1, <1>3, <1>4, CaseFacts DEF IsPipe, Pipe

\* The chunks of a block are chunks of the dataset.
LEMMA CornersReached ==
    ASSUME case \in Cases, NEW n \in Blocks, NEW k \in 0 .. ChunkCount(SplitOf(n)) - 1
    PROVE  Corner(SplitOf(n), k) \in Corners /\ IsCorner(SplitOf(n), Corner(SplitOf(n), k))
<1> DEFINE s == SplitOf(n)
           t == SplitOf(case.extent)
<1>0. case.extent \in Blocks
    BY DEF Blocks
<1>1. IsSplit(s) /\ IsSplit(t) /\ s.n = n /\ t.n = case.extent /\ s.b = case.b /\ t.b = case.b
    BY <1>0, SplitsAre
<1> HIDE DEF s, t
<1>2. PICK q \in Grid(s) : Corner(s, k) = CornerAt(s, q)
    BY <1>1, ReachedIsGrid DEF s
<1>3. \A d \in 1 .. MaxRank : n[d] <= case.extent[d]
    BY BlockFacts
<1>4. q \in Grid(t)
  <2>1. /\ n[1] \in Nat /\ n[2] \in Nat /\ n[3] \in Nat
        /\ case.extent[1] \in Nat /\ case.extent[2] \in Nat /\ case.extent[3] \in Nat
        /\ case.b[1] \in Nat \ {0} /\ case.b[2] \in Nat \ {0} /\ case.b[3] \in Nat \ {0}
        /\ n[1] <= case.extent[1] /\ n[2] <= case.extent[2] /\ n[3] <= case.extent[3]
      BY <1>1, <1>3, SplitTypes DEF MaxRank
  <2>2. /\ Ceil(n[1], case.b[1]) <= Ceil(case.extent[1], case.b[1])
        /\ Ceil(n[2], case.b[2]) <= Ceil(case.extent[2], case.b[2])
        /\ Ceil(n[3], case.b[3]) <= Ceil(case.extent[3], case.b[3])
      BY <2>1, CeilMono
  <2>3. /\ Ceil(n[1], case.b[1]) \in Nat /\ Ceil(case.extent[1], case.b[1]) \in Nat
        /\ Ceil(n[2], case.b[2]) \in Nat /\ Ceil(case.extent[2], case.b[2]) \in Nat
        /\ Ceil(n[3], case.b[3]) \in Nat /\ Ceil(case.extent[3], case.b[3]) \in Nat
      BY <2>1, CeilNat
  <2> QED
      BY <1>1, <1>2, <2>2, <2>3 DEF Grid
<1>5. CornerAt(s, q) = CornerAt(t, q)
    BY <1>1 DEF CornerAt
<1>6. PICK l \in 0 .. ChunkCount(t) - 1 : Corner(t, l) = CornerAt(t, q)
    BY <1>1, <1>4, GridIsReached
<1>7. Corner(s, k) \in Corners
    BY <1>2, <1>5, <1>6 DEF Corners, t
<1> QED
    BY <1>2, <1>7 DEF IsCorner, s

\* The chunk an element of a block is in.
LEMMA CornerIs ==
    ASSUME case \in Cases, NEW n \in Blocks, NEW x \in Box(n)
    PROVE  /\ CornerOf(SplitOf(n), x) = CornerOf(SplitOf(case.extent), x)
           /\ CornerOf(SplitOf(n), x) \in Corners
           /\ IsCorner(SplitOf(n), CornerOf(SplitOf(n), x))
           /\ \E k \in 0 .. ChunkCount(SplitOf(n)) - 1 : Corner(SplitOf(n), k) = CornerOf(SplitOf(n), x)
<1> DEFINE s == SplitOf(n)
           t == SplitOf(case.extent)
           j == CornerOf(s, x)
           q == <<x[1] \div s.b[1], x[2] \div s.b[2], x[3] \div s.b[3]>>
<1>1. IsSplit(s) /\ s.n = n /\ s.b = case.b /\ t.b = case.b
    BY SplitsAre DEF SplitOf
<1>2. CornerOf(s, x) = CornerOf(t, x)
    BY <1>1 DEF CornerOf
<1> HIDE DEF s, t
<1>3. q \in Grid(s) /\ j = CornerAt(s, q)
    BY <1>1, CornerOfIs
<1> HIDE DEF q, j
<1>4. PICK k \in 0 .. ChunkCount(s) - 1 : Corner(s, k) = CornerAt(s, q)
    BY <1>1, <1>3, GridIsReached
<1>5. Corner(s, k) = j
    BY <1>3, <1>4
<1>6. j \in Corners /\ IsCorner(s, j)
    BY <1>4, <1>5, CornersReached DEF s
<1> QED
    BY <1>2, <1>4, <1>5, <1>6 DEF s, t, j

LEMMA BoxGrows ==
    ASSUME case \in Cases, NEW n \in Blocks, NEW x \in Box(n)
    PROVE  x \in Box(case.extent)
<1>1. /\ n[1] \in Nat /\ n[2] \in Nat /\ n[3] \in Nat
      /\ case.extent[1] \in Nat /\ case.extent[2] \in Nat /\ case.extent[3] \in Nat
    BY BlockFacts, CaseFacts
<1>2. n[1] <= case.extent[1] /\ n[2] <= case.extent[2] /\ n[3] <= case.extent[3]
    BY BlockFacts DEF MaxRank
<1> QED
    BY <1>1, <1>2 DEF Box

-----------------------------------------------------------------------------
(* The type invariant. *)

\* s is a stored chunk, or the record of one that does not exist.
WellStored(p, s) ==
    /\ IsBuffer(s.bytes, Len(s.bytes)) /\ Len(s.bytes) \in Nat /\ Len(s.bytes) <= ScratchBound(p.block)
    /\ IsBuffer(s.plain, p.block)

FileTyped == file = [j \in Corners |-> file[j]] /\ \A j \in Corners : WellStored(Pipe, file[j])

BuffersTyped == Holds(Pipe, chunk0) /\ Holds(Pipe, chunk1)

Typed ==
    /\ case \in Cases
    /\ pc \in {"write", "written", "read", "done", "view"}
    /\ next \in Nat /\ lost \subseteq Corners /\ missed \subseteq Corners
    /\ FileTyped /\ BuffersTyped

\* Before there is a view there are no iterators, and a view has rank 1.
Viewed ==
    /\ offset \in [Iterators -> Nat] /\ use \in [Iterators -> {"none", "full", "deref"}]
    /\ \A i \in Iterators :
          /\ offset[i] <= Total \/ use[i] = "none"
          /\ pc # "view" => use[i] = "none" /\ offset[i] = 0
    /\ pc = "view" => case.rank = 1

\* A type as the modules state it.
LEMMA TypedIsTypeOK ==
    ASSUME Typed, Viewed
    PROVE  ViewTypeOK
<1>1. IsPipe(Pipe)
    BY PipeIs DEF Typed
<1>2. Len(chunk0) = ScratchBound(Pipe.block) /\ Len(chunk1) = ScratchBound(Pipe.block)
    BY <1>1, PipeTypes, BufferLen DEF Typed, BuffersTyped, Holds
<1>3. DOMAIN file = Corners /\ \A j \in Corners : Len(file[j].bytes) <= ScratchBound(Pipe.block)
  <2>1. file = [j \in Corners |-> file[j]]
      BY DEF Typed, FileTyped
  <2>2. DOMAIN file = Corners
      BY ONLY <2>1
  <2> QED
      BY <2>2 DEF Typed, FileTyped, WellStored
<1> HIDE DEF Pipe, Corners
<1> QED
    BY <1>2, <1>3 DEF Typed, Viewed, TypeOK, ViewTypeOK

\* What does not change with the case.
LEMMA Settled ==
    ASSUME case' = case
    PROVE  /\ Pipe' = Pipe /\ Corners' = Corners /\ Scratch' = Scratch
           /\ WriteSplit' = WriteSplit /\ ReadSplit' = ReadSplit
           /\ SplitOf(case.extent)' = SplitOf(case.extent)
           /\ Total' = Total /\ ChunkSize' = ChunkSize
BY DEF Pipe, Corners, Scratch, Full, WriteSplit, ReadSplit, SplitOf, Total, ChunkSize

LEMMA FullHolds ==
    ASSUME case \in Cases, NEW byte
    PROVE  Holds(Pipe, Full(byte))
BY DEF Holds, Full, IsBuffer

LEMMA StoredIs ==
    ASSUME NEW p, IsPipe(p), NEW e, e.len \in Nat, e.len <= ScratchBound(p.block)
    PROVE  WellStored(p, Stored(p, e))
<1> DEFINE s == Stored(p, e)
           c == Prefix(e.src, e.len)
           chunk == [bytes |-> c, mask |-> e.mask]
<1>1. s.bytes = c /\ s.plain = HdfDecode(p, chunk)
    BY DEF Stored
<1>2. IsBuffer(c, e.len) /\ Len(c) = e.len
    BY PrefixIs
<1>3. IsBuffer(HdfDecode(p, chunk), p.block)
    BY PrefixIs, PipeTypes DEF HdfDecode
<1> HIDE DEF s, c, chunk
<1> QED
    BY <1>1, <1>2, <1>3 DEF WellStored, s

LEMMA AbsentIs ==
    ASSUME NEW p, IsPipe(p)
    PROVE  WellStored(p, Absent(p))
<1> DEFINE z == [k \in 1 .. p.block |-> Zero]
<1>1. Absent(p).bytes = <<>> /\ Absent(p).plain = z
    BY DEF Absent
<1>2. IsBuffer(z, p.block)
    BY DEF IsBuffer
<1>3. IsBuffer(<<>>, 0) /\ Len(<<>>) = 0
    BY DEF IsBuffer
<1> HIDE DEF z
<1> QED
    BY <1>1, <1>2, <1>3, PipeTypes DEF WellStored

LEMMA TypedInit ==
    ASSUME ViewInit
    PROVE  Typed /\ Viewed
<1>0. IsPipe(Pipe) /\ case \in Cases
    BY PipeIs DEF ViewInit, Init
<1> DEFINE older == [src |-> Full(Older), len |-> Pipe.block, mask |-> {}]
<1>1. WellStored(Pipe, Absent(Pipe)) /\ WellStored(Pipe, Stored(Pipe, older))
  <2>1. older.len = Pipe.block
      OBVIOUS
  <2> HIDE DEF older
  <2> QED
      BY <1>0, <2>1, AbsentIs, StoredIs, PipeTypes
<1>2. file = [j \in Corners |-> IF case.old THEN Stored(Pipe, older) ELSE Absent(Pipe)]
    BY DEF ViewInit, Init
<1> HIDE DEF older
<1>3. FileTyped
  <2> DEFINE v == IF case.old THEN Stored(Pipe, older) ELSE Absent(Pipe)
  <2>1. file = [j \in Corners |-> v] /\ WellStored(Pipe, v)
      BY <1>1, <1>2
  <2> HIDE DEF v
  <2> QED
      BY <2>1 DEF FileTyped
<1>4. BuffersTyped
    BY <1>0, FullHolds DEF ViewInit, Init, BuffersTyped, Scratch
<1>5. Typed
    BY <1>0, <1>3, <1>4 DEF ViewInit, Init, Typed
<1>6. Viewed
    BY DEF ViewInit, Init, Viewed
<1> QED
    BY <1>5, <1>6

-----------------------------------------------------------------------------
(* The steps, by what they do. *)

\* A chunk as split_to_chunk_write has filled it, and what the pipeline makes of
\* it.
Filled == Gather(WriteSplit, Corner(WriteSplit, next), chunk0)

Encoded(shrinks) ==
    IF case.kind = "pool" THEN EncodeInPool(Pipe, Filled, shrinks)
    ELSE Encode(Pipe, Filled, chunk1, shrinks)

\* The chunk at j is stored, or storage refuses it.
Stores(j, e) ==
    \/ file' = [file EXCEPT ![j] = Stored(Pipe, e)] /\ lost' = lost
    \/ lost' = lost \cup {j} /\ file' = file

\* The chunk at j is fetched, or it cannot be.
Loads(j) ==
    \/ Exists(j) /\ chunk0' = Fetch(j).src /\ chunk1' = Fetch(j).dst /\ missed' = missed
    \/ /\ \E mask : chunk0' = FetchFails(mask).src /\ chunk1' = FetchFails(mask).dst
       /\ missed' = missed \cup {j}

LEMMA FilledHolds ==
    ASSUME Typed
    PROVE  IsPipe(Pipe) /\ Holds(Pipe, Filled)
<1>1. case \in Cases /\ IsPipe(Pipe) /\ Holds(Pipe, chunk0)
    BY PipeIs DEF Typed, BuffersTyped
<1>2. IsSplit(WriteSplit) /\ BlockBytes(WriteSplit) = Pipe.block
    BY <1>1, SplitsAre DEF Blocks, WriteSplit
<1>3. BlockBytes(WriteSplit) <= ScratchBound(Pipe.block) /\ ScratchBound(Pipe.block) \in Nat
    BY <1>1, <1>2, PipeTypes
<1> QED
    BY <1>1, <1>2, <1>3, GatherIs DEF Filled, Holds

LEMMA EncodedHolds ==
    ASSUME Typed, NEW shrinks
    PROVE  /\ Holds(Pipe, Encoded(shrinks).src) /\ Holds(Pipe, Encoded(shrinks).dst)
           /\ Encoded(shrinks).len \in Nat /\ Encoded(shrinks).len <= ScratchBound(Pipe.block)
<1>1. IsPipe(Pipe) /\ Holds(Pipe, Filled) /\ Holds(Pipe, chunk1)
    BY FilledHolds DEF Typed, BuffersTyped
<1>2. Applied(Pipe, Encoded(shrinks), Len(Pipe.chain))
    BY <1>1, EncodeKeeps DEF Encoded
<1>3. Len(Pipe.chain) \in Int
    BY <1>1, PipeTypes
<1> DEFINE e == Encoded(shrinks)
<1> HIDE DEF e
<1>4. Holds(Pipe, e.src) /\ Holds(Pipe, e.dst) /\ e.len \in Nat /\ e.len <= ScratchBound(Pipe.block)
  <2>1. Applied(Pipe, e, Len(Pipe.chain))
      BY <1>2 DEF e
  <2> HIDE DEF Pipe
  <2>2. Holds(Pipe, e.src) /\ Holds(Pipe, e.dst) /\ Fits(Pipe, Len(Pipe.chain), e.len)
      BY <2>1 DEF Applied
  <2> QED
      BY <1>1, <1>3, <2>2, FitsBound
<1> QED
    BY <1>4 DEF e

LEMMA WriteStores ==
    ASSUME Typed, WriteChunk
    PROVE  /\ pc = "write" /\ next \in 0 .. ChunkCount(WriteSplit) - 1
           /\ \E shrinks : Stores(Corner(WriteSplit, next), Encoded(shrinks))
           /\ Holds(Pipe, chunk0') /\ Holds(Pipe, chunk1')
           /\ next' = next + 1 /\ case' = case /\ pc' = pc /\ memory' = memory /\ missed' = missed
<1> DEFINE j == Corner(WriteSplit, next)
<1>1. PICK shrinks :
          LET e == Encoded(shrinks)
              inChunk0 == EndsInChunk0(Pipe, e) IN
          /\ \/ file' = [file EXCEPT ![j] = Stored(Pipe, e)] /\ UNCHANGED lost
             \/ MayFail /\ lost' = lost \cup {j} /\ UNCHANGED file
          /\ chunk0' = IF case.kind = "pool" THEN Filled ELSE IF inChunk0 THEN e.src ELSE e.dst
          /\ chunk1' = IF case.kind = "pool" THEN chunk1 ELSE IF inChunk0 THEN e.dst ELSE e.src
    BY Zenon DEF WriteChunk, Filled, Encoded
<1>2. Stores(j, Encoded(shrinks))
    BY <1>1 DEF Stores
<1>3. /\ pc = "write" /\ next < ChunkCount(WriteSplit) /\ next' = next + 1
      /\ case' = case /\ pc' = pc /\ memory' = memory /\ missed' = missed
    BY DEF WriteChunk
<1> DEFINE e == Encoded(shrinks)
<1>4. Holds(Pipe, e.src) /\ Holds(Pipe, e.dst) /\ Holds(Pipe, Filled) /\ Holds(Pipe, chunk1)
    BY EncodedHolds, FilledHolds DEF Typed, BuffersTyped
<1> HIDE DEF e
<1>5. Holds(Pipe, chunk0') /\ Holds(Pipe, chunk1')
  <2>1. chunk0' \in {Filled, e.src, e.dst} /\ chunk1' \in {chunk1, e.src, e.dst}
      BY <1>1 DEF e
  <2> QED
      BY <1>4, <2>1
<1>6. ChunkCount(WriteSplit) \in Nat
  <2>1. IsSplit(WriteSplit)
      BY SplitsAre DEF Blocks, WriteSplit, Typed
  <2> HIDE DEF WriteSplit
  <2> QED
      BY <2>1, CeilsNat, MulNat DEF ChunkCount
<1>7. next \in 0 .. ChunkCount(WriteSplit) - 1
    BY <1>3, <1>6 DEF Typed
<1> QED
    BY <1>2, <1>3, <1>5, <1>7

LEMMA FetchKeeps ==
    ASSUME Typed, NEW j \in Corners, NEW mask
    PROVE  Reversing(Pipe, Fetch(j)) /\ Reversing(Pipe, FetchFails(mask))
<1> DEFINE bytes == file[j].bytes
           odd == Len(case.chain) % 2 = 1
           n == ScratchBound(Pipe.block)
           c == IF odd THEN chunk0 ELSE Put(chunk0, bytes)
           d == IF odd THEN Put(chunk1, bytes) ELSE chunk1
           len == IF case.hdf5 >= 2 THEN Len(bytes) ELSE Pipe.block
           m == IF case.hdf5 >= 2 /\ case.chain # <<>> THEN n ELSE Pipe.block
<1>1. IsPipe(Pipe) /\ Holds(Pipe, chunk0) /\ Holds(Pipe, chunk1)
    BY PipeIs DEF Typed, BuffersTyped
<1>2. n \in Nat /\ Pipe.block \in Nat /\ Pipe.block <= n
    BY <1>1, PipeTypes
<1>3. IsBuffer(bytes, Len(bytes)) /\ Len(bytes) \in Nat /\ Len(bytes) <= n
    BY DEF Typed, FileTyped, WellStored
<1>4. Fetch(j) = Decode(Pipe, c, d, len, file[j].mask) /\ FetchFails(mask) = Decode(Pipe, chunk0, chunk1, m, mask)
    BY DEF Fetch, FetchFails
<1> HIDE DEF bytes, odd
<1>5. Holds(Pipe, Put(chunk0, bytes)) /\ Holds(Pipe, Put(chunk1, bytes))
  <2> DEFINE l == Len(bytes)
  <2>1. IsBuffer(bytes, l) /\ l \in Nat /\ l <= n
      BY <1>3
  <2> HIDE DEF l, n
  <2> QED
      BY <1>1, <1>2, <2>1, PutKeeps DEF Holds, n
<1>6. Holds(Pipe, c) /\ Holds(Pipe, d) /\ len \in Nat /\ len <= n /\ m \in Nat /\ m <= n
  <2> HIDE DEF n, Pipe
  <2> QED
      BY <1>1, <1>2, <1>3, <1>5
<1> HIDE DEF c, d, len, m
<1> QED
    BY <1>1, <1>4, <1>6, DecodeKeeps

LEMMA LoadsKeeps ==
    ASSUME Typed, NEW j \in Corners, Loads(j)
    PROVE  /\ Holds(Pipe, chunk0') /\ Holds(Pipe, chunk1')
           /\ missed \subseteq missed' /\ missed' \subseteq Corners
<1>1. ASSUME NEW d, Reversing(Pipe, d), chunk0' = d.src, chunk1' = d.dst
      PROVE  Holds(Pipe, chunk0') /\ Holds(Pipe, chunk1')
    BY <1>1 DEF Reversing
<1>2. Holds(Pipe, chunk0') /\ Holds(Pipe, chunk1')
    BY <1>1, FetchKeeps DEF Loads
<1>3. missed \subseteq missed' /\ missed' \subseteq Corners
    BY DEF Loads, Typed
<1> QED
    BY <1>2, <1>3

LEMMA ReadLoads ==
    ASSUME Typed, ReadChunk
    PROVE  /\ pc = "read" /\ next \in 0 .. ChunkCount(ReadSplit) - 1
           /\ Loads(Corner(ReadSplit, next))
           /\ memory' = Scatter(ReadSplit, Corner(ReadSplit, next), chunk0', memory)
           /\ next' = next + 1 /\ case' = case /\ pc' = pc /\ file' = file /\ lost' = lost
<1> DEFINE j == Corner(ReadSplit, next)
           Take(d) == /\ chunk0' = d.src /\ chunk1' = d.dst
                      /\ memory' = Scatter(ReadSplit, j, d.src, memory)
<1>1. \/ Exists(j) /\ Take(Fetch(j)) /\ UNCHANGED missed
      \/ (\E mask : Take(FetchFails(mask))) /\ missed' = missed \cup {j}
    BY Zenon DEF ReadChunk
<1>2. Loads(j) /\ memory' = Scatter(ReadSplit, j, chunk0', memory)
  <2>1. CASE Exists(j) /\ Take(Fetch(j)) /\ UNCHANGED missed
      BY <2>1 DEF Loads
  <2>2. CASE (\E mask : Take(FetchFails(mask))) /\ missed' = missed \cup {j}
      BY <2>2 DEF Loads
  <2> QED
      BY <1>1, <2>1, <2>2
<1>3. /\ pc = "read" /\ next < ChunkCount(ReadSplit) /\ next' = next + 1
      /\ case' = case /\ pc' = pc /\ file' = file /\ lost' = lost
    BY DEF ReadChunk
<1>4. ChunkCount(ReadSplit) \in Nat
  <2>1. IsSplit(ReadSplit)
      BY SplitsAre DEF Blocks, ReadSplit, Typed
  <2> HIDE DEF ReadSplit
  <2> QED
      BY <2>1, CeilsNat, MulNat DEF ChunkCount
<1>5. next \in 0 .. ChunkCount(ReadSplit) - 1
    BY <1>3, <1>4 DEF Typed
<1> QED
    BY <1>2, <1>3, <1>5

\* The corner of the chunk load_chunk reads.
ChunkHead(o) == <<(o \div ChunkSize) * ChunkSize, 0, 0>>

At(o) == <<o, 0, 0>>

LEMMA HeadIs ==
    ASSUME case \in Cases, case.rank = 1, NEW o \in Nat, o < Total
    PROVE  /\ At(o) \in Box(case.extent) /\ ChunkHead(o) \in Corners
           /\ CornerOf(SplitOf(case.extent), At(o)) = ChunkHead(o) /\ CornerOf(WriteSplit, At(o)) = ChunkHead(o)
           /\ PlaceOf(SplitOf(case.extent), At(o)) = o % ChunkSize
<1> DEFINE x == At(o)
           s == SplitOf(case.extent)
<1>1. /\ case.extent[1] \in Nat /\ case.extent[2] = 1 /\ case.extent[3] = 1
      /\ case.b[1] \in Nat \ {0} /\ case.b[2] = 1 /\ case.b[3] = 1
    BY CaseFacts DEF MaxRank
<1>2. x \in Box(case.extent)
    BY <1>1 DEF Box, At, Total
<1>3. s.b = case.b /\ WriteSplit.b = case.b
    BY DEF SplitOf, WriteSplit
<1>4. 0 \div 1 = 0 /\ 0 % 1 = 0 /\ 0 * 1 = 0
    OBVIOUS
<1>5. CornerOf(s, x) = ChunkHead(o) /\ CornerOf(WriteSplit, x) = ChunkHead(o)
  <2> DEFINE c == [d \in 1 .. 3 |-> (x[d] \div case.b[d]) * case.b[d]]
  <2>1. c = <<c[1], c[2], c[3]>>
      OBVIOUS
  <2>2. c[1] = (o \div ChunkSize) * ChunkSize /\ c[2] = 0 /\ c[3] = 0
      BY <1>1, <1>4 DEF At, ChunkSize
  <2>3. CornerOf(s, x) = c /\ CornerOf(WriteSplit, x) = c
      BY <1>3 DEF CornerOf, MaxRank
  <2> HIDE DEF c
  <2> QED
      BY <2>1, <2>2, <2>3 DEF ChunkHead
<1>6. PlaceOf(s, x) = o % ChunkSize
  <2> DEFINE y == [d \in 1 .. 3 |-> x[d] % case.b[d]]
  <2>1. y[1] = o % ChunkSize /\ y[2] = 0 /\ y[3] = 0
      BY <1>1, <1>4 DEF At, ChunkSize
  <2>2. PlaceOf(s, x) = Linear(y, case.b)
      BY <1>3 DEF PlaceOf, MaxRank
  <2>3. o % ChunkSize \in Nat
    <3> DEFINE b == ChunkSize
    <3>1. o \in Int /\ b \in Nat \ {0}
        BY <1>1 DEF ChunkSize
    <3> HIDE DEF b
    <3>2. o % b \in 0 .. b - 1
        BY <3>1, DivMod
    <3> QED
        BY <3>1, <3>2 DEF b
  <2> HIDE DEF y
  <2> QED
      BY <1>1, <2>1, <2>2, <2>3 DEF Linear
<1>7. ChunkHead(o) \in Corners
  <2>1. CornerOf(s, x) \in Corners
      BY <1>2, CornerIs DEF Blocks
  <2> QED
      BY <1>5, <2>1
<1> QED
    BY <1>2, <1>5, <1>6, <1>7

LEMMA BuffersLoad ==
    ASSUME Typed, case.rank = 1, NEW o \in Nat, Buffers(o)
    PROVE  \/ EntersChunk(o) /\ ChunkHead(o) \in Corners /\ Loads(ChunkHead(o))
           \/ ~EntersChunk(o) /\ chunk0' = chunk0 /\ chunk1' = chunk1 /\ missed' = missed
<1>1. CASE EntersChunk(o)
  <2>1. ChunkHead(o) \in Corners
      BY <1>1, HeadIs DEF EntersChunk, Typed
  <2>2. LoadChunk(o)
      BY <1>1 DEF Buffers
  <2>3. \/ Exists(ChunkHead(o)) /\ chunk0' = Fetch(ChunkHead(o)).src /\ chunk1' = Fetch(ChunkHead(o)).dst /\ UNCHANGED missed
        \/ /\ \E mask : chunk0' = FetchFails(mask).src /\ chunk1' = FetchFails(mask).dst
           /\ missed' = missed \cup {ChunkHead(o)}
      BY <2>2, Zenon DEF LoadChunk, ChunkHead
  <2>4. Loads(ChunkHead(o))
      BY <2>3 DEF Loads
  <2> QED
      BY <1>1, <2>1, <2>4
<1>2. CASE ~EntersChunk(o)
    BY <1>2 DEF Buffers
<1> QED
    BY <1>1, <1>2

LEMMA BuffersKeep ==
    ASSUME Typed, case.rank = 1, NEW o \in Nat, Buffers(o)
    PROVE  /\ Holds(Pipe, chunk0') /\ Holds(Pipe, chunk1')
           /\ missed \subseteq missed' /\ missed' \subseteq Corners
<1>1. CASE ChunkHead(o) \in Corners /\ Loads(ChunkHead(o))
  <2> DEFINE j == ChunkHead(o)
  <2> HIDE DEF j
  <2>1. j \in Corners /\ Loads(j)
      BY <1>1 DEF j
  <2> QED
      BY <2>1, LoadsKeeps
<1>2. CASE chunk0' = chunk0 /\ chunk1' = chunk1 /\ missed' = missed
    BY <1>2 DEF Typed, BuffersTyped
<1> QED
    BY <1>1, <1>2, BuffersLoad

\* A step that stores nothing.
LEMMA TypedFrame ==
    ASSUME Typed, case' = case, pc' \in {"write", "written", "read", "done", "view"}, next' \in Nat,
           file' = file, lost' = lost, missed' \subseteq Corners,
           Holds(Pipe, chunk0'), Holds(Pipe, chunk1')
    PROVE  Typed'
<1>1. Pipe' = Pipe /\ Corners' = Corners
    BY Settled
<1>2. FileTyped'
    BY <1>1 DEF Typed, FileTyped
<1>3. BuffersTyped'
    BY <1>1 DEF BuffersTyped
<1> QED
    BY <1>1, <1>2, <1>3 DEF Typed

LEMMA TypedWrite ==
    ASSUME Typed, WriteChunk
    PROVE  Typed'
<1> DEFINE j == Corner(WriteSplit, next)
<1>1. /\ pc = "write" /\ next \in 0 .. ChunkCount(WriteSplit) - 1
      /\ Holds(Pipe, chunk0') /\ Holds(Pipe, chunk1')
      /\ next' = next + 1 /\ case' = case /\ pc' = pc /\ memory' = memory /\ missed' = missed
    BY WriteStores
<1>2. PICK shrinks : Stores(j, Encoded(shrinks))
    BY WriteStores
<1> DEFINE e == Encoded(shrinks)
<1>3. Pipe' = Pipe /\ Corners' = Corners
    BY <1>1, Settled
<1>4. j \in Corners
    BY <1>1, CornersReached DEF Typed, Blocks, WriteSplit
<1>5. IsPipe(Pipe) /\ e.len \in Nat /\ e.len <= ScratchBound(Pipe.block)
    BY EncodedHolds, PipeIs DEF Typed
<1> HIDE DEF e, j
<1>6. WellStored(Pipe, Stored(Pipe, e))
    BY <1>5, StoredIs
<1>7. FileTyped' /\ lost' \subseteq Corners
  <2>1. CASE file' = [file EXCEPT ![j] = Stored(Pipe, e)] /\ lost' = lost
    <3>1. file = [k \in Corners |-> file[k]] /\ \A k \in Corners : WellStored(Pipe, file[k])
        BY DEF Typed, FileTyped
    <3>2. file' = [k \in Corners |-> IF k = j THEN Stored(Pipe, e) ELSE file[k]]
        BY <2>1, <3>1
    <3>3. \A k \in Corners : WellStored(Pipe, file'[k])
        BY <1>6, <3>1, <3>2
    <3>4. file' = [k \in Corners |-> file'[k]]
        BY <3>2
    <3> QED
        BY <1>3, <2>1, <3>3, <3>4 DEF FileTyped, Typed
  <2>2. CASE lost' = lost \cup {j} /\ file' = file
      BY <1>3, <1>4, <2>2 DEF FileTyped, Typed
  <2> QED
      BY <1>2, <2>1, <2>2 DEF Stores, e
<1>8. BuffersTyped'
    BY <1>1, <1>3 DEF BuffersTyped
<1> QED
    BY <1>1, <1>3, <1>7, <1>8 DEF Typed

LEMMA TypedNext ==
    ASSUME Typed, Next
    PROVE  Typed' /\ case' = case
<1>1. CASE WriteChunk
    BY <1>1, TypedWrite, WriteStores
<1>2. CASE ReadChunk
  <2> DEFINE j == Corner(ReadSplit, next)
  <2>1. /\ next \in 0 .. ChunkCount(ReadSplit) - 1 /\ Loads(j)
        /\ next' = next + 1 /\ case' = case /\ pc' = pc /\ file' = file /\ lost' = lost
      BY <1>2, ReadLoads
  <2>2. j \in Corners
      BY <2>1, CornersReached DEF Typed, Blocks, ReadSplit
  <2> HIDE DEF j
  <2>3. Holds(Pipe, chunk0') /\ Holds(Pipe, chunk1') /\ missed' \subseteq Corners
      BY <2>1, <2>2, LoadsKeeps
  <2>4. next' \in Nat /\ pc' \in {"write", "written", "read", "done", "view"}
      BY <2>1 DEF Typed
  <2> QED
      BY <2>1, <2>3, <2>4, TypedFrame
<1>3. CASE WriteReturns
  <2>1. Holds(Pipe, Scratch)
      BY FullHolds DEF Scratch, Typed
  <2>2. /\ case' = case /\ pc' = "written" /\ next' = 0 /\ file' = file /\ lost' = lost /\ missed' = missed
        /\ chunk0' = Scratch /\ chunk1' = Scratch /\ missed \subseteq Corners
      BY <1>3 DEF WriteReturns, Typed
  <2> QED
      BY <2>1, <2>2, TypedFrame
<1>4. CASE ReadBegins \/ ReadReturns \/ Ended
  <2>1. /\ case' = case /\ pc' \in {"write", "written", "read", "done", "view"} /\ next' = next
        /\ file' = file /\ lost' = lost /\ missed' = missed /\ chunk0' = chunk0 /\ chunk1' = chunk1
      BY <1>4 DEF ReadBegins, ReadReturns, Ended, vars
  <2>2. next \in Nat /\ missed \subseteq Corners /\ Holds(Pipe, chunk0) /\ Holds(Pipe, chunk1)
      BY DEF Typed, BuffersTyped
  <2> QED
      BY <2>1, <2>2, TypedFrame
<1> QED
    BY <1>1, <1>2, <1>3, <1>4 DEF Next

\* What the actions of a view have in common.
LEMMA ViewFrame ==
    ASSUME Typed, case.rank = 1, NEW o \in Nat, Buffers(o), case' = case, pc' = "view", next' = next,
           file' = file, lost' = lost
    PROVE  Typed' /\ missed \subseteq missed'
<1>1. Holds(Pipe, chunk0') /\ Holds(Pipe, chunk1') /\ missed \subseteq missed' /\ missed' \subseteq Corners
    BY BuffersKeep
<1>2. next' \in Nat
    BY DEF Typed
<1> QED
    BY <1>1, <1>2, TypedFrame

LEMMA TotalNat ==
    ASSUME case \in Cases
    PROVE  Total \in Nat /\ ChunkSize \in Nat \ {0}
BY CaseFacts DEF Total, ChunkSize, MaxRank

LEMMA TypedBegin ==
    ASSUME Typed, Viewed, NEW i \in Iterators, Begin(i)
    PROVE  Typed' /\ Viewed'
<1>1. /\ pc = "written" /\ case.rank = 1 /\ pc' = "view" /\ Buffers(0)
      /\ use' = [use EXCEPT ![i] = "full"] /\ offset' = offset
      /\ case' = case /\ next' = next /\ file' = file /\ lost' = lost
    BY DEF Begin
<1>2. Typed'
    BY <1>1, ViewFrame
<1>3. Viewed'
  <2>1. Total' = Total /\ Total \in Nat
      BY <1>1, Settled, TotalNat DEF Typed
  <2>2. \A k \in Iterators : offset[k] = 0
      BY <1>1 DEF Viewed
  <2> HIDE DEF Total
  <2> QED
      BY <1>1, <2>1, <2>2 DEF Viewed
<1> QED
    BY <1>2, <1>3

LEMMA TypedIncrement ==
    ASSUME Typed, Viewed, NEW i \in Iterators, Increment(i)
    PROVE  Typed' /\ Viewed'
<1>1. /\ use[i] = "full" /\ offset[i] < Total
      /\ offset' = [offset EXCEPT ![i] = @ + 1]
      /\ use' = [k \in Iterators |-> IF k = i THEN "full" ELSE "none"]
      /\ Buffers(offset[i] + 1)
      /\ case' = case /\ pc' = pc /\ next' = next /\ file' = file /\ lost' = lost
    BY DEF Increment
<1>2. pc = "view" /\ case.rank = 1 /\ offset[i] \in Nat
    BY <1>1 DEF Viewed
<1>3. Typed'
    BY <1>1, <1>2, ViewFrame
<1>4. Viewed'
  <2>1. Total' = Total /\ Total \in Nat
      BY <1>1, Settled, TotalNat DEF Typed
  <2> HIDE DEF Total
  <2>2. offset' \in [Iterators -> Nat] /\ use' \in [Iterators -> {"none", "full", "deref"}]
      BY <1>1 DEF Viewed
  <2>3. offset'[i] <= Total
      BY <1>1, <1>2, <2>1 DEF Viewed
  <2> QED
      BY <1>1, <1>2, <2>1, <2>2, <2>3 DEF Viewed
<1> QED
    BY <1>3, <1>4

LEMMA TypedPostIncrement ==
    ASSUME Typed, Viewed, NEW i \in Iterators, NEW k \in Iterators, PostIncrement(i, k)
    PROVE  Typed' /\ Viewed'
<1>1. /\ use[i] = "full" /\ offset[i] < Total /\ i # k
      /\ offset' = [offset EXCEPT ![i] = @ + 1, ![k] = offset[i]]
      /\ use' = [l \in Iterators |-> IF l = i THEN "full" ELSE IF l = k THEN "deref" ELSE "none"]
      /\ Buffers(offset[i] + 1)
      /\ case' = case /\ pc' = pc /\ next' = next /\ file' = file /\ lost' = lost
    BY DEF PostIncrement, Copied
<1>2. pc = "view" /\ case.rank = 1 /\ offset[i] \in Nat
    BY <1>1 DEF Viewed
<1>3. Typed'
    BY <1>1, <1>2, ViewFrame
<1>4. Viewed'
  <2>1. Total' = Total /\ Total \in Nat
      BY <1>1, Settled, TotalNat DEF Typed
  <2> HIDE DEF Total
  <2>2. offset' \in [Iterators -> Nat] /\ use' \in [Iterators -> {"none", "full", "deref"}]
      BY <1>1 DEF Viewed
  <2>3. offset'[i] <= Total /\ offset'[k] <= Total
      BY <1>1, <1>2, <2>1 DEF Viewed
  <2> QED
      BY <1>1, <1>2, <2>1, <2>2, <2>3 DEF Viewed
<1> QED
    BY <1>3, <1>4

LEMMA TypedCopy ==
    ASSUME Typed, Viewed, NEW i \in Iterators, NEW k \in Iterators, Copy(i, k)
    PROVE  Typed' /\ Viewed'
<1>1. /\ use[i] = "full" /\ i # k
      /\ offset' = [offset EXCEPT ![k] = offset[i]] /\ use' = [use EXCEPT ![k] = "full"]
      /\ case' = case /\ pc' = pc /\ next' = next /\ file' = file /\ lost' = lost
      /\ chunk0' = chunk0 /\ chunk1' = chunk1 /\ missed' = missed
    BY DEF Copy, Copied
<1>2. pc = "view" /\ case.rank = 1 /\ offset[i] \in Nat
    BY <1>1 DEF Viewed
<1>3. Typed'
  <2>1. next' \in Nat /\ missed' \subseteq Corners /\ Holds(Pipe, chunk0') /\ Holds(Pipe, chunk1')
        /\ pc' \in {"write", "written", "read", "done", "view"}
      BY <1>1 DEF Typed, BuffersTyped
  <2> QED
      BY <1>1, <2>1, TypedFrame
<1>4. Viewed'
  <2>1. Total' = Total /\ Total \in Nat
      BY <1>1, Settled, TotalNat DEF Typed
  <2> HIDE DEF Total
  <2>2. offset' \in [Iterators -> Nat] /\ use' \in [Iterators -> {"none", "full", "deref"}]
      BY <1>1 DEF Viewed
  <2>3. offset[i] <= Total
      BY <1>1 DEF Viewed
  <2> QED
      BY <1>1, <1>2, <2>1, <2>2, <2>3 DEF Viewed
<1> QED
    BY <1>3, <1>4

LEMMA ViewedNext ==
    ASSUME Typed, Viewed, Next, offset' = offset, use' = use
    PROVE  Viewed'
<1>1. case' = case
    BY TypedNext
<1>2. Total' = Total
    BY <1>1, Settled
<1>3. pc # "view" /\ pc' # "view"
    BY DEF Next, WriteChunk, WriteReturns, ReadBegins, ReadChunk, ReadReturns, Ended, vars
<1> HIDE DEF Total
<1> QED
    BY <1>1, <1>2, <1>3 DEF Viewed

LEMMA TypedStutter ==
    ASSUME Typed, Viewed, UNCHANGED viewVars
    PROVE  Typed' /\ Viewed'
<1>1. /\ case' = case /\ pc' = pc /\ next' = next /\ file' = file /\ chunk0' = chunk0 /\ chunk1' = chunk1
      /\ lost' = lost /\ missed' = missed /\ offset' = offset /\ use' = use
    BY DEF viewVars, vars
<1>2. Total' = Total
    BY <1>1, Settled
<1>3. Typed'
  <2>1. next' \in Nat /\ missed' \subseteq Corners /\ Holds(Pipe, chunk0') /\ Holds(Pipe, chunk1')
        /\ pc' \in {"write", "written", "read", "done", "view"}
      BY <1>1 DEF Typed, BuffersTyped
  <2> QED
      BY <1>1, <2>1, TypedFrame
<1> HIDE DEF Total
<1> QED
    BY <1>1, <1>2, <1>3 DEF Viewed

LEMMA TypedStep ==
    ASSUME Typed, Viewed, [ViewNext]_viewVars
    PROVE  Typed' /\ Viewed'
<1>1. CASE Next /\ UNCHANGED <<offset, use>>
    BY <1>1, TypedNext, ViewedNext
<1>2. CASE \E i \in Iterators : Begin(i) \/ Increment(i)
    BY <1>2, TypedBegin, TypedIncrement
<1>3. CASE \E i, k \in Iterators : Copy(i, k) \/ PostIncrement(i, k)
    BY <1>3, TypedCopy, TypedPostIncrement
<1>4. CASE ViewEnded \/ UNCHANGED viewVars
    BY <1>4, TypedStutter DEF ViewEnded
<1> QED
    BY <1>1, <1>2, <1>3, <1>4 DEF ViewNext

\* The type invariant: no chunk outgrows the buffers, whatever filters have
\* been applied, skipped or reversed, and no iterator leaves the dataset
\* (the room of H5Zpipeline.hpp:94-98 and the end of H5Dranges.hpp).
THEOREM ViewTypeCorrect == ViewSpec => []ViewTypeOK
<1>1. ViewInit => Typed /\ Viewed
    BY TypedInit
<1>2. Typed /\ Viewed /\ [ViewNext]_viewVars => (Typed /\ Viewed)'
    BY TypedStep
<1>3. Typed /\ Viewed => ViewTypeOK
    BY TypedIsTypeOK
<1> QED
    BY <1>1, <1>2, <1>3, PTL DEF ViewSpec

-----------------------------------------------------------------------------
(* What is stored. *)

\* The chunk s is what the chain has made of the bytes b.
Made(p, s, b) == \E K : Trail(p, s.mask, K, Len(p.chain)) /\ s.bytes = K[Len(p.chain)] /\ b = K[0]

\* The chunk does not exist, or it can be traced back, without a checksum to
\* what HDF5 reads.
Traceable(p, s) ==
    \/ s = Absent(p)
    \/ \E b : Made(p, s, b) /\ (NoChecksum(p) => s.plain = b)

\* What a pipeline is to find in the chunk s: what it was made of, and what HDF5
\* reads.
Content(p, s, b) == Made(p, s, b) \/ (NoChecksum(p) /\ b = s.plain)

FileSound == ShuffleSound(Pipe) => \A j \in Corners : Traceable(Pipe, file[j])

\* split_to_chunk_write has filled the chunk at j with the bytes b.
Cut(p, s, j, b) == \E c : Holds(p, c) /\ b = Prefix(Gather(s, j, c), p.block)

\* The chunk at j has been made of that, without a checksum HDF5 reads it.
FromBlock(p, s, j, chunk) ==
    \E b : Cut(p, s, j, b) /\ Made(p, chunk, b) /\ (NoChecksum(p) => chunk.plain = b)

Written ==
    WritesSound(Pipe, case.kind) =>
        \A k \in 0 .. ChunkCount(WriteSplit) - 1 :
            LET j == Corner(WriteSplit, k) IN
            (pc = "write" => k < next) => j \in lost \/ FromBlock(Pipe, WriteSplit, j, file[j])

LEMMA StoredTraces ==
    ASSUME NEW p, IsPipe(p), ShuffleSound(p), NEW e, NEW K, Traces(p, e, Len(p.chain), K)
    PROVE  Made(p, Stored(p, e), K[0]) /\ (NoChecksum(p) => Stored(p, e).plain = K[0])
<1> DEFINE n == Len(p.chain)
           s == Stored(p, e)
           chunk == [bytes |-> Prefix(e.src, e.len), mask |-> e.mask]
<1>0. n \in Nat
    BY PipeTypes
<1>1. /\ Trail(p, e.mask, K, n) /\ Len(K[n]) = e.len /\ SameBytes(e.src, K[n], e.len)
    BY DEF Traces
<1>2. IsBuffer(K[n], e.len) /\ e.len \in Nat
  <2>1. Sized(p, K, n)
      BY <1>0, <1>1 DEF Trail
  <2> QED
      BY <1>1, <2>1 DEF Sized, Fits
<1>3. Prefix(e.src, e.len) = K[n]
    BY <1>1, <1>2, PrefixOfSame
<1>4. s.bytes = K[n] /\ s.mask = e.mask /\ s.plain = HdfDecode(p, chunk)
    BY <1>3 DEF Stored
<1>5. chunk.bytes = K[n] /\ chunk.mask = e.mask
    BY <1>3
<1> HIDE DEF s, chunk
<1>6. NoChecksum(p) => HdfDecode(p, chunk) = K[0]
    BY <1>1, <1>5, HdfDecodeBack
<1> QED
    BY <1>1, <1>4, <1>6 DEF Made, s

LEMMA EncodedStores ==
    ASSUME Typed, ShuffleSound(Pipe), NEW shrinks
    PROVE  \E b : /\ Made(Pipe, Stored(Pipe, Encoded(shrinks)), b)
                  /\ NoChecksum(Pipe) => Stored(Pipe, Encoded(shrinks)).plain = b
                  /\ WritesSound(Pipe, case.kind) => b = Prefix(Filled, Pipe.block)
<1>1. /\ IsPipe(Pipe) /\ Holds(Pipe, Filled) /\ Holds(Pipe, chunk1) /\ case.kind \in {"basic", "pool"}
    BY FilledHolds, CaseFacts DEF Typed, BuffersTyped
<1> DEFINE p == Pipe
           c == Filled
           e == Encoded(shrinks)
           kind == case.kind
<1>2. e = IF kind = "pool" THEN EncodeInPool(p, c, shrinks) ELSE Encode(p, c, chunk1, shrinks)
    BY DEF Encoded
<1>3. IsPipe(p) /\ ShuffleSound(p) /\ Holds(p, c) /\ Holds(p, chunk1) /\ kind \in {"basic", "pool"}
    BY <1>1
<1> HIDE DEF p, c, e, kind
<1>4. PICK K : /\ Traces(p, e, Len(p.chain), K)
               /\ WritesSound(p, kind) => K[0] = Prefix(c, p.block)
    BY <1>2, <1>3, EncodeTracks
<1>5. Made(p, Stored(p, e), K[0]) /\ (NoChecksum(p) => Stored(p, e).plain = K[0])
    BY <1>3, <1>4, StoredTraces
<1> QED
    BY <1>4, <1>5 DEF p, c, e, kind

LEMMA FetchBack ==
    ASSUME Typed, FileSound, ReadsSound(Pipe), NEW j \in Corners, Exists(j),
           NEW b, Content(Pipe, file[j], b)
    PROVE  SameBytes(Fetch(j).src, b, Pipe.block)
<1> DEFINE p == Pipe
           n == Len(p.chain)
           bytes == file[j].bytes
           odd == n % 2 = 1
           c == IF odd THEN chunk0 ELSE Put(chunk0, bytes)
           d == IF odd THEN Put(chunk1, bytes) ELSE chunk1
           len == IF case.hdf5 >= 2 THEN Len(bytes) ELSE p.block
           mask == file[j].mask
<1>1. IsPipe(p) /\ Holds(p, chunk0) /\ Holds(p, chunk1) /\ p.hdf5 = case.hdf5 /\ p.chain = case.chain
      /\ case.hdf5 \in {1, 2}
    BY PipeIs, CaseFacts DEF Typed, BuffersTyped
<1>2. ShuffleSound(p)
    BY DEF ReadsSound
<1>3. PICK K : Trail(p, mask, K, n) /\ bytes = K[n] /\ b = K[0]
  <2>1. Made(p, file[j], b)
      BY <1>2 DEF FileSound, Traceable, Exists, Content
  <2> QED
      BY <2>1 DEF Made
<1>4. IsBuffer(bytes, Len(bytes)) /\ Len(bytes) \in Nat /\ Len(bytes) <= ScratchBound(p.block)
    BY DEF Typed, FileTyped, WellStored
<1>5. Fetch(j) = Decode(p, c, d, len, mask)
    BY <1>1 DEF Fetch
<1> HIDE DEF p
<1>6. n \in Nat /\ p.block \in Nat /\ p.block <= ScratchBound(p.block) /\ ScratchBound(p.block) \in Nat
    BY <1>1, PipeTypes
<1> HIDE DEF bytes, odd
<1>7. /\ Holds(p, Put(chunk0, bytes)) /\ SameBytes(Put(chunk0, bytes), bytes, Len(bytes))
      /\ Holds(p, Put(chunk1, bytes)) /\ SameBytes(Put(chunk1, bytes), bytes, Len(bytes))
  <2> DEFINE l == Len(bytes)
             m == ScratchBound(p.block)
  <2>1. IsBuffer(bytes, l) /\ l \in Nat /\ l <= m /\ m \in Nat /\ IsBuffer(chunk0, m) /\ IsBuffer(chunk1, m)
      BY <1>1, <1>4, <1>6 DEF Holds
  <2> HIDE DEF l, m
  <2>2. /\ IsBuffer(Put(chunk0, bytes), m) /\ SameBytes(Put(chunk0, bytes), bytes, l)
        /\ IsBuffer(Put(chunk1, bytes), m) /\ SameBytes(Put(chunk1, bytes), bytes, l)
      BY <2>1, PutKeeps
  <2> QED
      BY <2>2 DEF Holds, m, l
<1>8. Holds(p, c) /\ Holds(p, d) /\ SameBytes(IF odd THEN d ELSE c, bytes, Len(bytes))
  <2>1. CASE odd
      BY <1>1, <1>7, <2>1
  <2>2. CASE ~odd
      BY <1>1, <1>7, <2>2
  <2> QED
      BY <2>1, <2>2
<1>9. len \in Nat /\ len <= ScratchBound(p.block) /\ Taken(p, Len(bytes), len)
  <2>1. CASE case.hdf5 >= 2
      BY <1>4, <2>1 DEF Taken
  <2>2. CASE ~(case.hdf5 >= 2)
    <3>1. Positions(p, "fletcher32") = {}
        BY <1>1, <2>2 DEF ReadsSound, p
    <3>2. Sized(p, K, n)
        BY <1>3, <1>6 DEF Trail
    <3>3. Fits(p, n, Len(bytes))
        BY <1>3, <3>2 DEF Sized
    <3>4. Room(p, n) = p.block
      <4>1. \A k \in 1 .. n : p.chain[k] # "fletcher32"
          BY <1>1, <3>1, PipeTypes DEF Positions
      <4> QED
          BY <4>1 DEF Room
    <3>5. Len(bytes) <= p.block
        BY <3>3, <3>4 DEF Fits
    <3> QED
        BY <1>6, <2>2, <3>1, <3>5 DEF Taken
  <2> QED
      BY <2>1, <2>2
<1>10. ReadsSound(p)
    BY DEF p
<1>11. SameBytes(IF Len(p.chain) % 2 = 1 THEN d ELSE c, K[n], Len(K[n])) /\ Taken(p, Len(K[n]), len)
    BY <1>3, <1>8, <1>9 DEF odd
<1> HIDE DEF c, d, len, mask
<1>12. SameBytes(Decode(p, c, d, len, mask).src, K[0], p.block)
    BY <1>1, <1>3, <1>8, <1>9, <1>10, <1>11, DecodeBack
<1> QED
    BY <1>3, <1>5, <1>12 DEF p

LEMMA LoadsFind ==
    ASSUME Typed, FileSound, ReadsSound(Pipe), NEW j \in Corners, Loads(j),
           NEW b, Content(Pipe, file[j], b)
    PROVE  j \in missed' \/ SameBytes(chunk0', b, Pipe.block)
<1>1. CASE missed' = missed \cup {j}
    BY <1>1
<1>2. CASE Exists(j) /\ chunk0' = Fetch(j).src
    BY <1>2, FetchBack
<1> QED
    BY <1>1, <1>2 DEF Loads

\* A write that has just begun on what another has left.
LEMMA StoredInit ==
    ASSUME ViewInit
    PROVE  FileSound /\ Written
<1>0. IsPipe(Pipe) /\ case \in Cases
    BY PipeIs DEF ViewInit, Init
<1> DEFINE older == [src |-> Full(Older), len |-> Pipe.block, mask |-> {}]
<1>1. file = [j \in Corners |-> IF case.old THEN Stored(Pipe, older) ELSE Absent(Pipe)]
    BY DEF ViewInit, Init
<1>2. ASSUME ShuffleSound(Pipe), case.old PROVE Traceable(Pipe, Stored(Pipe, older))
  <2> DEFINE p == Pipe
             b == Prefix(Full(Older), p.block)
  <2>1. p.block \in Nat /\ Len(p.chain) = 0
    <3>1. Pipe.chain = <<>>
        BY <1>0, <1>2, CaseFacts, PipeIs
    <3> QED
        BY <1>0, <3>1, PipeTypes
  <2>2. older.src = Full(Older) /\ older.len = p.block /\ older.mask = {}
      OBVIOUS
  <2>5. IsPipe(p) /\ ShuffleSound(p)
      BY <1>0, <1>2
  <2> HIDE DEF older, p
  <2>3. IsBuffer(b, p.block) /\ Len(b) = p.block /\ SameBytes(older.src, b, p.block)
      BY <2>1, <2>2, PrefixIs DEF SameBytes
  <2> HIDE DEF b
  <2>4. PICK K : Trail(p, {}, K, 0) /\ K[0] = b
      BY <2>3, <2>5, TrailStarts
  <2>6. Traces(p, older, 0, K)
      BY <2>2, <2>3, <2>4 DEF Traces
  <2>7. Traceable(p, Stored(p, older))
      BY <2>1, <2>5, <2>6, StoredTraces DEF Traceable
  <2> QED
      BY <2>7 DEF p
<1> HIDE DEF older
<1>3. FileSound
  <2>1. ASSUME ShuffleSound(Pipe), NEW j \in Corners PROVE Traceable(Pipe, file[j])
    <3>1. CASE case.old
        BY <1>1, <1>2, <2>1, <3>1
    <3>2. CASE ~case.old
        BY <1>1, <3>2 DEF Traceable
    <3> QED
        BY <3>1, <3>2
  <2> QED
      BY <2>1 DEF FileSound
<1>4. Written
  <2>1. pc = "write" /\ next = 0
      BY DEF ViewInit, Init
  <2> QED
      BY <2>1 DEF Written
<1> QED
    BY <1>3, <1>4

LEMMA StoredWrite ==
    ASSUME Typed, FileSound, Written, WriteChunk
    PROVE  FileSound' /\ Written'
<1> DEFINE j == Corner(WriteSplit, next)
<1>1. /\ pc = "write" /\ next \in 0 .. ChunkCount(WriteSplit) - 1
      /\ next' = next + 1 /\ case' = case /\ pc' = pc
    BY WriteStores
<1>2. PICK shrinks : Stores(j, Encoded(shrinks))
    BY WriteStores
<1>3. Pipe' = Pipe /\ Corners' = Corners /\ WriteSplit' = WriteSplit
    BY <1>1, Settled
<1>4. file = [k \in Corners |-> file[k]] /\ j \in Corners
    BY <1>1, CornersReached DEF Typed, FileTyped, Blocks, WriteSplit
<1> DEFINE s == Stored(Pipe, Encoded(shrinks))
<1>5. /\ ShuffleSound(Pipe) => Traceable(Pipe, s)
      /\ WritesSound(Pipe, case.kind) => FromBlock(Pipe, WriteSplit, j, s)
  <2>1. ShuffleSound(Pipe) =>
            \E b : /\ Made(Pipe, s, b) /\ (NoChecksum(Pipe) => s.plain = b)
                   /\ WritesSound(Pipe, case.kind) => b = Prefix(Filled, Pipe.block)
      BY EncodedStores
  <2>2. WritesSound(Pipe, case.kind) => ShuffleSound(Pipe)
      BY DEF WritesSound
  <2>3. Holds(Pipe, chunk0)
      BY DEF Typed, BuffersTyped
  <2>4. Filled = Gather(WriteSplit, j, chunk0)
      BY DEF Filled
  <2>5. Cut(Pipe, WriteSplit, j, Prefix(Filled, Pipe.block))
      BY <2>3, <2>4 DEF Cut
  <2> HIDE DEF s, j
  <2> QED
      BY <2>1, <2>2, <2>5 DEF FromBlock, Traceable
<1>6. \/ file' = [file EXCEPT ![j] = s] /\ lost' = lost
      \/ lost' = lost \cup {j} /\ file' = file
    BY <1>2 DEF Stores
<1> HIDE DEF s
<1>7. FileSound'
  <2>1. ASSUME ShuffleSound(Pipe), NEW k \in Corners PROVE Traceable(Pipe, file'[k])
    <3>1. Traceable(Pipe, file[k])
        BY <2>1 DEF FileSound
    <3>2. file'[k] = file[k] \/ file'[k] = s
      <4> HIDE DEF j
      <4> QED
          BY <1>4, <1>6
    <3> QED
        BY <1>5, <2>1, <3>1, <3>2
  <2> QED
      BY <1>3, <2>1 DEF FileSound
<1>8. Written'
  <2>1. ASSUME WritesSound(Pipe, case.kind), NEW k \in 0 .. ChunkCount(WriteSplit) - 1, k < next + 1
        PROVE  LET i == Corner(WriteSplit, k) IN i \in lost' \/ FromBlock(Pipe, WriteSplit, i, file'[i])
    <3> DEFINE i == Corner(WriteSplit, k)
    <3>0. i \in Corners
        BY CornersReached DEF Typed, Blocks, WriteSplit
    <3>1. CASE i = j
      <4> HIDE DEF i, j
      <4>1. i \in lost' \/ FromBlock(Pipe, WriteSplit, i, file'[i])
        <5>1. CASE file' = [file EXCEPT ![j] = s]
          <6>1. file'[j] = s
              BY <1>4, <5>1
          <6> QED
              BY <1>5, <2>1, <3>1, <6>1
        <5>2. CASE lost' = lost \cup {j}
            BY <3>1, <5>2
        <5> QED
            BY <1>6, <5>1, <5>2
      <4> QED
          BY <4>1 DEF i
    <3>2. CASE i # j
      <4>1. k # next /\ next \in Nat
          BY <1>1, <3>2
      <4>2. k < next
          BY <2>1, <4>1
      <4>3. i \in lost \/ FromBlock(Pipe, WriteSplit, i, file[i])
          BY <2>1, <4>2 DEF Written
      <4> HIDE DEF i, j
      <4>4. file'[i] = file[i] /\ lost \subseteq lost'
          BY <1>4, <1>6, <3>0, <3>2
      <4> QED
          BY <4>3, <4>4 DEF i
    <3> QED
        BY <3>1, <3>2
  <2> QED
      BY <1>1, <1>3, <2>1 DEF Written
<1> QED
    BY <1>7, <1>8

LEMMA CountNat ==
    ASSUME case \in Cases
    PROVE  ChunkCount(WriteSplit) \in Nat /\ ChunkCount(ReadSplit) \in Nat
<1>1. IsSplit(WriteSplit) /\ IsSplit(ReadSplit)
    BY SplitsAre DEF Blocks, WriteSplit, ReadSplit
<1> HIDE DEF WriteSplit, ReadSplit
<1> QED
    BY <1>1, CeilsNat, MulNat DEF ChunkCount

\* A step that stores nothing, and that leaves the write when all chunks have
\* been visited.
LEMMA StoredFrame ==
    ASSUME Typed, FileSound, Written, case' = case, file' = file, lost' = lost,
           pc = "write" => (pc' = "write" /\ next' = next) \/ next = ChunkCount(WriteSplit),
           pc # "write" => pc' # "write"
    PROVE  FileSound' /\ Written'
<1>1. Pipe' = Pipe /\ Corners' = Corners /\ WriteSplit' = WriteSplit
    BY Settled
<1>2. FileSound'
    BY <1>1 DEF FileSound
<1>3. Written'
  <2>1. ASSUME WritesSound(Pipe, case.kind), NEW k \in 0 .. ChunkCount(WriteSplit) - 1, pc' = "write" => k < next'
        PROVE  LET i == Corner(WriteSplit, k) IN i \in lost \/ FromBlock(Pipe, WriteSplit, i, file[i])
    <3>0. ChunkCount(WriteSplit) \in Nat
        BY CountNat DEF Typed
    <3>1. pc = "write" => k < next
        BY <2>1, <3>0
    <3> QED
        BY <2>1, <3>1 DEF Written
  <2> QED
      BY <1>1, <2>1 DEF Written
<1> QED
    BY <1>2, <1>3

-----------------------------------------------------------------------------
(* What is read. *)

\* Element x of the caller's memory m is what its chunk has in the bytes b.
ReadAt(s, m, b, x) ==
    \A i \in 1 .. s.size : m[Linear(x, s.n) * s.size + i] = b[Slot(s, CornerOf(s, x), x) * s.size + i]

\* Nothing has been written behind the block.
Guarded(s, m) ==
    IsBuffer(m, TargetBytes(s)) /\ \A k \in 1 .. TargetBytes(s) : k > Volume(s.n) * s.size => m[k] = Untouched

\* The loops of a read have been at j: they have come to chunk n.
Visited(s, at, n, j) == at = "done" \/ \E k \in 0 .. ChunkCount(s) - 1 : k < n /\ Corner(s, k) = j

ReadSoFar ==
    /\ pc = "written" => next = 0
    /\ pc \in {"read", "done"} =>
          /\ Guarded(ReadSplit, memory)
          /\ ReadsSound(Pipe) =>
                \A x \in Box(case.read) :
                    Visited(ReadSplit, pc, next, CornerOf(ReadSplit, x)) /\ CornerOf(ReadSplit, x) \notin missed
                        => \A b : Content(Pipe, file[CornerOf(ReadSplit, x)], b) => ReadAt(ReadSplit, memory, b, x)

LEMMA ReadSplitIs ==
    ASSUME Typed
    PROVE  /\ IsSplit(ReadSplit) /\ ReadSplit.n = case.read /\ ReadSplit.b = case.b
           /\ ReadSplit.size = case.size /\ BlockBytes(ReadSplit) = Pipe.block /\ case.read \in Blocks
BY SplitsAre DEF Blocks, ReadSplit, Typed

\* Scatter takes every element of the chunk, and no other.
LEMMA ScatterReads ==
    ASSUME NEW s, IsSplit(s), NEW j, IsCorner(s, j), NEW chunk, NEW m, Guarded(s, m), NEW n,
           n = Scatter(s, j, chunk, m), NEW b
    PROVE  /\ Guarded(s, n)
           /\ \A x \in Box(s.n) :
                 IF CornerOf(s, x) = j
                 THEN SameBytes(chunk, b, BlockBytes(s)) => ReadAt(s, n, b, x)
                 ELSE ReadAt(s, m, b, x) => ReadAt(s, n, b, x)
<1> DEFINE N == RowCount(s, j)
<1>1. IsBuffer(m, TargetBytes(s)) /\ \A k \in 1 .. TargetBytes(s) : k > Volume(s.n) * s.size => m[k] = Untouched
    BY DEF Guarded
<1>2. Scattered(s, j, chunk, m, N, n)
    BY <1>1, ScatterIs
<1>3. /\ IsBuffer(n, TargetBytes(s))
      /\ \A x \in Box(s.n) : \A i \in 1 .. s.size :
            n[Linear(x, s.n) * s.size + i] =
                IF CornerOf(s, x) = j /\ RowOf(s, j, x) < N THEN chunk[Slot(s, j, x) * s.size + i]
                ELSE m[Linear(x, s.n) * s.size + i]
      /\ \A k \in 1 .. TargetBytes(s) : k > Volume(s.n) * s.size => n[k] = m[k]
    BY <1>2 DEF Scattered
<1>4. Guarded(s, n)
    BY <1>1, <1>3 DEF Guarded
<1> HIDE DEF N
<1>5. ASSUME NEW x \in Box(s.n), CornerOf(s, x) = j, SameBytes(chunk, b, BlockBytes(s))
      PROVE  ReadAt(s, n, b, x)
  <2>1. RowOf(s, j, x) < N /\ N \in Nat
      BY <1>5, RowIsReached, CornerHeights DEF N
  <2>2. ASSUME NEW i \in 1 .. s.size
        PROVE  n[Linear(x, s.n) * s.size + i] = b[Slot(s, CornerOf(s, x), x) * s.size + i]
    <3> DEFINE k == Slot(s, j, x) * s.size + i
    <3>1. k \in 1 .. BlockBytes(s)
      <4>1. Slot(s, j, x) \in 0 .. Volume(s.b) - 1 /\ Volume(s.b) \in Nat /\ s.size \in Nat \ {0}
          BY <1>5, SlotBelow, SplitTypes, VolumeNat DEF IsSplit
      <4> QED
          BY <4>1, ByteBelow DEF BlockBytes
    <3>2. n[Linear(x, s.n) * s.size + i] = chunk[k]
        BY <1>3, <1>5, <2>1
    <3> HIDE DEF k
    <3>3. chunk[k] = b[k]
        BY <1>5, <3>1 DEF SameBytes
    <3> QED
        BY <1>5, <3>2, <3>3 DEF k
  <2> QED
      BY <2>2 DEF ReadAt
<1>6. ASSUME NEW x \in Box(s.n), CornerOf(s, x) # j, ReadAt(s, m, b, x)
      PROVE  ReadAt(s, n, b, x)
    BY <1>3, <1>6 DEF ReadAt
<1> QED
    BY <1>4, <1>5, <1>6

LEMMA ReadChunkReads ==
    ASSUME Typed, FileSound, ReadSoFar, ReadChunk
    PROVE  ReadSoFar'
<1> DEFINE j == Corner(ReadSplit, next)
           s == ReadSplit
<1>1. /\ pc = "read" /\ next \in 0 .. ChunkCount(s) - 1 /\ Loads(j)
      /\ memory' = Scatter(s, j, chunk0', memory)
      /\ next' = next + 1 /\ case' = case /\ pc' = pc /\ file' = file /\ lost' = lost
    BY ReadLoads
<1>2. Pipe' = Pipe /\ Corners' = Corners /\ ReadSplit' = s
    BY <1>1, Settled
<1>3. IsSplit(s) /\ s.n = case.read /\ BlockBytes(s) = Pipe.block
    BY ReadSplitIs
<1>4. j \in Corners /\ IsCorner(s, j)
    BY <1>1, CornersReached DEF Typed, Blocks, ReadSplit
<1>5. Guarded(s, memory)
    BY <1>1 DEF ReadSoFar
<1>6. /\ missed \subseteq missed'
      /\ ReadsSound(Pipe) =>
            j \in missed' \/ \A b : Content(Pipe, file[j], b) => SameBytes(chunk0', b, Pipe.block)
  <2> HIDE DEF j
  <2> QED
      BY <1>1, <1>4, LoadsKeeps, LoadsFind
<1>7. /\ Guarded(s, memory')
      /\ \A b : \A x \in Box(s.n) :
            IF CornerOf(s, x) = j
            THEN SameBytes(chunk0', b, BlockBytes(s)) => ReadAt(s, memory', b, x)
            ELSE ReadAt(s, memory, b, x) => ReadAt(s, memory', b, x)
  <2> HIDE DEF j, s
  <2> QED
      BY <1>1, <1>3, <1>4, <1>5, ScatterReads
<1>8. ASSUME ReadsSound(Pipe), NEW x \in Box(case.read), Visited(s, pc', next', CornerOf(s, x)),
             CornerOf(s, x) \notin missed', NEW b, Content(Pipe, file[CornerOf(s, x)], b)
      PROVE  ReadAt(s, memory', b, x)
  <2>1. CASE CornerOf(s, x) = j
      BY <1>3, <1>6, <1>7, <1>8, <2>1
  <2>2. CASE CornerOf(s, x) # j
    <3> DEFINE c == CornerOf(s, x)
    <3>1. PICK k \in 0 .. ChunkCount(s) - 1 : k < next + 1 /\ Corner(s, k) = c
      <4>1. pc' # "done"
          BY <1>1
      <4>2. Visited(s, pc', next', c) <=> \E k \in 0 .. ChunkCount(s) - 1 : k < next + 1 /\ Corner(s, k) = c
          BY <1>1, <4>1, Zenon DEF Visited
      <4> QED
          BY <1>8, <4>2
    <3>2. k # next
        BY <2>2, <3>1
    <3>3. k < next
        BY <1>1, <3>1, <3>2
    <3>4. Visited(s, pc, next, c)
        BY <3>1, <3>3 DEF Visited
    <3>5. c \notin missed
        BY <1>6, <1>8
    <3>6. ReadAt(s, memory, b, x)
        BY <1>1, <1>8, <3>4, <3>5 DEF ReadSoFar
    <3> QED
        BY <1>3, <1>7, <2>2, <3>6
  <2> QED
      BY <2>1, <2>2
<1>9. ReadSoFar'
  <2>1. ReadsSound(Pipe)' <=> ReadsSound(Pipe)
      BY <1>2
  <2> HIDE DEF s, j
  <2>2. Guarded(ReadSplit, memory)' <=> Guarded(s, memory')
      BY <1>2
  <2>3. ASSUME ReadsSound(Pipe)'
        PROVE  \A x \in Box(case.read') :
                   Visited(ReadSplit', pc', next', CornerOf(ReadSplit', x)) /\ CornerOf(ReadSplit', x) \notin missed'
                       => \A b : Content(Pipe', file'[CornerOf(ReadSplit', x)], b)
                                     => ReadAt(ReadSplit', memory', b, x)
    <3>1. case.read' = case.read /\ ReadSplit' = s /\ file' = file /\ Pipe' = Pipe
        BY <1>1, <1>2
    <3> QED
        BY <1>8, <2>1, <2>3, <3>1
  <2> QED
      BY <1>1, <1>7, <2>2, <2>3 DEF ReadSoFar
<1> QED
    BY <1>9

LEMMA ReadSoFarNext ==
    ASSUME Typed, FileSound, ReadSoFar, Next
    PROVE  ReadSoFar'
<1>1. CASE WriteChunk
    BY <1>1 DEF WriteChunk, ReadSoFar
<1>2. CASE WriteReturns
    BY <1>2 DEF WriteReturns, ReadSoFar
<1>3. CASE ReadBegins
  <2>1. /\ pc = "written" /\ pc' = "read" /\ memory' = Target(ReadSplit) /\ next' = next
        /\ case' = case
      BY <1>3 DEF ReadBegins
  <2>2. next' = 0 /\ ReadSplit' = ReadSplit
      BY <2>1, Settled DEF ReadSoFar
  <2>3. Guarded(ReadSplit, memory')
    <3>1. IsSplit(ReadSplit)
        BY ReadSplitIs
    <3> HIDE DEF ReadSplit
    <3> QED
        BY <2>1, <3>1, TargetSize DEF Guarded
  <2>4. ASSUME NEW j PROVE ~Visited(ReadSplit, pc', next', j)
      BY <2>1, <2>2 DEF Visited
  <2> QED
      BY <2>1, <2>2, <2>3, <2>4 DEF ReadSoFar
<1>4. CASE ReadChunk
    BY <1>4, ReadChunkReads
<1>5. CASE ReadReturns
  <2>1. /\ pc = "read" /\ next = ChunkCount(ReadSplit) /\ pc' = "done" /\ next' = next
        /\ case' = case /\ memory' = memory /\ file' = file /\ missed' = missed
      BY <1>5 DEF ReadReturns
  <2>2. Pipe' = Pipe /\ ReadSplit' = ReadSplit
      BY <2>1, Settled
  <2>3. ASSUME NEW x \in Box(case.read) PROVE Visited(ReadSplit, pc, next, CornerOf(ReadSplit, x))
    <3>1. case \in Cases /\ case.read \in Blocks
        BY DEF Typed, Blocks
    <3>2. PICK k \in 0 .. ChunkCount(ReadSplit) - 1 : Corner(ReadSplit, k) = CornerOf(ReadSplit, x)
        BY <3>1, CornerIs DEF ReadSplit
    <3>3. ChunkCount(ReadSplit) \in Nat
        BY <3>1, CountNat
    <3> QED
        BY <2>1, <3>2, <3>3 DEF Visited
  <2>4. /\ Guarded(ReadSplit, memory)
        /\ ReadsSound(Pipe) =>
              \A x \in Box(case.read) : CornerOf(ReadSplit, x) \notin missed =>
                  \A b : Content(Pipe, file[CornerOf(ReadSplit, x)], b) => ReadAt(ReadSplit, memory, b, x)
      BY <2>1, <2>3 DEF ReadSoFar
  <2> HIDE DEF ReadSplit, Pipe
  <2> QED
      BY <2>1, <2>2, <2>4 DEF ReadSoFar
<1>6. CASE Ended
  <2>1. pc' = pc /\ next' = next /\ case' = case /\ memory' = memory /\ file' = file /\ missed' = missed
      BY <1>6 DEF Ended, vars
  <2>2. Pipe' = Pipe /\ ReadSplit' = ReadSplit
      BY <2>1, Settled
  <2> HIDE DEF ReadSplit, Pipe
  <2> QED
      BY <2>1, <2>2 DEF ReadSoFar
<1> QED
    BY <1>1, <1>2, <1>3, <1>4, <1>5, <1>6 DEF Next

-----------------------------------------------------------------------------
(* What is iterated over. *)

\* What an iterator at o refers to, of which the program may make use u, is in
\* the buffer c, unless it is among the missed chunks m.
Refers(o, u, m, c) ==
    u # "none" /\ o < Total /\ ~(u = "deref" /\ EntersChunk(o + 1)) /\ ChunkHead(o) \notin m
        => SameBytes(c, file[ChunkHead(o)].plain, Pipe.block)

ViewSound ==
    pc = "view" /\ ReadsSound(Pipe) /\ NoChecksum(Pipe) =>
        \A i \in Iterators : Refers(offset[i], use[i], missed, chunk0)

\* An iterator that has come to o finds its chunk in the buffer.
LEMMA BuffersFind ==
    ASSUME Typed, FileSound, ReadsSound(Pipe), NoChecksum(Pipe), case.rank = 1, NEW o \in Nat, Buffers(o), EntersChunk(o)
    PROVE  ChunkHead(o) \in missed' \/ SameBytes(chunk0', file[ChunkHead(o)].plain, Pipe.block)
<1> DEFINE j == ChunkHead(o)
<1>1. j \in Corners /\ Loads(j)
    BY BuffersLoad
<1> HIDE DEF j
<1>2. j \in missed' \/ SameBytes(chunk0', file[j].plain, Pipe.block)
    BY <1>1, LoadsFind DEF Content
<1> QED
    BY <1>2 DEF j

\* Within a chunk the head stays.
LEMMA HeadStays ==
    ASSUME case \in Cases, NEW o \in Nat, o + 1 < Total, ~EntersChunk(o + 1)
    PROVE  ChunkHead(o + 1) = ChunkHead(o)
<1> DEFINE b == ChunkSize
           q == o \div b
           r == o % b
           m == o + 1
<1>1. b \in Nat \ {0} /\ m \in Nat /\ o \in Int
    BY TotalNat
<1>2. m % b # 0
    BY DEF EntersChunk
<1> HIDE DEF b
<1>3. q \in Int /\ r \in 0 .. b - 1 /\ o = q * b + r
    BY <1>1, DivMod
<1> HIDE DEF q, r
<1>4. q * b \in Int /\ m = q * b + r + 1
    BY <1>1, <1>3 DEF m
<1> HIDE DEF m
<1>5. CASE r = b - 1
  <2> DEFINE p == q + 1
  <2>1. p * b = q * b + b
      BY <1>1, <1>3
  <2>2. m = p * b + 0 /\ p \in Int /\ 0 \in 0 .. b - 1
      BY <1>1, <1>3, <1>4, <1>5, <2>1
  <2> HIDE DEF p
  <2>3. m % b = 0
      BY <1>1, <2>2, DivModOf
  <2> QED
      BY <1>2, <2>3
<1>6. CASE r # b - 1
  <2> DEFINE t == r + 1
  <2>1. t \in 0 .. b - 1 /\ m = q * b + t
      BY <1>1, <1>3, <1>4, <1>6
  <2> HIDE DEF t
  <2>2. m \div b = q
      BY <1>1, <1>3, <2>1, DivModOf
  <2> QED
      BY <2>2 DEF ChunkHead, q, b, m
<1> QED
    BY <1>5, <1>6

LEMMA RefersPrimed ==
    ASSUME case' = case, file' = file,
           pc' = "view" /\ ReadsSound(Pipe) /\ NoChecksum(Pipe) =>
               \A i \in Iterators : Refers(offset'[i], use'[i], missed', chunk0')
    PROVE  ViewSound'
<1>1. Pipe' = Pipe /\ Total' = Total /\ ChunkSize' = ChunkSize
    BY Settled
<1>2. ASSUME NEW o PROVE ChunkHead(o)' = ChunkHead(o) /\ EntersChunk(o)' = EntersChunk(o)
    BY <1>1 DEF ChunkHead, EntersChunk
<1>3. \A i \in Iterators :
          Refers(offset[i], use[i], missed, chunk0)' <=> Refers(offset'[i], use'[i], missed', chunk0')
  <2> HIDE DEF Pipe, Total, ChunkSize
  <2> QED
      BY <1>1, Zenon DEF Refers, ChunkHead, EntersChunk
<1>4. /\ ReadsSound(Pipe)' <=> ReadsSound(Pipe)
      /\ NoChecksum(Pipe)' <=> NoChecksum(Pipe)
    BY <1>1
<1> QED
    BY <1>3, <1>4 DEF ViewSound

\* The first chunk has been loaded.
LEMMA RefersFirst ==
    ASSUME Typed, FileSound, ReadsSound(Pipe), NoChecksum(Pipe), case.rank = 1, Buffers(0)
    PROVE  Refers(0, "full", missed', chunk0')
<1>1. Total \in Nat /\ ChunkSize \in Nat \ {0}
    BY TotalNat DEF Typed
<1>2. 0 < Total => EntersChunk(0)
  <2> DEFINE b == ChunkSize
  <2>1. b \in Nat \ {0}
      BY <1>1
  <2> HIDE DEF b
  <2>2. 0 % b = 0
      BY <2>1
  <2> QED
      BY <2>2 DEF EntersChunk, b
<1>3. EntersChunk(0) => ChunkHead(0) \in missed' \/ SameBytes(chunk0', file[ChunkHead(0)].plain, Pipe.block)
    BY BuffersFind
<1> QED
    BY <1>2, <1>3 DEF Refers

\* An iterator has moved on from o: it refers to the next element, and the copy
\* it++ has returned to the one before, if the chunk is still the same.
LEMMA RefersNext ==
    ASSUME Typed, FileSound, ReadsSound(Pipe), NoChecksum(Pipe), case.rank = 1, NEW o \in Nat, o < Total, Buffers(o + 1),
           Refers(o, "full", missed, chunk0)
    PROVE  Refers(o + 1, "full", missed', chunk0') /\ Refers(o, "deref", missed', chunk0')
<1>1. CASE EntersChunk(o + 1)
  <2>1. ChunkHead(o + 1) \in missed' \/ SameBytes(chunk0', file[ChunkHead(o + 1)].plain, Pipe.block)
      BY <1>1, BuffersFind
  <2> QED
      BY <1>1, <2>1 DEF Refers
<1>2. CASE ~EntersChunk(o + 1)
  <2>1. chunk0' = chunk0 /\ missed' = missed
      BY <1>2, BuffersLoad
  <2>2. Refers(o, "deref", missed, chunk0)
      BY DEF Refers
  <2>3. Refers(o + 1, "full", missed, chunk0)
    <3>1. o + 1 < Total => ChunkHead(o + 1) = ChunkHead(o)
        BY <1>2, HeadStays DEF Typed
    <3> QED
        BY <3>1 DEF Refers
  <2> QED
      BY <2>1, <2>2, <2>3
<1> QED
    BY <1>1, <1>2

LEMMA ViewSoundStep ==
    ASSUME Typed, Viewed, FileSound, ViewSound, [ViewNext]_viewVars
    PROVE  ViewSound'
<1>1. CASE Next /\ UNCHANGED <<offset, use>>
    BY <1>1 DEF Next, WriteChunk, WriteReturns, ReadBegins, ReadChunk, ReadReturns, Ended, vars, ViewSound
<1>2. ASSUME NEW i \in Iterators, Begin(i)
      PROVE  ViewSound'
  <2>1. /\ pc = "written" /\ case.rank = 1 /\ Buffers(0) /\ use' = [use EXCEPT ![i] = "full"]
        /\ offset' = offset /\ case' = case /\ file' = file
      BY <1>2 DEF Begin
  <2>2. ASSUME ReadsSound(Pipe), NoChecksum(Pipe), NEW k \in Iterators
        PROVE  Refers(offset'[k], use'[k], missed', chunk0')
    <3>1. offset'[k] = 0 /\ use'[k] \in {"none", "full"}
        BY <2>1 DEF Viewed
    <3>2. Refers(0, "full", missed', chunk0')
        BY <2>1, <2>2, RefersFirst
    <3>3. Refers(0, "none", missed', chunk0')
        BY DEF Refers
    <3> QED
        BY <3>1, <3>2, <3>3
  <2> QED
      BY <2>1, <2>2, RefersPrimed
<1>3. ASSUME NEW i \in Iterators, Increment(i)
      PROVE  ViewSound'
  <2>1. /\ use[i] = "full" /\ offset[i] < Total /\ offset' = [offset EXCEPT ![i] = @ + 1]
        /\ use' = [k \in Iterators |-> IF k = i THEN "full" ELSE "none"]
        /\ Buffers(offset[i] + 1) /\ case' = case /\ pc' = pc /\ file' = file
      BY <1>3 DEF Increment
  <2>2. pc = "view" /\ case.rank = 1 /\ offset[i] \in Nat
      BY <2>1 DEF Viewed
  <2>3. ASSUME ReadsSound(Pipe), NoChecksum(Pipe), NEW k \in Iterators
        PROVE  Refers(offset'[k], use'[k], missed', chunk0')
    <3>1. Refers(offset[i], "full", missed, chunk0)
        BY <2>1, <2>2, <2>3 DEF ViewSound
    <3>2. Refers(offset[i] + 1, "full", missed', chunk0')
        BY <2>1, <2>2, <2>3, <3>1, RefersNext
    <3>3. IF k = i THEN use'[k] = "full" /\ offset'[k] = offset[i] + 1 ELSE use'[k] = "none"
        BY <2>1 DEF Viewed
    <3>4. k # i => Refers(offset'[k], use'[k], missed', chunk0')
        BY <3>3 DEF Refers
    <3> QED
        BY <3>2, <3>3, <3>4
  <2> QED
      BY <2>1, <2>3, RefersPrimed
<1>4. ASSUME NEW i \in Iterators, NEW k \in Iterators, Copy(i, k)
      PROVE  ViewSound'
  <2>1. /\ use[i] = "full" /\ i # k /\ offset' = [offset EXCEPT ![k] = offset[i]]
        /\ use' = [use EXCEPT ![k] = "full"] /\ case' = case /\ pc' = pc /\ file' = file
        /\ chunk0' = chunk0 /\ missed' = missed
      BY <1>4 DEF Copy, Copied
  <2>2. ASSUME pc = "view", ReadsSound(Pipe), NoChecksum(Pipe), NEW l \in Iterators
        PROVE  Refers(offset'[l], use'[l], missed', chunk0')
    <3>1. \/ offset'[l] = offset[l] /\ use'[l] = use[l]
          \/ offset'[l] = offset[i] /\ use'[l] = use[i]
        BY <2>1 DEF Viewed
    <3>2. Refers(offset[l], use[l], missed, chunk0) /\ Refers(offset[i], use[i], missed, chunk0)
        BY <2>2 DEF ViewSound
    <3> QED
        BY <2>1, <3>1, <3>2
  <2> QED
      BY <2>1, <2>2, RefersPrimed
<1>5. ASSUME NEW i \in Iterators, NEW k \in Iterators, PostIncrement(i, k)
      PROVE  ViewSound'
  <2>1. /\ use[i] = "full" /\ offset[i] < Total /\ i # k
        /\ offset' = [offset EXCEPT ![i] = @ + 1, ![k] = offset[i]]
        /\ use' = [l \in Iterators |-> IF l = i THEN "full" ELSE IF l = k THEN "deref" ELSE "none"]
        /\ Buffers(offset[i] + 1) /\ case' = case /\ pc' = pc /\ file' = file
      BY <1>5 DEF PostIncrement, Copied
  <2>2. pc = "view" /\ case.rank = 1 /\ offset[i] \in Nat
      BY <2>1 DEF Viewed
  <2>3. ASSUME ReadsSound(Pipe), NoChecksum(Pipe), NEW l \in Iterators
        PROVE  Refers(offset'[l], use'[l], missed', chunk0')
    <3>1. Refers(offset[i], "full", missed, chunk0)
        BY <2>1, <2>2, <2>3 DEF ViewSound
    <3>2. Refers(offset[i] + 1, "full", missed', chunk0') /\ Refers(offset[i], "deref", missed', chunk0')
        BY <2>1, <2>2, <2>3, <3>1, RefersNext
    <3>3. \/ offset'[l] = offset[i] + 1 /\ use'[l] = "full"
          \/ offset'[l] = offset[i] /\ use'[l] = "deref"
          \/ use'[l] = "none"
        BY <2>1 DEF Viewed
    <3>4. use'[l] = "none" => Refers(offset'[l], use'[l], missed', chunk0')
        BY DEF Refers
    <3> QED
        BY <3>2, <3>3, <3>4
  <2> QED
      BY <2>1, <2>3, RefersPrimed
<1>6. CASE ViewEnded \/ UNCHANGED viewVars
  <2>1. /\ case' = case /\ pc' = pc /\ file' = file /\ chunk0' = chunk0
        /\ missed' = missed /\ offset' = offset /\ use' = use
      BY <1>6 DEF viewVars, vars, ViewEnded
  <2>2. pc' = "view" /\ ReadsSound(Pipe) /\ NoChecksum(Pipe) =>
            \A i \in Iterators : Refers(offset'[i], use'[i], missed', chunk0')
    <3> HIDE DEF Pipe
    <3> QED
        BY <2>1 DEF ViewSound
  <2> QED
      BY <2>1, <2>2, RefersPrimed
<1> QED
    BY <1>1, <1>2, <1>3, <1>4, <1>5, <1>6 DEF ViewNext

-----------------------------------------------------------------------------
(* The inductive invariant. *)

Invariant == Typed /\ Viewed /\ FileSound /\ Written /\ ReadSoFar /\ ViewSound

LEMMA InvariantInit ==
    ASSUME ViewInit
    PROVE  Invariant
<1>1. pc = "write"
    BY DEF ViewInit, Init
<1>2. ReadSoFar /\ ViewSound
    BY <1>1 DEF ReadSoFar, ViewSound
<1> QED
    BY <1>2, TypedInit, StoredInit DEF Invariant

\* Only a write changes what is stored.
LEMMA StoredStep ==
    ASSUME Typed, Viewed, FileSound, Written, [ViewNext]_viewVars
    PROVE  FileSound' /\ Written'
<1>1. CASE WriteChunk
    BY <1>1, StoredWrite
<1>2. CASE WriteReturns
  <2>1. case' = case /\ file' = file /\ lost' = lost /\ pc = "write" /\ next = ChunkCount(WriteSplit)
      BY <1>2 DEF WriteReturns
  <2> QED
      BY <2>1, StoredFrame
<1>3. CASE (ReadBegins \/ ReadChunk \/ ReadReturns \/ Ended) \/ UNCHANGED viewVars
  <2>1. /\ case' = case /\ file' = file /\ lost' = lost
        /\ pc = "write" => pc' = "write" /\ next' = next
        /\ pc # "write" => pc' # "write"
      BY <1>3 DEF ReadBegins, ReadChunk, ReadReturns, Ended, vars, viewVars
  <2> QED
      BY <2>1, StoredFrame
<1>4. CASE ViewEnded \/ (\E i \in Iterators : Begin(i) \/ Increment(i)) \/ (\E i, k \in Iterators : Copy(i, k) \/ PostIncrement(i, k))
  <2>1. case' = case /\ file' = file /\ lost' = lost /\ pc # "write" /\ pc' # "write"
    <3>1. CASE ViewEnded
        BY <3>1 DEF ViewEnded, viewVars, vars
    <3>2. ASSUME NEW i \in Iterators, Begin(i)
          PROVE  case' = case /\ file' = file /\ lost' = lost /\ pc # "write" /\ pc' # "write"
        BY <3>2 DEF Begin
    <3>3. ASSUME NEW i \in Iterators, Increment(i)
          PROVE  case' = case /\ file' = file /\ lost' = lost /\ pc # "write" /\ pc' # "write"
        BY <3>3 DEF Increment, Viewed
    <3>4. ASSUME NEW i \in Iterators, NEW k \in Iterators, Copy(i, k) \/ PostIncrement(i, k)
          PROVE  case' = case /\ file' = file /\ lost' = lost /\ pc # "write" /\ pc' # "write"
        BY <3>4 DEF Copy, PostIncrement, Copied, Viewed
    <3> QED
        BY <1>4, <3>1, <3>2, <3>3, <3>4
  <2> QED
      BY <2>1, StoredFrame
<1> QED
    BY <1>1, <1>2, <1>3, <1>4 DEF ViewNext, Next

\* An iteration reads into no memory of the caller.
LEMMA ReadSoFarStep ==
    ASSUME Typed, Viewed, FileSound, ReadSoFar, [ViewNext]_viewVars
    PROVE  ReadSoFar'
<1>1. CASE Next
    BY <1>1, ReadSoFarNext
<1>2. CASE UNCHANGED viewVars
  <2>1. UNCHANGED vars
      BY <1>2 DEF viewVars
  <2>2. pc' = pc /\ next' = next /\ case' = case /\ memory' = memory /\ file' = file /\ missed' = missed
      BY <2>1 DEF vars
  <2>3. Pipe' = Pipe /\ ReadSplit' = ReadSplit
      BY <2>2, Settled
  <2> HIDE DEF ReadSplit, Pipe
  <2> QED
      BY <2>2, <2>3 DEF ReadSoFar
<1>3. CASE ViewEnded \/ (\E i \in Iterators : Begin(i) \/ Increment(i)) \/ (\E i, k \in Iterators : Copy(i, k) \/ PostIncrement(i, k))
  <2>1. pc' = "view"
    <3>1. CASE ViewEnded
        BY <3>1 DEF ViewEnded, viewVars, vars
    <3>2. ASSUME NEW i \in Iterators, Begin(i) PROVE pc' = "view"
        BY <3>2 DEF Begin
    <3>3. ASSUME NEW i \in Iterators, Increment(i) PROVE pc' = "view"
        BY <3>3 DEF Increment, Viewed
    <3>4. ASSUME NEW i \in Iterators, NEW k \in Iterators, Copy(i, k) \/ PostIncrement(i, k) PROVE pc' = "view"
        BY <3>4 DEF Copy, PostIncrement, Copied, Viewed
    <3> QED
        BY <1>3, <3>1, <3>2, <3>3, <3>4
  <2> QED
      BY <2>1 DEF ReadSoFar
<1> QED
    BY <1>1, <1>2, <1>3 DEF ViewNext

LEMMA InvariantStep ==
    ASSUME Invariant, [ViewNext]_viewVars
    PROVE  Invariant'
<1>1. Typed /\ Viewed /\ FileSound /\ Written /\ ReadSoFar /\ ViewSound
    BY DEF Invariant
<1>2. Typed' /\ Viewed' /\ FileSound' /\ Written' /\ ReadSoFar' /\ ViewSound'
    BY <1>1, TypedStep, StoredStep, ReadSoFarStep, ViewSoundStep
<1> QED
    BY <1>2 DEF Invariant

-----------------------------------------------------------------------------
(* What HDF5 finds. *)

LEMMA ElementIs ==
    ASSUME NEW s, s.size \in Nat \ {0}, NEW bytes, NEW place \in Int
    PROVE  Element(s, bytes, place) = [k \in 1 .. s.size |-> bytes[place * s.size + k]]
<1> DEFINE size == s.size
           q == place * size
<1>1. size \in Nat /\ q \in Int
    OBVIOUS
<1>2. (place + 1) * size = q + size
    OBVIOUS
<1>3. Element(s, bytes, place) = SubSeq(bytes, q + 1, q + size)
    BY <1>2 DEF Element
<1> HIDE DEF q, size
<1> DEFINE l == q + 1
           m == q + size
<1>4. l \in Int /\ m \in Int /\ m - l + 1 = size /\ \A k \in 1 .. size : k + l - 1 = q + k
    BY <1>1
<1>5. Element(s, bytes, place) = SubSeq(bytes, l, m)
    BY <1>3
<1> HIDE DEF l, m
<1>6. SubSeq(bytes, l, m) = [k \in 1 .. m - l + 1 |-> bytes[k + l - 1]]
    BY <1>4, SubSeqIs
<1>7. Element(s, bytes, place) = [k \in 1 .. size |-> bytes[q + k]]
    BY <1>4, <1>5, <1>6
<1> QED
    BY <1>7 DEF q, size

LEMMA ModNat ==
    ASSUME NEW a \in Nat, NEW b \in Nat \ {0}
    PROVE  a % b \in Nat
BY DivMod

LEMMA PlaceNat ==
    ASSUME NEW s, IsSplit(s), NEW x \in Box(s.n)
    PROVE  PlaceOf(s, x) \in Nat
<1>1. /\ x[1] \in Nat /\ x[2] \in Nat /\ x[3] \in Nat
      /\ s.b[1] \in Nat \ {0} /\ s.b[2] \in Nat \ {0} /\ s.b[3] \in Nat \ {0}
    BY SplitTypes DEF Box
<1> DEFINE y1 == x[1] % s.b[1]
           y2 == x[2] % s.b[2]
           y3 == x[3] % s.b[3]
<1>2. y1 \in Nat /\ y2 \in Nat /\ y3 \in Nat
    BY <1>1, ModNat
<1>3. PlaceOf(s, x) = (y3 * s.b[2] + y2) * s.b[1] + y1
    BY DEF PlaceOf, Linear, MaxRank
<1> HIDE DEF y1, y2, y3
<1>4. y3 * s.b[2] \in Nat
    BY <1>1, <1>2, MulNat
<1>5. y3 * s.b[2] + y2 \in Nat
    BY <1>2, <1>4
<1>6. (y3 * s.b[2] + y2) * s.b[1] \in Nat
    BY <1>1, <1>5, MulNat
<1> QED
    BY <1>2, <1>3, <1>6

\* Element x of the dataset, for what is in the chunks f.
Found(f, x) ==
    LET s == SplitOf(case.extent) IN ElementIn(s, f[CornerOf(s, x)].plain, x)

\* It is to be found where any of the blocks has it.
LEMMA FoundIs ==
    ASSUME case \in Cases, NEW n \in Blocks, NEW x \in Box(n), NEW f
    PROVE  Found(f, x) = [k \in 1 .. case.size |->
               f[CornerOf(SplitOf(n), x)].plain[PlaceOf(SplitOf(n), x) * case.size + k]]
<1> DEFINE s == SplitOf(case.extent)
           t == SplitOf(n)
<1>0. case.extent \in Blocks
    BY DEF Blocks
<1>1. /\ IsSplit(s) /\ s.n = case.extent /\ s.b = case.b /\ s.size = case.size
      /\ t.b = case.b
    BY <1>0, SplitsAre
<1>2. x \in Box(case.extent)
    BY BoxGrows
<1>3. Found(f, x) = Element(s, f[CornerOf(s, x)].plain, PlaceOf(s, x))
    BY DEF Found, ElementIn
<1> HIDE DEF s, t
<1>4. CornerOf(s, x) = CornerOf(t, x) /\ PlaceOf(s, x) = PlaceOf(t, x)
    BY <1>1 DEF CornerOf, PlaceOf
<1>5. PlaceOf(s, x) \in Int
    BY <1>1, <1>2, PlaceNat
<1>6. Found(f, x) = [k \in 1 .. s.size |-> f[CornerOf(s, x)].plain[PlaceOf(s, x) * s.size + k]]
  <2> DEFINE bytes == f[CornerOf(s, x)].plain
             q == PlaceOf(s, x)
  <2>1. s.size \in Nat \ {0}
      BY <1>1, CaseFacts
  <2>2. q \in Int /\ Found(f, x) = Element(s, bytes, q)
      BY <1>3, <1>5
  <2> HIDE DEF bytes, q
  <2>3. Element(s, bytes, q) = [k \in 1 .. s.size |-> bytes[q * s.size + k]]
      BY <2>1, <2>2, ElementIs
  <2> QED
      BY <2>2, <2>3 DEF bytes, q
<1> QED
    BY <1>1, <1>4, <1>6 DEF s, t

LEMMA ArrayIs ==
    ASSUME case \in Cases, NEW n \in Blocks, NEW x \in Box(n)
    PROVE  Array[x] = [k \in 1 .. case.size |->
               file[CornerOf(SplitOf(n), x)].plain[PlaceOf(SplitOf(n), x) * case.size + k]]
<1>1. x \in Box(case.extent)
    BY BoxGrows
<1>2. Array[x] = Found(file, x)
    BY <1>1 DEF Array, Found
<1> QED
    BY <1>2, FoundIs

\* What a complete read has delivered.
LEMMA ReadDone ==
    ASSUME Invariant, pc = "done", ReadsSound(Pipe), NEW x \in Box(case.read),
           CornerOf(ReadSplit, x) \notin missed, NEW b, Content(Pipe, file[CornerOf(ReadSplit, x)], b)
    PROVE  \A i \in 1 .. case.size :
               memory[Linear(x, case.read) * case.size + i] =
                   b[Slot(ReadSplit, CornerOf(ReadSplit, x), x) * case.size + i]
<1>1. ReadAt(ReadSplit, memory, b, x)
    BY DEF Invariant, ReadSoFar, Visited
<1>2. ReadSplit.n = case.read /\ ReadSplit.size = case.size
    BY ReadSplitIs DEF Invariant
<1> QED
    BY <1>1, <1>2 DEF ReadAt

LEMMA ReadAgreesInvariant ==
    ASSUME Invariant
    PROVE  ReadAgrees
<1>0. /\ case \in Cases /\ case.read \in Blocks /\ IsSplit(ReadSplit)
      /\ ReadSplit.n = case.read /\ ReadSplit.size = case.size
    BY ReadSplitIs DEF Invariant, Typed
<1>1. ASSUME pc = "done", ReadsSound(Pipe), ~Packed(ReadSplit), NoChecksum(Pipe), NEW x \in Box(case.read),
             CornerOf(ReadSplit, x) \notin missed
      PROVE  Delivered(x) = Array[x]
  <2> DEFINE j == CornerOf(ReadSplit, x)
             bytes == file[j].plain
             q == PlaceOf(ReadSplit, x)
  <2>1. Delivered(x) = [k \in 1 .. case.size |-> memory[Linear(x, case.read) * case.size + k]]
      BY DEF Delivered, ElementAt
  <2>2. Array[x] = [k \in 1 .. case.size |-> bytes[q * case.size + k]]
      BY <1>0, ArrayIs DEF ReadSplit
  <2>3. Slot(ReadSplit, j, x) = q
      BY <1>0, <1>1, SlotIsPlace
  <2>4. \A i \in 1 .. case.size :
            memory[Linear(x, case.read) * case.size + i] = bytes[q * case.size + i]
    <3>1. Content(Pipe, file[j], bytes)
        BY <1>1 DEF Content
    <3> HIDE DEF bytes
    <3> QED
        BY <1>1, <2>3, <3>1, ReadDone
  <2> HIDE DEF j, q, bytes
  <2> QED
      BY <2>1, <2>2, <2>4
<1>2. ASSUME pc = "done", NEW k \in DOMAIN memory, k > Volume(case.read) * case.size
      PROVE  memory[k] = Untouched
  <2>1. Guarded(ReadSplit, memory) /\ TargetBytes(ReadSplit) \in Nat
      BY <1>0, <1>2, TargetSize DEF Invariant, ReadSoFar
  <2>2. k \in 1 .. TargetBytes(ReadSplit)
      BY <2>1, BufferDomain DEF Guarded
  <2> QED
      BY <1>0, <1>2, <2>1, <2>2 DEF Guarded
<1> QED
    BY <1>1, <1>2 DEF ReadAgrees

\* A read delivers each element of a chunk it could fetch as HDF5 would, in its
\* place, whatever filters were applied, skipped or masked on the way, and
\* writes nothing behind the caller's memory (split_to_chunk_read and
\* read_chunk_impl, for every block and chunk shape and every chain that both
\* read: shuffles in planes, no checksum for the first of the two).
THEOREM ReadAgreesCorrect == ViewSpec => []ReadAgrees
<1>1. ViewInit => Invariant
    BY InvariantInit
<1>2. Invariant /\ [ViewNext]_viewVars => Invariant'
    BY InvariantStep
<1>3. Invariant => ReadAgrees
    BY ReadAgreesInvariant
<1> QED
    BY <1>1, <1>2, <1>3, PTL DEF ViewSpec

-----------------------------------------------------------------------------
(* What is written is read back. *)

\* A chunk that split_to_chunk_write has filled has every element of the block.
LEMMA BlockFinds ==
    ASSUME NEW p, IsPipe(p), NEW s, IsSplit(s), BlockBytes(s) = p.block, NEW x \in Box(s.n),
           NEW j, j = CornerOf(s, x), NEW b, Cut(p, s, j, b), NEW i \in 1 .. s.size
    PROVE  /\ Slot(s, j, x) * s.size + i \in 1 .. p.block
           /\ b[Slot(s, j, x) * s.size + i] = Byte(Linear(x, s.n) * s.size + i)
<1> DEFINE n == ScratchBound(p.block)
           k == Slot(s, j, x) * s.size + i
<1>1. PICK c : Holds(p, c) /\ b = Prefix(Gather(s, j, c), p.block)
    BY DEF Cut
<1>2. n \in Nat /\ p.block \in Nat /\ p.block <= n /\ IsBuffer(c, n)
    BY <1>1, PipeTypes DEF Holds
<1> DEFINE g == Gather(s, j, c)
<1>3. IsBuffer(g, n)
  <2> HIDE DEF n
  <2> QED
      BY <1>2, GatherIs
<1>4. k \in 1 .. p.block /\ g[k] = Byte(Linear(x, s.n) * s.size + i)
  <2> HIDE DEF n
  <2> QED
      BY <1>2, GatherFinds
<1> HIDE DEF g, n, k
<1>5. Prefix(g, p.block)[k] = g[k]
    BY <1>2, <1>4, PrefixIs DEF SameBytes
<1> QED
    BY <1>1, <1>4, <1>5 DEF g, k

\* And zero everywhere else.
LEMMA BlockPads ==
    ASSUME NEW p, IsPipe(p), NEW s, IsSplit(s), BlockBytes(s) = p.block, ~Packed(s), ~Wraps(s),
           NEW j, IsCorner(s, j), NEW y \in Box(s.b), Outside(s, j, y),
           NEW b, Cut(p, s, j, b), NEW i \in 1 .. s.size
    PROVE  b[Linear(y, s.b) * s.size + i] = Zero
<1> DEFINE n == ScratchBound(p.block)
           k == Linear(y, s.b) * s.size + i
<1>1. PICK c : Holds(p, c) /\ b = Prefix(Gather(s, j, c), p.block)
    BY DEF Cut
<1>2. n \in Nat /\ p.block \in Nat /\ p.block <= n /\ IsBuffer(c, n)
    BY <1>1, PipeTypes DEF Holds
<1> DEFINE g == Gather(s, j, c)
<1>3. IsBuffer(g, n)
  <2> HIDE DEF n
  <2> QED
      BY <1>2, GatherIs
<1>4. k \in 1 .. p.block /\ g[k] = Zero
  <2> HIDE DEF n
  <2> QED
      BY <1>2, GatherPads
<1> HIDE DEF g, n, k
<1>5. Prefix(g, p.block)[k] = g[k]
    BY <1>2, <1>4, PrefixIs DEF SameBytes
<1> QED
    BY <1>1, <1>4, <1>5 DEF g, k

LEMMA WriteSplitIs ==
    ASSUME case \in Cases
    PROVE  /\ IsSplit(WriteSplit) /\ WriteSplit.n = case.n /\ WriteSplit.b = case.b
           /\ WriteSplit.size = case.size /\ BlockBytes(WriteSplit) = Pipe.block /\ case.n \in Blocks
BY SplitsAre DEF Blocks, WriteSplit

\* The write has come to the chunk of every element of its block.
LEMMA WrittenChunk ==
    ASSUME Invariant, WritesSound(Pipe, case.kind), pc = "write" => next = ChunkCount(WriteSplit),
           NEW x \in Box(case.n), CornerOf(WriteSplit, x) \notin lost
    PROVE  FromBlock(Pipe, WriteSplit, CornerOf(WriteSplit, x), file[CornerOf(WriteSplit, x)])
<1>0. case \in Cases /\ case.n \in Blocks
    BY DEF Invariant, Typed, Blocks
<1>1. PICK k \in 0 .. ChunkCount(WriteSplit) - 1 : Corner(WriteSplit, k) = CornerOf(WriteSplit, x)
    BY <1>0, CornerIs DEF WriteSplit
<1>2. LET j == Corner(WriteSplit, k) IN j \in lost \/ FromBlock(Pipe, WriteSplit, j, file[j])
  <2>1. ChunkCount(WriteSplit) \in Nat
      BY <1>0, CountNat
  <2>2. pc = "write" => k < next
      BY <2>1
  <2> QED
      BY <2>2 DEF Invariant, Written
<1> QED
    BY <1>1, <1>2

LEMMA RoundTripInvariant ==
    ASSUME Invariant
    PROVE  RoundTrip
<1>0. case \in Cases /\ IsPipe(Pipe)
    BY PipeIs DEF Invariant, Typed
<1>1. ASSUME pc = "done", ChainSound, case.read = case.n, NEW x \in Box(case.n),
             CornerOf(ReadSplit, x) \notin lost \cup missed
      PROVE  Delivered(x) = New[x]
  <2> DEFINE s == WriteSplit
             j == CornerOf(s, x)
             size == case.size
             at == Linear(x, case.n)
  <2>1. /\ IsSplit(s) /\ s.n = case.n /\ s.size = size /\ BlockBytes(s) = Pipe.block /\ ReadSplit = s
        /\ ReadsSound(Pipe) /\ WritesSound(Pipe, case.kind)
      BY <1>0, <1>1, WriteSplitIs DEF ReadSplit, WriteSplit, ChainSound
  <2>2. PICK b : Cut(Pipe, s, j, b) /\ Made(Pipe, file[j], b)
    <3>1. FromBlock(Pipe, s, j, file[j])
        BY <1>1, <2>1, WrittenChunk
    <3> QED
        BY <3>1 DEF FromBlock
  <2>3. \A i \in 1 .. size : memory[at * size + i] = b[Slot(s, j, x) * size + i]
    <3>1. Content(Pipe, file[j], b)
        BY <2>2 DEF Content
    <3> QED
        BY <1>1, <2>1, <3>1, ReadDone
  <2>4. \A i \in 1 .. size : b[Slot(s, j, x) * size + i] = Byte(at * size + i)
    <3> HIDE DEF s, j, size, at
    <3>1. j = CornerOf(s, x) /\ Cut(Pipe, s, j, b) /\ at = Linear(x, s.n) /\ x \in Box(s.n)
        BY <1>1, <2>1, <2>2 DEF j, at
    <3> HIDE DEF Pipe
    <3>2. \A i \in 1 .. s.size : b[Slot(s, j, x) * s.size + i] = Byte(Linear(x, s.n) * s.size + i)
        BY <1>0, <2>1, <3>1, BlockFinds
    <3> QED
        BY <2>1, <3>1, <3>2
  <2>5. Delivered(x) = [k \in 1 .. size |-> memory[at * size + k]]
      BY <1>1 DEF Delivered, ElementAt
  <2>6. New[x] = [k \in 1 .. size |-> Byte(at * size + k)]
      BY <1>1 DEF New, ElementAt
  <2> HIDE DEF s, j, size, at
  <2> QED
      BY <2>3, <2>4, <2>5, <2>6
<1> QED
    BY <1>1 DEF RoundTrip

\* What is written is read back by h5cpp, for every shape of block and chunk and
\* every sound chain of filters, with a checksum or without, whether or not
\* deflate pays for a chunk (split_to_chunk_write, write_chunk_impl and their
\* counterparts).
THEOREM RoundTripCorrect == ViewSpec => []RoundTrip
<1>1. ViewInit => Invariant
    BY InvariantInit
<1>2. Invariant /\ [ViewNext]_viewVars => Invariant'
    BY InvariantStep
<1>3. Invariant => RoundTrip
    BY RoundTripInvariant
<1> QED
    BY <1>1, <1>2, <1>3, PTL DEF ViewSpec

-----------------------------------------------------------------------------
(* Padding. *)

LEMMA PaddingInvariant ==
    ASSUME Invariant
    PROVE  PaddingIsZero
<1>0. case \in Cases /\ IsPipe(Pipe)
    BY PipeIs DEF Invariant, Typed
<1>1. ASSUME ~Wraps(WriteSplit), ~Packed(WriteSplit), WritesSound(Pipe, case.kind), NoChecksum(Pipe),
             NEW k \in 0 .. ChunkCount(WriteSplit) - 1, pc # "write", Corner(WriteSplit, k) \notin lost,
             NEW y \in Box(case.b), \E d \in 1 .. MaxRank : Corner(WriteSplit, k)[d] + y[d] >= case.n[d]
      PROVE  ElementIn(WriteSplit, file[Corner(WriteSplit, k)].plain, y) = [i \in 1 .. case.size |-> Zero]
  <2> DEFINE s == WriteSplit
             j == Corner(s, k)
             chunk == file[j]
             q == PlaceOf(s, y)
  <2>1. /\ IsSplit(s) /\ s.n = case.n /\ s.b = case.b /\ s.size = case.size
        /\ BlockBytes(s) = Pipe.block /\ case.n \in Blocks
      BY <1>0, WriteSplitIs
  <2>2. IsCorner(s, j)
      BY <1>0, <2>1, CornersReached DEF WriteSplit
  <2>3. Cut(Pipe, s, j, chunk.plain)
    <3>1. FromBlock(Pipe, s, j, chunk)
        BY <1>1 DEF Invariant, Written
    <3> QED
        BY <1>1, <3>1 DEF FromBlock
  <2>4. y \in Box(s.b) /\ Outside(s, j, y)
      BY <1>1, <2>1 DEF Outside
  <2>5. ~Wraps(s) /\ ~Packed(s)
      BY <1>1
  <2>6. ElementIn(s, chunk.plain, y) = Element(s, chunk.plain, q)
      BY DEF ElementIn
  <2> HIDE DEF s, j, chunk, Pipe
  <2>7. q = Linear(y, s.b)
      BY <2>1, <2>4, PlaceInChunk
  <2>8. \A i \in 1 .. s.size : chunk.plain[q * s.size + i] = Zero
    <3> HIDE DEF q
    <3>1. \A i \in 1 .. s.size : chunk.plain[Linear(y, s.b) * s.size + i] = Zero
        BY <1>0, <2>1, <2>2, <2>3, <2>4, <2>5, BlockPads
    <3> QED
        BY <2>7, <3>1
  <2>9. q \in Int /\ s.size \in Nat \ {0}
    <3>1. s.b \in Nat \X Nat \X Nat
        BY <2>1 DEF IsSplit
    <3> HIDE DEF q
    <3>2. Linear(y, s.b) \in 0 .. Volume(s.b) - 1
        BY <2>4, <3>1, LinearBelow
    <3> QED
        BY <2>1, <2>7, <3>2, SplitTypes
  <2> HIDE DEF q
  <2>10. Element(s, chunk.plain, q) = [i \in 1 .. s.size |-> chunk.plain[q * s.size + i]]
    <3> DEFINE bytes == chunk.plain
    <3> HIDE DEF bytes
    <3>1. Element(s, bytes, q) = [i \in 1 .. s.size |-> bytes[q * s.size + i]]
        BY <2>9, ElementIs
    <3> QED
        BY <3>1 DEF bytes
  <2>11. Element(s, chunk.plain, q) = [i \in 1 .. s.size |-> Zero]
      BY <2>8, <2>10
  <2> QED
      BY <2>1, <2>6, <2>11 DEF s, j, chunk, q
<1> QED
    BY <1>1 DEF PaddingIsZero, HdfReads

\* What HDF5 finds in a chunk beyond the block is zero, and never what the chunk
\* before has left in the buffer (the memset of split_to_chunk_write), behind
\* the chains HDF5 can read: shuffles in planes, no checksum.
THEOREM PaddingCorrect == ViewSpec => []PaddingIsZero
<1>1. ViewInit => Invariant
    BY InvariantInit
<1>2. Invariant /\ [ViewNext]_viewVars => Invariant'
    BY InvariantStep
<1>3. Invariant => PaddingIsZero
    BY PaddingInvariant
<1> QED
    BY <1>1, <1>2, <1>3, PTL DEF ViewSpec

-----------------------------------------------------------------------------
(* What an iterator delivers. *)

LEMMA IteratorInvariant ==
    ASSUME Invariant
    PROVE  IteratorDelivers
<1>1. ASSUME pc = "view", ReadsSound(Pipe), NoChecksum(Pipe), NEW i \in Iterators, use[i] # "none", offset[i] < Total,
             ~LeftBehind(i), CornerOf(WriteSplit, At(offset[i])) \notin missed
      PROVE  Dereference(i) = Array[At(offset[i])]
  <2> DEFINE o == offset[i]
             x == At(o)
             j == ChunkHead(o)
             s == SplitOf(case.extent)
             q == o % ChunkSize
             bytes == file[j].plain
             size == case.size
  <2>0. case \in Cases /\ case.rank = 1 /\ o \in Nat /\ case.extent \in Blocks
      BY <1>1 DEF Invariant, Typed, Viewed, Blocks
  <2>1. /\ x \in Box(case.extent) /\ CornerOf(s, x) = j /\ CornerOf(WriteSplit, x) = j
        /\ PlaceOf(s, x) = q
      BY <1>1, <2>0, HeadIs
  <2>2. SameBytes(chunk0, bytes, Pipe.block)
    <3>1. Refers(o, use[i], missed, chunk0)
        BY <1>1 DEF Invariant, ViewSound
    <3> QED
        BY <1>1, <2>1, <3>1 DEF Refers, LeftBehind
  <2>3. Array[x] = [k \in 1 .. size |-> bytes[q * size + k]]
    <3> HIDE DEF s, x, j, q
    <3>1. Array[x] = [k \in 1 .. case.size |-> file[CornerOf(s, x)].plain[PlaceOf(s, x) * case.size + k]]
        BY <2>0, <2>1, ArrayIs DEF s
    <3> QED
        BY <2>1, <3>1
  <2>4. /\ ChunkSize \in Nat \ {0} /\ size \in Nat \ {0} /\ WriteSplit.size = size
        /\ Pipe.block = ChunkSize * size
    <3>1. case.b[1] \in Nat \ {0} /\ case.b[2] = 1 /\ case.b[3] = 1 /\ case.size \in Nat \ {0}
        BY <2>0, CaseFacts DEF MaxRank
    <3>2. Volume(case.b) = case.b[1]
        BY <3>1 DEF Volume
    <3> QED
        BY <2>0, <3>1, <3>2, PipeIs, WriteSplitIs DEF ChunkSize
  <2>5. q \in 0 .. ChunkSize - 1
    <3> DEFINE b == ChunkSize
    <3>1. b \in Nat \ {0} /\ o \in Int
        BY <2>0, <2>4
    <3> HIDE DEF b, o
    <3>2. o % b \in 0 .. b - 1
        BY <3>1, DivMod
    <3> QED
        BY <3>2 DEF b
  <2>6. Dereference(i) = [k \in 1 .. size |-> chunk0[q * size + k]]
    <3>1. q \in Int
        BY <2>4, <2>5
    <3> HIDE DEF q, size
    <3>2. Element(WriteSplit, chunk0, q) = [k \in 1 .. WriteSplit.size |-> chunk0[q * WriteSplit.size + k]]
        BY <2>4, <3>1, ElementIs
    <3> QED
        BY <2>4, <3>2 DEF Dereference, q
  <2>7. \A k \in 1 .. size : q * size + k \in 1 .. Pipe.block
    <3> DEFINE b == ChunkSize
    <3>1. q \in Nat /\ b \in Nat /\ q < b
        BY <2>4, <2>5
    <3> HIDE DEF q, size, b
    <3>2. \A k \in 1 .. size : q * size + k \in 1 .. b * size
        BY <2>4, <3>1, ByteBelow
    <3> QED
        BY <2>4, <3>2 DEF b
  <2> HIDE DEF q, size, bytes
  <2>8. \A k \in 1 .. size : chunk0[q * size + k] = bytes[q * size + k]
      BY <2>2, <2>7 DEF SameBytes
  <2> QED
      BY <2>3, <2>6, <2>8
<1> QED
    BY <1>1 DEF IteratorDelivers, At

\* Every iterator the program may use, copies and the result of it++ among
\* them, refers to the element HDF5 finds at its offset, although all of them
\* share one pipeline (chunk_iterator of H5Dranges.hpp), behind the chains that
\* HDF5 can read as well.
THEOREM IteratorCorrect == ViewSpec => []IteratorDelivers
<1>1. ViewInit => Invariant
    BY InvariantInit
<1>2. Invariant /\ [ViewNext]_viewVars => Invariant'
    BY InvariantStep
<1>3. Invariant => IteratorDelivers
    BY IteratorInvariant
<1> QED
    BY <1>1, <1>2, <1>3, PTL DEF ViewSpec

-----------------------------------------------------------------------------
(* The write implements the array store. *)

\* Where the chunk of an element has been filled, HDF5 finds the new element.
LEMMA NewFound ==
    ASSUME case \in Cases, ~Packed(WriteSplit), NoChecksum(Pipe), NEW x \in Box(case.n), NEW f,
           FromBlock(Pipe, WriteSplit, CornerOf(WriteSplit, x), f[CornerOf(WriteSplit, x)])
    PROVE  Found(f, x) = New[x]
<1> DEFINE s == WriteSplit
           j == CornerOf(s, x)
           chunk == f[j]
           q == PlaceOf(s, x)
           size == case.size
           at == Linear(x, case.n)
<1>1. /\ IsSplit(s) /\ s.n = case.n /\ s.size = size /\ BlockBytes(s) = Pipe.block
      /\ case.n \in Blocks /\ IsPipe(Pipe)
    BY WriteSplitIs, PipeIs
<1>2. Found(f, x) = [k \in 1 .. size |-> chunk.plain[q * size + k]]
    BY <1>1, FoundIs DEF WriteSplit
<1>3. New[x] = [k \in 1 .. size |-> Byte(at * size + k)]
    BY DEF New, ElementAt
<1>4. Cut(Pipe, s, j, chunk.plain) /\ ~Packed(s) /\ x \in Box(s.n) /\ at = Linear(x, s.n)
    BY <1>1 DEF FromBlock
<1>5. j = CornerOf(s, x) /\ q = PlaceOf(s, x)
    OBVIOUS
<1> HIDE DEF s, j, chunk, q, size, at, Pipe
<1>6. Slot(s, j, x) = q
    BY <1>1, <1>4, <1>5, SlotIsPlace
<1>7. \A i \in 1 .. s.size : chunk.plain[Slot(s, j, x) * s.size + i] = Byte(Linear(x, s.n) * s.size + i)
    BY <1>1, <1>4, <1>5, BlockFinds
<1>8. \A i \in 1 .. size : chunk.plain[q * size + i] = Byte(at * size + i)
    BY <1>1, <1>4, <1>6, <1>7
<1> QED
    BY <1>2, <1>3, <1>8

\* Along one dimension: n is the end of the block, m that of the dataset.
LEMMA WithinBlock ==
    ASSUME NEW n \in Nat, NEW m \in Nat, NEW b \in Nat \ {0}, NEW x \in 0 .. m - 1,
           (x \div b) * b < n, n = m \/ n % b = 0
    PROVE  x \in 0 .. n - 1
<1>1. CASE n = m
    BY <1>1
<1>2. CASE n % b = 0
  <2> DEFINE q == x \div b
             l == n \div b
  <2>1. q \in Nat /\ x < q * b + b /\ l \in Nat /\ n = l * b + 0
      BY <1>2, DivNat, DivMod
  <2> HIDE DEF q, l
  <2>2. q * b < l * b
      BY <2>1 DEF q
  <2>3. q + 1 <= l
    <3>1. CASE l <= q
      <4>1. l * b <= q * b
          BY <2>1, <3>1, MulMono
      <4> QED
          BY <2>1, <2>2, <4>1, MulNat
    <3> QED
        BY <2>1, <3>1
  <2> DEFINE p == q + 1
  <2>4. p * b = q * b + b /\ p \in Int
      BY <2>1
  <2> HIDE DEF p
  <2>5. p * b <= l * b
      BY <2>1, <2>3, <2>4, MulMono DEF p
  <2>6. q * b \in Nat /\ l * b \in Nat
      BY <2>1, MulNat
  <2> QED
      BY <2>1, <2>4, <2>5, <2>6
<1> QED
    BY <1>1, <1>2

\* Where the block ends with the dataset or with a chunk, its chunks hold no
\* elements but its own.
LEMMA OwnElements ==
    ASSUME case \in Cases, EndsOnChunk, NEW x \in Box(case.extent), IsCorner(WriteSplit, CornerOf(WriteSplit, x))
    PROVE  x \in Box(case.n)
<1> DEFINE s == WriteSplit
           j == CornerOf(s, x)
<1>1. IsSplit(s) /\ s.n = case.n /\ s.b = case.b
    BY WriteSplitIs
<1>2. /\ case.n[1] \in Nat /\ case.n[2] \in Nat /\ case.n[3] \in Nat
      /\ case.extent[1] \in Nat /\ case.extent[2] \in Nat /\ case.extent[3] \in Nat
      /\ case.b[1] \in Nat \ {0} /\ case.b[2] \in Nat \ {0} /\ case.b[3] \in Nat \ {0}
  <2>1. case.extent \in Nat \X Nat \X Nat
      BY CaseFacts
  <2> HIDE DEF s
  <2> QED
      BY <1>1, <2>1, SplitTypes
<1>3. x[1] \in 0 .. case.extent[1] - 1 /\ x[2] \in 0 .. case.extent[2] - 1 /\ x[3] \in 0 .. case.extent[3] - 1
    BY DEF Box
<1>4. /\ j[1] = (x[1] \div case.b[1]) * case.b[1]
      /\ j[2] = (x[2] \div case.b[2]) * case.b[2]
      /\ j[3] = (x[3] \div case.b[3]) * case.b[3]
    BY <1>1 DEF CornerOf, MaxRank
<1>5. IsCorner(s, j)
    OBVIOUS
<1> HIDE DEF s, j
<1>6. /\ j[1] \in 0 .. case.n[1] - 1 /\ j[2] \in 0 .. case.n[2] - 1 /\ j[3] \in 0 .. case.n[3] - 1
    BY <1>1, <1>5, CornerHeights
<1>7. /\ (x[1] \div case.b[1]) * case.b[1] < case.n[1]
      /\ (x[2] \div case.b[2]) * case.b[2] < case.n[2]
      /\ (x[3] \div case.b[3]) * case.b[3] < case.n[3]
  <2>1. j[1] < case.n[1] /\ j[2] < case.n[2] /\ j[3] < case.n[3]
      BY <1>2, <1>6
  <2> QED
      BY <1>4, <2>1
<1>8. /\ case.n[1] = case.extent[1] \/ case.n[1] % case.b[1] = 0
      /\ case.n[2] = case.extent[2] \/ case.n[2] % case.b[2] = 0
      /\ case.n[3] = case.extent[3] \/ case.n[3] % case.b[3] = 0
    BY DEF EndsOnChunk, MaxRank
<1>9. x[1] \in 0 .. case.n[1] - 1 /\ x[2] \in 0 .. case.n[2] - 1 /\ x[3] \in 0 .. case.n[3] - 1
    BY <1>2, <1>3, <1>7, <1>8, WithinBlock
<1>10. x = <<x[1], x[2], x[3]>>
    BY DEF Box
<1> QED
    BY <1>9, <1>10 DEF Box

\* The parts of the store that a step leaves alone.
LEMMA StoreSettled ==
    ASSUME case' = case
    PROVE  /\ New' = New
           /\ (EndsOnChunk /\ ~Packed(WriteSplit) /\ HdfReads)'
                  <=> (EndsOnChunk /\ ~Packed(WriteSplit) /\ HdfReads)
           /\ Array' = [x \in Box(case.extent) |-> Found(file', x)]
<1>1. WriteSplit' = WriteSplit /\ Pipe' = Pipe
    BY Settled
<1>2. New' = New
    BY DEF New, ElementAt
<1>3. EndsOnChunk' <=> EndsOnChunk
    BY DEF EndsOnChunk
<1>4. Packed(WriteSplit)' <=> Packed(WriteSplit)
    BY <1>1
<1>5. HdfReads' <=> HdfReads
    BY <1>1 DEF HdfReads
<1>6. Array' = [x \in Box(case.extent) |-> Found(file', x)]
    BY DEF Array, Found, SplitOf
<1> QED
    BY <1>2, <1>3, <1>4, <1>5, <1>6

\* What the write promises.
Promised == EndsOnChunk /\ ~Packed(WriteSplit) /\ HdfReads

\* The elements storage has refused.
RefusedElements == {x \in Box(case.n) : CornerOf(WriteSplit, x) \in lost}

LEMMA RefusedSettled ==
    ASSUME case' = case
    PROVE  /\ lost \subseteq lost' => RefusedElements \subseteq RefusedElements'
           /\ lost' = lost => RefusedElements' = RefusedElements
<1>1. WriteSplit' = WriteSplit
    BY Settled
<1>2. RefusedElements' = {x \in Box(case.n) : CornerOf(WriteSplit, x) \in lost'}
    BY <1>1 DEF RefusedElements
<1> QED
    BY <1>2 DEF RefusedElements

\* A chunk is a part of the block, and gets its new elements at once.
LEMMA WriteIsPart ==
    ASSUME Invariant, Promised, WriteChunk
    PROVE  Store!StorePart /\ ~(pc # "write")'
<1> DEFINE j == Corner(WriteSplit, next)
<1>0. /\ Typed /\ case \in Cases /\ case.n \in Blocks /\ ShuffleSound(Pipe) /\ WritesSound(Pipe, case.kind)
      /\ NoChecksum(Pipe)
    BY DEF Invariant, Typed, Blocks, Promised, HdfReads, WritesSound
<1>1. /\ pc = "write" /\ next \in 0 .. ChunkCount(WriteSplit) - 1
      /\ next' = next + 1 /\ case' = case /\ pc' = pc
    BY <1>0, WriteStores
<1>2. PICK shrinks : Stores(j, Encoded(shrinks))
    BY <1>0, WriteStores
<1>3. file = [k \in Corners |-> file[k]] /\ j \in Corners /\ IsCorner(WriteSplit, j)
    BY <1>0, <1>1, CornersReached DEF Typed, FileTyped, WriteSplit
<1> DEFINE s == Stored(Pipe, Encoded(shrinks))
<1>4. FromBlock(Pipe, WriteSplit, j, s)
  <2>1. PICK b : Made(Pipe, s, b) /\ s.plain = b /\ b = Prefix(Filled, Pipe.block)
      BY <1>0, EncodedStores
  <2>2. Holds(Pipe, chunk0)
      BY <1>0 DEF Typed, BuffersTyped
  <2>3. Filled = Gather(WriteSplit, j, chunk0)
      BY DEF Filled
  <2>4. Cut(Pipe, WriteSplit, j, b)
      BY <2>1, <2>2, <2>3 DEF Cut
  <2> HIDE DEF s, j
  <2> QED
      BY <2>1, <2>4 DEF FromBlock
<1>5. \/ file' = [file EXCEPT ![j] = s] /\ lost' = lost
      \/ lost' = lost \cup {j} /\ file' = file
    BY <1>2 DEF Stores
<1> HIDE DEF s, j
<1>6. Array = [x \in Box(case.extent) |-> Found(file, x)] /\ Array' = [x \in Box(case.extent) |-> Found(file', x)]
    BY <1>1, StoreSettled DEF Array, Found
<1>7. ASSUME NEW x \in Box(case.extent)
      PROVE  Found(file', x) = Found(file, x) \/ (x \in Box(case.n) /\ Found(file', x) = New[x])
  <2> DEFINE c == CornerOf(SplitOf(case.extent), x)
  <2>1. c = CornerOf(WriteSplit, x) /\ c \in Corners
    <3>1. c = CornerOf(WriteSplit, x)
        BY DEF CornerOf, WriteSplit, SplitOf
    <3>2. c \in Corners
        BY <1>0, CornerIs DEF Blocks
    <3> QED
        BY <3>1, <3>2
  <2>2. CASE file'[c] = file[c]
    <3>1. /\ Found(file, x) = ElementIn(SplitOf(case.extent), file[c].plain, x)
          /\ Found(file', x) = ElementIn(SplitOf(case.extent), file'[c].plain, x)
        BY DEF Found
    <3> HIDE DEF c
    <3>2. Found(file', x) = Found(file, x)
        BY <2>2, <3>1, Zenon
    <3> QED
        BY <3>2
  <2>3. CASE file'[c] # file[c]
    <3>1. c = j /\ file'[j] = s
      <4> HIDE DEF c
      <4> QED
          BY <1>3, <1>5, <2>1, <2>3
    <3>2. x \in Box(case.n)
        BY <1>0, <1>3, <2>1, <3>1, OwnElements DEF Promised
    <3>3. FromBlock(Pipe, WriteSplit, CornerOf(WriteSplit, x), file'[CornerOf(WriteSplit, x)])
      <4> HIDE DEF c
      <4> QED
          BY <1>4, <2>1, <3>1
    <3>4. Found(file', x) = New[x]
        BY <1>0, <3>2, <3>3, NewFound DEF Promised
    <3> QED
        BY <3>2, <3>4
  <2> QED
      BY <2>2, <2>3
<1>8. New' = New /\ (Promised' <=> Promised) /\ DOMAIN New = Box(case.n)
    BY <1>1, StoreSettled DEF Promised, New
<1>9. RefusedElements \subseteq RefusedElements'
    BY <1>1, <1>5, RefusedSettled
<1> QED
    BY <1>1, <1>6, <1>7, <1>8, <1>9, StoreSettled DEF Store!StorePart, RefusedElements, Promised

\* When the write returns, it has been at every chunk of the block.
LEMMA ReturnIsReturn ==
    ASSUME Invariant, Promised, WriteReturns
    PROVE  Store!StoreReturn
<1>1. /\ pc = "write" /\ next = ChunkCount(WriteSplit) /\ pc' = "written"
      /\ case' = case /\ file' = file /\ lost' = lost
    BY DEF WriteReturns
<1>2. Array = [x \in Box(case.extent) |-> Found(file, x)] /\ Array' = [x \in Box(case.extent) |-> Found(file, x)]
    BY <1>1, StoreSettled DEF Array, Found
<1>3. ASSUME NEW x \in Box(case.n), x \notin RefusedElements
      PROVE  x \in Box(case.extent) /\ Found(file, x) = New[x]
  <2>0. /\ case \in Cases /\ case.n \in Blocks /\ WritesSound(Pipe, case.kind) /\ NoChecksum(Pipe)
        /\ ~Packed(WriteSplit)
      BY DEF Invariant, Typed, Blocks, Promised, HdfReads
  <2>1. CornerOf(WriteSplit, x) \notin lost
      BY <1>3 DEF RefusedElements
  <2>2. FromBlock(Pipe, WriteSplit, CornerOf(WriteSplit, x), file[CornerOf(WriteSplit, x)])
      BY <1>1, <2>0, <2>1, WrittenChunk
  <2> QED
      BY <2>0, <2>2, NewFound, BoxGrows
<1>4. New' = New /\ (Promised' <=> Promised) /\ DOMAIN New = Box(case.n) /\ RefusedElements' = RefusedElements
    BY <1>1, StoreSettled, RefusedSettled DEF Promised, New
<1> HIDE DEF Array, New
<1>5. Store!StorePart
    BY <1>1, <1>2, <1>4, StoreSettled DEF Store!StorePart, RefusedElements, Promised
<1> QED
    BY <1>1, <1>2, <1>3, <1>4, <1>5 DEF Store!StoreReturn, RefusedElements

\* Whatever else happens changes nothing of the store.
LEMMA OthersLeaveStore ==
    ASSUME case' = case, file' = file, lost' = lost, pc # "write" <=> pc' # "write"
    PROVE  UNCHANGED <<Array, New, RefusedElements, pc # "write", Promised>>
<1>1. New' = New /\ RefusedElements' = RefusedElements /\ (Promised' <=> Promised)
    BY StoreSettled, RefusedSettled DEF Promised
<1>2. Array' = Array
  <2>1. Array' = [x \in Box(case.extent) |-> Found(file', x)]
      BY StoreSettled
  <2>2. Array = [x \in Box(case.extent) |-> Found(file, x)]
      BY DEF Array, Found
  <2> QED
      BY <2>1, <2>2
<1>3. Promised' = Promised
    BY <1>1, Zenon DEF Promised
<1>4. (pc # "write")' = (pc # "write")
    BY Zenon
<1> QED
    BY <1>1, <1>2, <1>3, <1>4

LEMMA StoreStep ==
    ASSUME Invariant, [ViewNext]_viewVars
    PROVE  [Promised => Store!StoreNext]_<<Array, New, RefusedElements, pc # "write", Promised>>
<1>0. Typed /\ Viewed /\ case \in Cases
    BY DEF Invariant, Typed
<1>1. CASE ~Promised
    BY <1>1
<1>2. CASE Promised /\ WriteChunk
  <2>1. Store!StorePart /\ ~(pc # "write")'
      BY <1>2, WriteIsPart
  <2> QED
      BY <2>1 DEF Store!StoreNext
<1>3. CASE Promised /\ WriteReturns
  <2>1. Store!StoreReturn
      BY <1>3, ReturnIsReturn
  <2> QED
      BY <2>1 DEF Store!StoreNext
<1>4. CASE \/ ReadBegins \/ ReadChunk \/ ReadReturns \/ Ended \/ UNCHANGED viewVars \/ ViewEnded
           \/ (\E i \in Iterators : Begin(i) \/ Increment(i))
           \/ (\E i, k \in Iterators : Copy(i, k) \/ PostIncrement(i, k))
  <2> DEFINE Same == case' = case /\ file' = file /\ lost' = lost /\ (pc # "write" <=> pc' # "write")
  <2>1. ASSUME ReadBegins \/ ReadChunk \/ ReadReturns PROVE Same
      BY <2>1 DEF ReadBegins, ReadChunk, ReadReturns
  <2>2. ASSUME Ended \/ UNCHANGED viewVars \/ ViewEnded PROVE Same
      BY <2>2 DEF Ended, ViewEnded, viewVars, vars
  <2>3. ASSUME NEW i \in Iterators, Begin(i) PROVE Same
      BY <2>3 DEF Begin
  <2>4. ASSUME NEW i \in Iterators, Increment(i) PROVE Same
      BY <2>4 DEF Increment
  <2>5. ASSUME NEW i \in Iterators, NEW k \in Iterators, Copy(i, k) \/ PostIncrement(i, k) PROVE Same
      BY <2>5 DEF Copy, PostIncrement, Copied
  <2>6. Same
    <3>1. CASE ReadBegins \/ ReadChunk \/ ReadReturns \/ Ended \/ UNCHANGED viewVars \/ ViewEnded
        BY <2>1, <2>2, <3>1
    <3>2. CASE (\E i \in Iterators : Begin(i) \/ Increment(i))
               \/ (\E i, k \in Iterators : Copy(i, k) \/ PostIncrement(i, k))
      <4> HIDE DEF Same
      <4> QED
          BY <2>3, <2>4, <2>5, <3>2
    <3> QED
        BY <1>4, <3>1, <3>2
  <2> QED
      BY <2>6, OthersLeaveStore
<1> QED
    BY <1>1, <1>2, <1>3, <1>4 DEF ViewNext, Next

\* The write of a block that ends with the dataset or with a chunk implements
\* the array store: it changes no element but those of its block, and when it
\* returns each of them is where HDF5 looks for it, but for those storage has
\* refused (split_to_chunk_write and h5::write, "so the chunk decomposition is
\* correct"), unless the chain has a checksum, or a shuffle that is not made
\* of planes.
THEOREM WriteImplementsStore == ViewSpec => ImplementsStore
<1>1. ViewInit => ~(pc # "write")
    BY DEF ViewInit, Init
<1>2. ViewInit => Invariant
    BY InvariantInit
<1>3. Invariant /\ [ViewNext]_viewVars => Invariant'
    BY InvariantStep
<1>4. Invariant /\ [ViewNext]_viewVars =>
          [Promised => Store!StoreNext]_<<Array, New, RefusedElements, pc # "write", Promised>>
    BY StoreStep
<1> QED
    BY <1>1, <1>2, <1>3, <1>4, PTL DEF ViewSpec, ImplementsStore, Store!StoreSpec, Promised, RefusedElements

=============================================================================
