------------------------- MODULE PacketTableProofs -------------------------
(***************************************************************************)
(* Theorems about PacketTable for every geometry of the chunks, every      *)
(* capacity of the dataset, any number of tables and any records.          *)
(*                                                                         *)
(* Every call ends with set_extent at the position the table stands at, so *)
(* that position and extent only part where set_extent throws, and then    *)
(* for good.  The other results rest on this.                              *)
(***************************************************************************)
EXTENDS PacketTable, Integers, SequenceTheorems, TLAPS

\* The buffers and the queues, as functions; TypeOK bounds their lengths.
Buffers ==
    /\ buf \in [Tables -> Seq(Records \cup {Scratch})]
    /\ pending \in [Tables -> Seq(Chunk)]

TypeInv == TypeOK /\ Buffers

-----------------------------------------------------------------------------
(* Sizes. *)

\* A chunk has records.
LEMMA Sizes ==
  /\ N \in Nat \ {0} /\ ChunkRows \in Nat \ {0} /\ Cols \in Nat \ {0} /\ MaxRows \in Nat
  /\ Cap \in Nat \ {0} /\ Slack \in Nat /\ LastRow \in Nat
  /\ InitRows \subseteq 0 .. MaxRows
<1>1. ChunkRows * Cols \in Nat \ {0}
  BY TableAssumption
<1> QED
  BY <1>1, TableAssumption DEF N

\* Multiplication by a natural number keeps the order.
LEMMA TimesMonotone ==
  ASSUME NEW x \in Int, NEW y \in Int, NEW b \in Nat, x <= y
  PROVE  x * b <= y * b
OBVIOUS

\* Quotient and remainder.
LEMMA DivMod ==
  ASSUME NEW a \in Int, NEW b \in Nat \ {0}
  PROVE  /\ a \div b \in Int
         /\ a % b \in 0 .. (b - 1)
         /\ a = ((a \div b) * b) + (a % b)
OBVIOUS

\* The quotient of a natural number is one.
LEMMA DivNat ==
  ASSUME NEW a \in Nat, NEW b \in Nat \ {0}
  PROVE  a \div b \in Nat /\ (a \div b) * b <= a
<1> DEFINE d == a \div b
<1>1. d \in Int /\ d * b <= a /\ a < (d + 1) * b
  BY DivMod
<1>2. ASSUME d + 1 <= 0 PROVE FALSE
  <2>1. (d + 1) * b <= 0 * b
    BY <1>1, <1>2, TimesMonotone
  <2> QED
    BY <1>1, <2>1
<1> QED
  BY <1>1, <1>2

\* A product that is bounded bounds the factor.
LEMMA DivBound ==
  ASSUME NEW x \in Nat, NEW a \in Nat, NEW b \in Nat \ {0}, x * b <= a
  PROVE  x <= a \div b
<1> DEFINE d == a \div b
<1>1. d \in Int /\ a < (d + 1) * b
  BY DivMod
<1>2. ASSUME d + 1 <= x PROVE FALSE
  <2>1. (d + 1) * b <= x * b
    BY <1>1, <1>2, TimesMonotone
  <2> QED
    BY <1>1, <2>1
<1> QED
  BY <1>1, <1>2

\* A record of the dataset has a chunk and a place in it.
LEMMA PlaceOfRecord ==
  ASSUME NEW rows \in 0 .. MaxRows, NEW cols \in {0, Cols}, NEW k \in 1 .. (rows * cols)
  PROVE  /\ (k - 1) \div N \in ChunkIds
         /\ ((k - 1) % N) + 1 \in 1 .. N
<1> USE Sizes
<1>1. rows \in Nat /\ cols = Cols /\ k \in Nat /\ k - 1 \in Nat
  OBVIOUS
<1>2. ((k - 1) % N) + 1 \in 1 .. N
  BY <1>1, DivMod
<1> DEFINE c == (k - 1) \div N
<1>3. c \in Nat /\ c * N <= k - 1
  BY <1>1, DivNat
<1> HIDE DEF c
<1>4. c * ChunkRows \in Nat /\ c * N = (c * ChunkRows) * Cols
  BY <1>3 DEF N
<1>5. (c * ChunkRows) * Cols < rows * Cols
  BY <1>1, <1>3, <1>4
<1>6. c * ChunkRows < rows
  <2>1. ASSUME rows <= c * ChunkRows PROVE FALSE
    BY <1>1, <1>4, <1>5, <2>1, TimesMonotone
  <2> QED
    BY <1>1, <1>4, <2>1
<1>7. c <= MaxRows \div ChunkRows
  BY <1>1, <1>3, <1>4, <1>6, DivBound
<1>8. c \in ChunkIds
  BY <1>3, <1>7, DivNat DEF ChunkIds
<1> QED
  BY <1>2, <1>8 DEF c

-----------------------------------------------------------------------------
(* What the HDF5 calls leave in the file is a file again. *)

Files == [ChunkIds -> Data]

\* set_extent.
LEMMA ResizeTyped ==
  ASSUME NEW d, NEW file \in Files
  PROVE  Resize(d, file) \in Files
<1>1. ASSUME NEW c \in ChunkIds, NEW i \in 1 .. N PROVE file[c][i] \in Records \cup {Fill, Scratch}
  BY DEF Files, Data
<1>2. [c \in ChunkIds |-> [i \in 1 .. N |->
         IF (c * ChunkRows) + ((i - 1) \div Cols) < d.rows /\ ((i - 1) % Cols) < d.cols
         THEN file[c][i] ELSE Fill]] \in Files
  BY <1>1 DEF Files, Data
<1> QED
  BY <1>2 DEF Resize

\* H5Dwrite_chunk of a sequence of chunks.
LEMMA PutChunksTyped ==
  ASSUME NEW d, NEW file \in Files, NEW q \in Seq(Chunk)
  PROVE  PutChunks(d, file, q) \in Files
<1> DEFINE at(c) == {k \in DOMAIN q : Writable(d, q[k].off) /\ PlaceOf(q[k].off) = c}
           last(c) == {k \in at(c) : \A m \in at(c) : m <= k}
<1>1. \A k \in DOMAIN q : q[k].data \in Data
  <2>1. \A k \in DOMAIN q : q[k] \in Chunk
    OBVIOUS
  <2> QED
    BY <2>1 DEF Chunk
<1>2. ASSUME NEW c \in ChunkIds
      PROVE  (IF last(c) = {} THEN file[c] ELSE q[CHOOSE k \in last(c) : TRUE].data) \in Data
  <2>1. file[c] \in Data
    BY DEF Files
  <2>2. ASSUME last(c) # {} PROVE (CHOOSE k \in last(c) : TRUE) \in DOMAIN q
    <3>1. (CHOOSE k \in last(c) : TRUE) \in last(c)
      BY <2>2
    <3>2. last(c) \subseteq DOMAIN q
      OBVIOUS
    <3> QED
      BY <3>1, <3>2
  <2> HIDE DEF last
  <2> QED
    BY <1>1, <2>1, <2>2
<1> HIDE DEF last
<1>3. [c \in ChunkIds |->
          IF last(c) = {} THEN file[c] ELSE q[CHOOSE k \in last(c) : TRUE].data] \in Files
  BY <1>2 DEF Files
<1> QED
  BY <1>3 DEF PutChunks, last

\* H5Dwrite of strings.
LEMMA PutStringsTyped ==
  ASSUME NEW file \in Files, NEW off \in Nat, NEW data \in Seq(Records \cup {Scratch})
  PROVE  PutStrings(file, off, data) \in Files
<1>1. \A k \in DOMAIN data : data[k] \in Records \cup {Scratch}
  OBVIOUS
<1>2. ASSUME NEW c \in ChunkIds, NEW i \in 1 .. N PROVE file[c][i] \in Records \cup {Fill, Scratch}
  BY DEF Files, Data
<1>3. [c \in ChunkIds |-> [i \in 1 .. N |->
         IF (c * N) + i - off \in DOMAIN data THEN data[(c * N) + i - off] ELSE file[c][i]]] \in Files
  BY <1>1, <1>2 DEF Files, Data
<1> QED
  BY <1>3 DEF PutStrings

\* The records of a dataset, of a size and in a file.
RecordsOf(e, file) ==
    [k \in 1 .. (e.rows * e.cols) |-> file[(k - 1) \div N][((k - 1) % N) + 1]]

LEMMA RecordsTyped ==
  ASSUME NEW e \in [rows : 0 .. MaxRows, cols : {0, Cols}], NEW file \in Files
  PROVE  RecordsOf(e, file) \in Seq(Records \cup {Fill, Scratch})
<1> USE Sizes
<1>1. e.rows \in 0 .. MaxRows /\ e.cols \in {0, Cols}
  OBVIOUS
<1>2. ASSUME NEW k \in 1 .. (e.rows * e.cols)
      PROVE  file[(k - 1) \div N][((k - 1) % N) + 1] \in Records \cup {Fill, Scratch}
  BY <1>1, PlaceOfRecord DEF Files, Data
<1>3. RecordsOf(e, file) \in [1 .. (e.rows * e.cols) -> Records \cup {Fill, Scratch}]
  BY <1>2 DEF RecordsOf
<1>4. e.rows * e.cols \in Nat
  BY <1>1
<1> QED
  BY <1>3, <1>4, SeqDef

\* A partial chunk is padded to a whole one.
LEMMA PaddedTyped ==
  ASSUME NEW b \in Seq(Records \cup {Scratch})
  PROVE  Padded(b) \in Data
<1>1. \A i \in 1 .. N : i <= Len(b) => b[i] \in Records \cup {Scratch}
  BY Sizes
<1> QED
  BY <1>1 DEF Padded, Data

\* A full buffer is a whole chunk.
LEMMA FullTyped ==
  ASSUME NEW b \in Seq(Records \cup {Scratch}), Full(b)
  PROVE  b \in Data
<1>1. b \in [1 .. N -> Records \cup {Scratch}]
  BY LenProperties DEF Full
<1> QED
  BY <1>1 DEF Data

\* What the pointers to strings lead to.
LEMMA CharactersTyped ==
  ASSUME NEW b \in Seq(Records \cup {Scratch}), NEW c \in Characters(b)
  PROVE  c \in Seq(Records \cup {Scratch}) /\ Len(c) = Len(b)
<1>1. CASE "reuse" \in Calls
  <2>1. c \in [1 .. Len(b) -> Records \cup {Scratch}] /\ Len(b) \in Nat
    BY <1>1, LenProperties DEF Characters
  <2>2. c \in Seq(Records \cup {Scratch})
    BY <2>1, SeqDef
  <2>3. 1 .. Len(c) = 1 .. Len(b) /\ Len(c) \in Nat
    BY <2>1, <2>2, LenProperties
  <2> QED
    BY <2>1, <2>2, <2>3
<1>2. CASE "reuse" \notin Calls
  BY <1>2 DEF Characters
<1> QED
  BY <1>1, <1>2

-----------------------------------------------------------------------------
(* Type correctness, one lemma per operation. *)

Extents == [rows : 0 .. MaxRows, cols : {0, Cols}]

\* The position moves.
LEMMA GrownTyped ==
  ASSUME TypeInv, NEW p \in Tables, NEW rows \in Nat
  PROVE  /\ Grown(p, rows) \in Dims
         /\ Grown(p, rows).rows = cur[p].rows + rows
         /\ Grown(p, rows).cols = cur[p].cols
         /\ CanExtend(Grown(p, rows)) => Grown(p, rows) \in Extents
<1>1. cur[p] \in [rows : Nat, cols : {0, Cols}]
  BY DEF TypeInv, TypeOK, Dims
<1>2. cur[p].rows + rows \in Nat
  BY <1>1
<1>3. /\ Grown(p, rows) \in Dims
      /\ Grown(p, rows).rows = cur[p].rows + rows
      /\ Grown(p, rows).cols = cur[p].cols
  BY <1>1, <1>2 DEF Grown, Dims
<1>4. ASSUME CanExtend(Grown(p, rows)) PROVE Grown(p, rows) \in Extents
  <2>1. Grown(p, rows).rows \in 0 .. MaxRows
    BY <1>3, <1>4, Sizes DEF CanExtend, Dims
  <2> QED
    BY <1>3, <2>1 DEF Dims, Extents
<1> QED
  BY <1>3, <1>4

\* One chunk goes to the pipeline.
LEMMA WriteChunkTyped ==
  ASSUME TypeInv, NEW p \in Tables, NEW d, NEW c \in Chunk, WriteChunk(p, d, c)
  PROVE  /\ disk' \in Files
         /\ pending' \in [Tables -> Seq(Chunk)]
         /\ \A r \in Tables : Len(pending'[r]) < Cap
         /\ silent' \in BOOLEAN
<1> USE DEF TypeInv
<1>1. disk \in Files /\ silent \in BOOLEAN /\ \A r \in Tables : Len(pending[r]) < Cap
  BY DEF TypeOK, Files
<1>2. pending \in [Tables -> Seq(Chunk)]
  BY DEF Buffers
<1>3. Resize(d, disk) \in Files
  BY <1>1, ResizeTyped
<1>4. CASE pipeline[p] = "pool"
  <2> DEFINE q == Append(pending[p], c)
  <2>1. q \in Seq(Chunk) /\ Len(q) \in Nat
    BY <1>2
  <2> HIDE DEF q
  <2>2. PICK k \in 0 .. Len(q) :
            /\ Len(q) - k < Cap
            /\ disk' = PutChunks(d, Resize(d, disk), SubSeq(q, 1, k))
            /\ pending' = [pending EXCEPT ![p] = SubSeq(q, k + 1, Len(q))]
            /\ silent' = (silent \/ SomeFail(d, SubSeq(q, 1, k)))
    BY <1>4 DEF WriteChunk, q
  <2>3. /\ SubSeq(q, 1, k) \in Seq(Chunk)
        /\ SubSeq(q, k + 1, Len(q)) \in Seq(Chunk)
        /\ Len(SubSeq(q, k + 1, Len(q))) = Len(q) - k
    BY <2>1
  <2>4. disk' \in Files
    BY <1>3, <2>2, <2>3, PutChunksTyped
  <2>5. \A r \in Tables : pending'[r] = IF r = p THEN SubSeq(q, k + 1, Len(q)) ELSE pending[r]
    BY <1>2, <2>2
  <2> QED
    BY <1>1, <1>2, <2>1, <2>2, <2>3, <2>4, <2>5
<1>5. CASE pipeline[p] # "pool"
  <2>1. <<c>> \in Seq(Chunk)
    OBVIOUS
  <2> QED
    BY <1>1, <1>2, <1>3, <1>5, <2>1, PutChunksTyped DEF WriteChunk
<1> QED
  BY <1>4, <1>5

\* Without strings the buffer is never full between two calls.
LEMMA BufferFits ==
  ASSUME TypeInv, ~strings, NEW p \in Tables
  PROVE  buf[p] \in Seq(Records \cup {Scratch}) /\ Len(buf[p]) \in Nat /\ Len(buf[p]) < N
BY DEF TypeInv, TypeOK, Buffers, Overrun

\* set_extent throws.
LEMMA ThrowsTyped ==
  ASSUME TypeInv, NEW p \in Tables, NEW rows \in Nat, ExtendThrows(p, Grown(p, rows))
  PROVE  /\ cur' \in [Tables -> Dims] /\ cur'[p].rows > MaxRows
         /\ \A r \in Tables : r # p => cur'[r] = cur[r]
         /\ state' \in [Tables -> {"closed", "open", "synced", "crashed"}]
         /\ UNCHANGED <<extent, disk, pending, silent>>
<1>1. Grown(p, rows) \in Dims
  BY GrownTyped
<1>2. Grown(p, rows).rows \in Nat /\ ~(Grown(p, rows).rows <= MaxRows)
  BY <1>1 DEF Dims, ExtendThrows, CanExtend
<1> QED
  BY <1>1, <1>2, Sizes DEF ExtendThrows, TypeInv, TypeOK

\* A chunk is written where the table stands.
LEMMA ExtendTyped ==
  ASSUME TypeInv, NEW p \in Tables, NEW rows \in Nat, NEW data \in Data,
         ExtendAndWrite(p, Grown(p, rows), data)
  PROVE  /\ cur' \in [Tables -> Dims] /\ extent' \in Extents
         /\ state' \in [Tables -> {"closed", "open", "synced", "crashed"}]
         /\ disk' \in Files /\ silent' \in BOOLEAN
         /\ pending' \in [Tables -> Seq(Chunk)]
         /\ \A r \in Tables : Len(pending'[r]) < Cap
<1>1. Grown(p, rows) \in Dims /\ Grown(p, rows) \in Extents
  BY GrownTyped DEF ExtendAndWrite
<1>2. [off |-> cur[p].rows, data |-> data] \in Chunk
  BY DEF TypeInv, TypeOK, Dims, Chunk
<1>3. WriteChunk(p, Grown(p, rows), [off |-> cur[p].rows, data |-> data])
  BY DEF ExtendAndWrite
<1>4. /\ disk' \in Files /\ silent' \in BOOLEAN
      /\ pending' \in [Tables -> Seq(Chunk)]
      /\ \A r \in Tables : Len(pending'[r]) < Cap
  BY <1>2, <1>3, WriteChunkTyped
<1> QED
  BY <1>1, <1>4 DEF ExtendAndWrite, TypeInv, TypeOK

States == {"closed", "open", "synced", "crashed"}

\* The parts of TypeInv behind a step.
LEMMA TypeStep ==
  ASSUME extent' \in Extents, disk' \in Files,
         pipeline' \in [Tables -> Pipelines \cup {"basic"}],
         cur' \in [Tables -> Dims],
         buf' \in [Tables -> Seq(Records \cup {Scratch})],
         \A r \in Tables : Len(buf'[r]) < N \/ Overrun(r)',
         pending' \in [Tables -> Seq(Chunk)],
         \A r \in Tables : Len(pending'[r]) < Cap,
         dtValid' \in [Tables -> BOOLEAN],
         state' \in [Tables -> States],
         latched' \in [Tables -> BOOLEAN],
         silent' \in BOOLEAN, strings' \in StringTypes, swmr' \in BOOLEAN,
         published' \in Seq(Records \cup {Fill, Scratch})
  PROVE  TypeInv'
<1>1. \A p \in Tables :
        /\ buf'[p] \in Seq(Records \cup {Scratch})
        /\ pending'[p] \in Seq(Chunk)
  OBVIOUS
<1>2. TypeOK'
  BY <1>1 DEF TypeOK, Extents, Files, States
<1> QED
  BY <1>2 DEF TypeInv, Buffers

\* Where no buffer grows and no position moves back, the buffers fit.
LEMMA BuffersStay ==
  ASSUME TypeInv, UNCHANGED <<buf, strings>>,
         \A r \in Tables : cur'[r] = cur[r] \/ cur'[r].rows > MaxRows \/ ~strings
  PROVE  \A r \in Tables : Len(buf'[r]) < N \/ Overrun(r)'
BY DEF TypeInv, TypeOK, Overrun

LEMMA InitTypeInv == Init => TypeInv
<1> SUFFICES ASSUME Init PROVE TypeInv
  OBVIOUS
<1> USE Sizes
<1>1. PICK rows \in InitRows, p \in Tables, kind \in Pipelines :
        /\ extent = [rows |-> rows, cols |-> Cols]
        /\ OpenOn(p, kind, rows)
  BY DEF Init
<1>2. rows \in 0 .. MaxRows /\ extent \in Extents
  BY <1>1 DEF Extents
<1>3. /\ pipeline \in [Tables -> Pipelines \cup {"basic"}]
      /\ cur \in [Tables -> Dims]
      /\ state \in [Tables -> States]
  <2>1. \A q \in Tables : [rows |-> IF q = p THEN rows ELSE 0, cols |-> Cols] \in Dims
    BY <1>2 DEF Dims
  <2> QED
    BY <1>1, <2>1 DEF OpenOn, States
<1>4. disk \in Files
  BY DEF Init, Files, Data
<1>5. <<>> \in Seq(Records \cup {Scratch}) /\ <<>> \in Seq(Chunk) /\ Len(<<>>) = 0
      /\ <<>> \in Seq(Records \cup {Fill, Scratch})
  OBVIOUS
<1>6. /\ buf \in [Tables -> Seq(Records \cup {Scratch})]
      /\ pending \in [Tables -> Seq(Chunk)]
      /\ \A r \in Tables : Len(buf[r]) < N /\ Len(pending[r]) < Cap
      /\ \A r \in Tables : buf[r] \in Seq(Records \cup {Scratch}) /\ pending[r] \in Seq(Chunk)
  BY <1>5 DEF Init
<1>7. /\ dtValid \in [Tables -> BOOLEAN] /\ latched \in [Tables -> BOOLEAN]
      /\ silent \in BOOLEAN /\ strings \in StringTypes /\ swmr \in BOOLEAN
  BY <1>1, TableAssumption DEF Init, OpenOn
<1>8. published \in Seq(Records \cup {Fill, Scratch})
  <2>1. Readable(disk) = RecordsOf(extent, disk)
    BY DEF Readable, RecordsOf
  <2>2. RecordsOf(extent, disk) \in Seq(Records \cup {Fill, Scratch})
    BY <1>2, <1>4, RecordsTyped DEF Extents
  <2> QED
    BY <1>5, <2>1, <2>2 DEF Init
<1>9. TypeOK
  BY <1>2, <1>3, <1>4, <1>6, <1>7, <1>8 DEF TypeOK, Extents, Files, States
<1> QED
  BY <1>6, <1>9 DEF TypeInv, Buffers

LEMMA CopyTyped ==
  ASSUME TypeInv, NEW p \in Tables, NEW q \in Tables, Copy(p, q)
  PROVE  TypeInv'
<1> USE Sizes DEF TypeInv
<1>1. PICK kind \in {pipeline[p], "basic"} : pipeline' = [pipeline EXCEPT ![q] = kind]
  BY DEF Copy
<1>2. /\ cur' = [cur EXCEPT ![q] = [rows |-> extent.rows, cols |-> Cols]]
      /\ buf' = [buf EXCEPT ![q] = <<>>] /\ pending' = [pending EXCEPT ![q] = <<>>]
      /\ dtValid' = [dtValid EXCEPT ![q] = TRUE] /\ state' = [state EXCEPT ![q] = "open"]
      /\ latched' = [latched EXCEPT ![q] = swmr]
      /\ UNCHANGED <<extent, disk, silent, strings, swmr, published>>
  BY DEF Copy, fileVars
<1>3. [rows |-> extent.rows, cols |-> Cols] \in Dims
  BY DEF TypeOK, Dims
<1>4. <<>> \in Seq(Records \cup {Scratch}) /\ <<>> \in Seq(Chunk) /\ Len(<<>>) = 0
  OBVIOUS
<1>5. /\ pipeline' \in [Tables -> Pipelines \cup {"basic"}]
      /\ cur' \in [Tables -> Dims]
      /\ dtValid' \in [Tables -> BOOLEAN] /\ state' \in [Tables -> States]
      /\ latched' \in [Tables -> BOOLEAN]
  BY <1>1, <1>2, <1>3 DEF TypeOK, States
<1>6. buf' \in [Tables -> Seq(Records \cup {Scratch})] /\ pending' \in [Tables -> Seq(Chunk)]
  BY <1>2, <1>4 DEF Buffers
<1>7. ASSUME NEW r \in Tables
      PROVE  (Len(buf'[r]) < N \/ Overrun(r)') /\ Len(pending'[r]) < Cap
  <2>1. CASE r = q
    BY <1>2, <1>4, <2>1 DEF Buffers
  <2>2. CASE r # q
    <3>1. buf'[r] = buf[r] /\ pending'[r] = pending[r] /\ cur'[r] = cur[r]
      BY <1>2, <2>2 DEF Buffers, TypeOK
    <3> QED
      BY <1>2, <3>1 DEF TypeOK, Overrun
  <2> QED
    BY <2>1, <2>2
<1> QED
  BY <1>2, <1>5, <1>6, <1>7, TypeStep DEF TypeOK, Extents, Files

LEMMA AppendRecordTyped ==
  ASSUME TypeInv, NEW p \in Tables, NEW v \in Records, AppendRecord(p, v)
  PROVE  TypeInv'
<1> USE Sizes DEF TypeInv
<1> DEFINE b == Append(buf[p], v)
           d == Grown(p, ChunkRows)
<1>1. ~strings /\ UNCHANGED <<pipeline, dtValid, latched, strings, swmr, published>>
  BY DEF AppendRecord, fileVars
<1>2. b \in Seq(Records \cup {Scratch}) /\ Len(b) = Len(buf[p]) + 1 /\ Len(b) \in Nat
  BY BufferFits, <1>1
<1>3. \A r \in Tables : Len(buf[r]) < N /\ Len(buf[r]) \in Nat
  BY BufferFits, <1>1
<1> HIDE DEF b, d
<1>4. CASE /\ ~Full(b)
           /\ buf' = [buf EXCEPT ![p] = b]
           /\ state' = [state EXCEPT ![p] = "open"]
           /\ UNCHANGED <<extent, disk, cur, pending, silent>>
  <2>1. Len(b) < N
    BY <1>2, <1>3, <1>4 DEF Full
  <2>2. buf' \in [Tables -> Seq(Records \cup {Scratch})] /\ \A r \in Tables : Len(buf'[r]) < N
    BY <1>2, <1>3, <1>4, <2>1 DEF Buffers
  <2>3. state' \in [Tables -> States]
    BY <1>4 DEF TypeOK, States
  <2> QED
    BY <1>1, <1>4, <2>2, <2>3, TypeStep DEF TypeOK, Buffers, Extents, Files
<1>5. CASE Full(b) /\ buf' = [buf EXCEPT ![p] = <<>>] /\ (ExtendThrows(p, d) \/ ExtendAndWrite(p, d, b))
  <2>1. buf' \in [Tables -> Seq(Records \cup {Scratch})] /\ \A r \in Tables : Len(buf'[r]) < N
    <3>1. <<>> \in Seq(Records \cup {Scratch}) /\ Len(<<>>) = 0
      OBVIOUS
    <3> QED
      BY <1>3, <1>5, <3>1 DEF Buffers
  <2>2. CASE ExtendThrows(p, d)
    <3>1. /\ cur' \in [Tables -> Dims] /\ state' \in [Tables -> States]
          /\ UNCHANGED <<extent, disk, pending, silent>>
      BY <2>2, ThrowsTyped DEF States, d
    <3> QED
      BY <1>1, <2>1, <3>1, TypeStep DEF TypeOK, Buffers, Extents, Files
  <2>3. CASE ExtendAndWrite(p, d, b)
    BY <1>1, <1>2, <1>5, <2>1, <2>3, FullTyped, ExtendTyped, TypeStep DEF TypeOK, States, d
  <2> QED
    BY <1>5, <2>2, <2>3
<1> QED
  BY <1>4, <1>5 DEF AppendRecord, b, d

LEMMA AppendStringTyped ==
  ASSUME TypeInv, NEW p \in Tables, NEW v \in Records, AppendString(p, v)
  PROVE  TypeInv'
<1> USE Sizes DEF TypeInv
<1> DEFINE b == Append(buf[p], v)
           d == Grown(p, ChunkRows)
<1>1. strings /\ UNCHANGED <<pipeline, dtValid, latched, strings, swmr, published>>
  BY DEF AppendString, fileVars
<1>2. buf[p] \in Seq(Records \cup {Scratch})
  BY DEF Buffers
<1>3. b \in Seq(Records \cup {Scratch}) /\ Len(b) = Len(buf[p]) + 1 /\ Len(b) \in Nat
  BY <1>2
<1>4. d \in Dims /\ (CanExtend(d) => d \in Extents)
  BY GrownTyped
<1> HIDE DEF b, d
<1>5. CASE /\ ~Full(b) /\ Len(b) <= N + Slack
           /\ buf' = [buf EXCEPT ![p] = b]
           /\ state' = [state EXCEPT ![p] = "open"]
           /\ UNCHANGED <<extent, disk, cur, pending, silent>>
  <2>1. buf' \in [Tables -> Seq(Records \cup {Scratch})] /\ state' \in [Tables -> States]
    BY <1>3, <1>5 DEF TypeOK, Buffers, States
  <2>2. ASSUME NEW r \in Tables PROVE Len(buf'[r]) < N \/ Overrun(r)'
    <3>1. Len(buf[r]) < N \/ Overrun(r)
      BY DEF TypeOK
    <3>2. CASE r # p
      BY <1>1, <1>5, <3>1, <3>2 DEF Overrun, Buffers
    <3>3. CASE r = p /\ Len(b) < N
      BY <1>5, <3>3 DEF Buffers
    <3>4. CASE r = p /\ ~(Len(b) < N)
      <4>1. ~(Len(buf[p]) < N)
        <5>1. Len(b) # N
          BY <1>5 DEF Full
        <5>2. Len(buf[p]) \in Nat /\ N \in Nat
          BY <1>2
        <5> HIDE DEF TypeInv
        <5> QED
          BY <1>3, <3>4, <5>1, <5>2
      <4>2. buf'[r] = b
        BY <1>5, <3>4 DEF Buffers
      <4> QED
        BY <1>1, <1>5, <3>1, <3>4, <4>1, <4>2 DEF Overrun
    <3> QED
      BY <3>2, <3>3, <3>4
  <2> QED
    BY <1>1, <1>5, <2>1, <2>2, TypeStep DEF TypeOK, Buffers, Extents, Files
<1>6. CASE Full(b) /\ buf' = [buf EXCEPT ![p] = b] /\ ExtendThrows(p, d)
  <2>1. /\ cur' \in [Tables -> Dims] /\ state' \in [Tables -> States]
        /\ cur'[p].rows > MaxRows
        /\ \A r \in Tables : r # p => cur'[r] = cur[r]
        /\ UNCHANGED <<extent, disk, pending, silent>>
    BY <1>6, ThrowsTyped DEF States, d
  <2>2. buf' \in [Tables -> Seq(Records \cup {Scratch})]
    BY <1>3, <1>6 DEF Buffers
  <2>3. ASSUME NEW r \in Tables PROVE Len(buf'[r]) < N \/ Overrun(r)'
    <3>1. CASE r # p
      BY <1>1, <1>6, <2>1, <3>1 DEF TypeOK, Overrun, Buffers
    <3>2. CASE r = p
      <4>1. Len(buf'[r]) <= N + Slack
        BY <1>6, <3>2 DEF Buffers, Full
      <4> QED
        BY <1>1, <2>1, <3>2, <4>1 DEF Overrun
    <3> QED
      BY <3>1, <3>2
  <2> QED
    BY <1>1, <2>1, <2>2, <2>3, TypeStep DEF TypeOK, Buffers, Extents, Files
<1>7. CASE /\ Full(b) /\ CanExtend(d)
           /\ buf' = [buf EXCEPT ![p] = <<>>]
           /\ cur' = [cur EXCEPT ![p] = d]
           /\ extent' = d
           /\ WriteStrings(p, d, b)
           /\ state' = [state EXCEPT ![p] = "open"]
           /\ UNCHANGED pending
  <2>1. disk \in Files /\ cur[p].rows \in Nat /\ silent \in BOOLEAN
    BY DEF TypeOK, Files, Dims
  <2>2. Resize(d, disk) \in Files
    BY <2>1, ResizeTyped
  <2>3. disk' \in Files /\ silent' \in BOOLEAN
    <3>1. \A c \in Characters(b) : PutStrings(Resize(d, disk), cur[p].rows, c) \in Files
      BY <1>3, <2>1, <2>2, CharactersTyped, PutStringsTyped
    <3> QED
      BY <1>7, <2>1, <2>2, <3>1 DEF WriteStrings
  <2>4. <<>> \in Seq(Records \cup {Scratch}) /\ Len(<<>>) = 0
    OBVIOUS
  <2>5. buf' \in [Tables -> Seq(Records \cup {Scratch})]
    BY <1>7, <2>4 DEF Buffers
  <2>6. ASSUME NEW r \in Tables PROVE Len(buf'[r]) < N \/ Overrun(r)'
    <3>1. CASE r # p
      BY <1>1, <1>7, <3>1 DEF TypeOK, Overrun, Buffers
    <3>2. CASE r = p
      BY <1>7, <2>4, <3>2 DEF Buffers
    <3> QED
      BY <3>1, <3>2
  <2>7. cur' \in [Tables -> Dims] /\ state' \in [Tables -> States] /\ extent' \in Extents
    BY <1>4, <1>7 DEF TypeOK, States
  <2> QED
    BY <1>1, <1>7, <2>3, <2>5, <2>6, <2>7, TypeStep DEF TypeOK, Buffers
<1> QED
  BY <1>5, <1>6, <1>7 DEF AppendString, b, d

\* The scratch buffer after a block.
LEMMA ScratchTyped ==
  ASSUME TypeInv, ~strings, NEW p \in Tables, NEW data \in [1 .. N -> Records],
         ScratchUsed(p, data) \/ UNCHANGED buf
  PROVE  /\ buf' \in [Tables -> Seq(Records \cup {Scratch})]
         /\ \A r \in Tables : Len(buf'[r]) < N
<1> USE Sizes
<1>1. buf \in [Tables -> Seq(Records \cup {Scratch})] /\ \A r \in Tables : Len(buf[r]) < N
  BY BufferFits DEF TypeInv, Buffers
<1>2. Len(buf[p]) \in Nat /\ Len(buf[p]) < N
  BY BufferFits
<1>3. ASSUME NEW b \in {data, [i \in 1 .. N |-> Scratch]}
      PROVE  /\ SubSeq(b, 1, Len(buf[p])) \in Seq(Records \cup {Scratch})
             /\ Len(SubSeq(b, 1, Len(buf[p]))) = Len(buf[p])
  <2>1. \A i \in 1 .. Len(buf[p]) : b[i] \in Records \cup {Scratch}
    BY <1>2
  <2>2. 1 \in Int /\ Len(buf[p]) \in Int
    BY <1>2
  <2>3. /\ SubSeq(b, 1, Len(buf[p])) \in Seq(Records \cup {Scratch})
        /\ Len(SubSeq(b, 1, Len(buf[p]))) = IF 1 <= Len(buf[p]) THEN Len(buf[p]) - 1 + 1 ELSE 0
    BY <2>1, <2>2, SubSeqProperties
  <2> QED
    BY <1>2, <2>3
<1>4. CASE UNCHANGED buf
  BY <1>1, <1>4
<1>5. ASSUME NEW b \in {data, [i \in 1 .. N |-> Scratch]},
             buf' = [buf EXCEPT ![p] = SubSeq(b, 1, Len(buf[p]))]
      PROVE  /\ buf' \in [Tables -> Seq(Records \cup {Scratch})]
             /\ \A r \in Tables : Len(buf'[r]) < N
  BY <1>1, <1>2, <1>3, <1>5
<1> QED
  BY <1>4, <1>5 DEF ScratchUsed

\* The three appends of a block differ in how far the position moves.
LEMMA BlockTyped ==
  ASSUME TypeInv, ~strings, NEW p \in Tables, NEW rows \in Nat, NEW data \in [1 .. N -> Records],
         \/ ExtendThrows(p, Grown(p, rows)) /\ UNCHANGED buf
         \/ ExtendAndWrite(p, Grown(p, rows), data) /\ ScratchUsed(p, data),
         UNCHANGED <<pipeline, dtValid, latched, strings, swmr, published>>
  PROVE  TypeInv'
<1> USE DEF TypeInv
<1>1. /\ buf' \in [Tables -> Seq(Records \cup {Scratch})]
      /\ \A r \in Tables : Len(buf'[r]) < N
  BY ScratchTyped
<1>2. data \in Data
  BY DEF Data
<1>3. CASE ExtendThrows(p, Grown(p, rows))
  <2>1. /\ cur' \in [Tables -> Dims] /\ state' \in [Tables -> States]
        /\ UNCHANGED <<extent, disk, pending, silent>>
    BY <1>3, ThrowsTyped DEF States
  <2> QED
    BY <1>1, <2>1, TypeStep DEF TypeOK, Buffers, Extents, Files
<1>4. CASE ExtendAndWrite(p, Grown(p, rows), data)
  <2>1. /\ cur' \in [Tables -> Dims] /\ extent' \in Extents /\ state' \in [Tables -> States]
        /\ disk' \in Files /\ silent' \in BOOLEAN
        /\ pending' \in [Tables -> Seq(Chunk)]
        /\ \A r \in Tables : Len(pending'[r]) < Cap
    BY <1>2, <1>4, ExtendTyped DEF States
  <2> QED
    BY <1>1, <2>1, TypeStep DEF TypeOK
<1> QED
  BY <1>3, <1>4

LEMMA AppendPointerTyped ==
  ASSUME TypeInv, NEW p \in Tables, NEW data \in [1 .. N -> Records], AppendPointer(p, data)
  PROVE  TypeInv'
BY Sizes, BlockTyped DEF AppendPointer, fileVars

LEMMA AppendContainerTyped ==
  ASSUME TypeInv, NEW p \in Tables, NEW data \in [1 .. N -> Records], AppendContainer(p, data)
  PROVE  TypeInv'
BY BlockTyped DEF AppendContainer, fileVars

LEMMA AppendMisfitTyped ==
  ASSUME TypeInv, NEW p \in Tables, AppendMisfit(p)
  PROVE  TypeInv'
<1> USE Sizes DEF TypeInv
<1> DEFINE d == Grown(p, 1)
<1>1. ~strings /\ UNCHANGED <<pipeline, buf, dtValid, latched, strings, swmr, published>>
  BY DEF AppendMisfit, fileVars
<1>2. \A r \in Tables : Len(buf'[r]) < N
  BY <1>1, BufferFits
<1>3. d \in Dims /\ (CanExtend(d) => d \in Extents)
  BY GrownTyped
<1>4. CASE ExtendThrows(p, d)
  <2>1. /\ cur' \in [Tables -> Dims] /\ state' \in [Tables -> States]
        /\ UNCHANGED <<extent, disk, pending, silent>>
    BY <1>4, ThrowsTyped DEF States
  <2> QED
    BY <1>1, <1>2, <2>1, TypeStep DEF TypeOK, Buffers, Extents, Files
<1> HIDE DEF d
<1>5. CASE /\ CanExtend(d)
           /\ cur' = [cur EXCEPT ![p] = d]
           /\ extent' = d
           /\ disk' = Resize(d, disk)
           /\ state' = [state EXCEPT ![p] = "open"]
           /\ UNCHANGED <<pending, silent>>
  <2>1. disk' \in Files
    BY <1>5, ResizeTyped DEF TypeOK, Files
  <2>2. cur' \in [Tables -> Dims] /\ state' \in [Tables -> States] /\ extent' \in Extents
    BY <1>3, <1>5 DEF TypeOK, States
  <2> QED
    BY <1>1, <1>2, <1>5, <2>1, <2>2, TypeStep DEF TypeOK, Buffers
<1> QED
  BY <1>4, <1>5 DEF AppendMisfit, d

\* What a flush has to store, and where.
LEMMA FlushQueueTyped ==
  ASSUME TypeInv, NEW p \in Tables
  PROVE  /\ FlushQueue(p) \in Seq(Chunk) /\ Len(FlushQueue(p)) \in Nat
         /\ CanExtend(FlushDims(p)) => FlushDims(p) \in Extents
         /\ buf[p] # <<>> => FlushDims(p) = Grown(p, ChunkRows)
<1> USE DEF TypeInv
<1>1. pending[p] \in Seq(Chunk) /\ buf[p] \in Seq(Records \cup {Scratch})
  BY DEF Buffers
<1>2. [off |-> cur[p].rows, data |-> Padded(buf[p])] \in Chunk
  BY <1>1, PaddedTyped DEF TypeOK, Dims, Chunk
<1>3. FlushQueue(p) \in Seq(Chunk) /\ Len(FlushQueue(p)) \in Nat
  BY <1>1, <1>2 DEF FlushQueue
<1>4. CanExtend(FlushDims(p)) => FlushDims(p) \in Extents
  BY GrownTyped, Sizes DEF FlushDims, TypeOK, Extents
<1> QED
  BY <1>3, <1>4 DEF FlushDims

\* Nothing is left of the queue.
LEMMA QueueDrained ==
  ASSUME TypeInv, NEW p \in Tables
  PROVE  LET q == FlushQueue(p) IN SubSeq(q, DrainCount(p, q) + 1, Len(q)) = <<>>
<1> DEFINE q == FlushQueue(p)
<1>1. Len(q) \in Nat
  BY FlushQueueTyped
<1> HIDE DEF q
<1>2. SubSeq(q, Len(q) + 1, Len(q)) = <<>>
  BY <1>1, SubSeqEmpty
<1> QED
  BY <1>2 DEF DrainCount, q

\* The file, its extent and what the readers see behind a flush.
LEMMA FlushedTyped ==
  ASSUME TypeInv, NEW p \in Tables, Flushed(p)
  PROVE  /\ extent' \in Extents /\ disk' \in Files /\ silent' \in BOOLEAN
         /\ published' \in Seq(Records \cup {Fill, Scratch})
<1> USE DEF TypeInv
<1> DEFINE d == FlushDims(p)
           q == FlushQueue(p)
<1>1. q \in Seq(Chunk) /\ Len(q) \in Nat
  BY FlushQueueTyped
<1>2. d \in Extents /\ extent' = d
  BY FlushQueueTyped DEF Flushed
<1>3. /\ disk \in Files /\ cur[p].rows \in Nat /\ silent \in BOOLEAN
      /\ buf[p] \in Seq(Records \cup {Scratch})
      /\ published \in Seq(Records \cup {Fill, Scratch})
  BY DEF TypeOK, Buffers, Files, Dims
<1> DEFINE w == SubSeq(q, 1, DrainCount(p, q))
<1>4. w \in Seq(Chunk)
  <2>1. \A i \in 1 .. Len(q) : q[i] \in Chunk
    BY <1>1
  <2>2. SubSeq(q, 1, Len(q)) \in Seq(Chunk)
    BY <1>1, <2>1, SubSeqProperties
  <2> QED
    BY <2>2 DEF DrainCount
<1>5. ASSUME NEW c \in Characters(buf[p])
      PROVE  PutChunks(d, FlushFile(p, c), w) \in Files
  <2>1. Resize(d, disk) \in Files
    BY <1>3, ResizeTyped
  <2>2. PutStrings(Resize(d, disk), cur[p].rows, c) \in Files
    BY <1>3, <2>1, CharactersTyped, PutStringsTyped
  <2>3. FlushFile(p, c) \in Files
    BY <2>1, <2>2 DEF FlushFile
  <2> QED
    BY <1>4, <2>3, PutChunksTyped
<1>6. \E c \in Characters(buf[p]) : disk' = PutChunks(d, FlushFile(p, c), w)
  BY DEF Flushed
<1>7. disk' \in Files
  BY <1>5, <1>6
<1>8. Readable(disk)' \in Seq(Records \cup {Fill, Scratch})
  <2>1. Readable(disk)' = RecordsOf(extent', disk')
    BY DEF Readable, RecordsOf
  <2> QED
    BY <1>2, <1>7, <2>1, RecordsTyped DEF Extents
<1>9. published' \in Seq(Records \cup {Fill, Scratch})
  BY <1>3, <1>8 DEF Flushed
<1>10. silent' \in BOOLEAN
  BY DEF Flushed
<1> QED
  BY <1>2, <1>7, <1>9, <1>10

\* The table that flushes stands behind its partial chunk and holds nothing.
LEMMA FlushedOwnTyped ==
  ASSUME TypeInv, NEW p \in Tables, FlushedOwn(p), UNCHANGED strings
  PROVE  /\ cur' \in [Tables -> Dims] /\ latched' \in [Tables -> BOOLEAN]
         /\ buf' = [buf EXCEPT ![p] = <<>>]
         /\ buf' \in [Tables -> Seq(Records \cup {Scratch})]
         /\ \A r \in Tables : Len(buf'[r]) < N \/ Overrun(r)'
         /\ pending' = [pending EXCEPT ![p] = <<>>]
         /\ pending' \in [Tables -> Seq(Chunk)]
         /\ \A r \in Tables : Len(pending'[r]) < Cap
<1> USE Sizes DEF TypeInv
<1>1. <<>> \in Seq(Records \cup {Scratch}) /\ <<>> \in Seq(Chunk) /\ Len(<<>>) = 0
  OBVIOUS
<1>2. /\ cur' = IF buf[p] # <<>> THEN [cur EXCEPT ![p] = FlushDims(p)] ELSE cur
      /\ buf' = [buf EXCEPT ![p] = <<>>]
      /\ latched' = [latched EXCEPT ![p] = Latched(p)]
  BY DEF FlushedOwn
<1>3. pending' = [pending EXCEPT ![p] = <<>>]
  BY QueueDrained DEF FlushedOwn
<1>4. cur' \in [Tables -> Dims]
  <2>1. buf[p] # <<>> => FlushDims(p) \in Dims
    BY FlushQueueTyped, GrownTyped
  <2> QED
    BY <1>2, <2>1 DEF TypeOK
<1>5. latched' \in [Tables -> BOOLEAN]
  <2>1. Latched(p) \in BOOLEAN
    BY DEF Latched
  <2> QED
    BY <1>2, <2>1 DEF TypeOK
<1>6. buf' \in [Tables -> Seq(Records \cup {Scratch})] /\ pending' \in [Tables -> Seq(Chunk)]
  BY <1>1, <1>2, <1>3 DEF Buffers
<1>7. ASSUME NEW r \in Tables
      PROVE  (Len(buf'[r]) < N \/ Overrun(r)') /\ Len(pending'[r]) < Cap
  <2>1. CASE r = p
    BY <1>1, <1>2, <1>3, <2>1 DEF Buffers
  <2>2. CASE r # p
    <3>1. buf'[r] = buf[r] /\ pending'[r] = pending[r] /\ cur'[r] = cur[r]
      BY <1>2, <1>3, <2>2 DEF TypeOK, Buffers
    <3> QED
      BY <3>1 DEF TypeOK, Overrun
  <2> QED
    BY <2>1, <2>2
<1> QED
  BY <1>2, <1>3, <1>4, <1>5, <1>6, <1>7

\* A flush that throws.
LEMMA FlushFailsTyped ==
  ASSUME TypeInv, NEW p \in Tables, FlushFails(p), UNCHANGED strings
  PROVE  /\ cur' \in [Tables -> Dims]
         /\ \A r \in Tables : Len(buf'[r]) < N \/ Overrun(r)'
         /\ UNCHANGED <<extent, disk, pending, buf, silent, latched, published>>
<1>1. Grown(p, ChunkRows) \in Dims
  BY GrownTyped, Sizes
<1>2. Grown(p, ChunkRows).rows \in Nat /\ ~(Grown(p, ChunkRows).rows <= MaxRows)
  BY <1>1 DEF Dims, FlushFails, CanExtend
<1>3. /\ cur' = [cur EXCEPT ![p] = Grown(p, ChunkRows)]
      /\ UNCHANGED <<extent, disk, pending, buf, silent, latched, published>>
  BY DEF FlushFails
<1>4. \A r \in Tables : cur'[r] = cur[r] \/ cur'[r].rows > MaxRows
  BY <1>2, <1>3, Sizes DEF TypeInv, TypeOK
<1> QED
  BY <1>1, <1>3, <1>4, BuffersStay DEF TypeInv, TypeOK

LEMMA FlushTyped ==
  ASSUME TypeInv, NEW p \in Tables, Flush(p)
  PROVE  TypeInv'
<1> USE DEF TypeInv
<1>1. UNCHANGED <<pipeline, dtValid, strings, swmr>>
  BY DEF Flush
<1>2. state' \in [Tables -> States]
  BY DEF Flush, TypeOK, States
<1>3. CASE FlushedOwn(p)
  <2>1. Flushed(p)
    BY <1>3 DEF FlushedOwn
  <2> QED
    BY <1>1, <1>2, <1>3, <2>1, FlushedTyped, FlushedOwnTyped, TypeStep DEF TypeOK
<1>4. CASE FlushFails(p)
  BY <1>1, <1>2, <1>4, FlushFailsTyped, TypeStep DEF TypeOK, Buffers, Extents, Files
<1> QED
  BY <1>3, <1>4 DEF Flush

LEMMA DestroyTyped ==
  ASSUME TypeInv, NEW p \in Tables, Destroy(p)
  PROVE  TypeInv'
<1> USE DEF TypeInv
<1>1. UNCHANGED <<pipeline, strings, swmr>> /\ dtValid' \in [Tables -> BOOLEAN]
  BY DEF Destroy, TypeOK
<1>2. state' \in [Tables -> States]
  BY DEF Destroy, TypeOK, States
<1>3. CASE FlushedOwn(p)
  <2>1. Flushed(p)
    BY <1>3 DEF FlushedOwn
  <2> QED
    BY <1>1, <1>2, <1>3, <2>1, FlushedTyped, FlushedOwnTyped, TypeStep DEF TypeOK
<1>4. CASE FlushFails(p)
  BY <1>1, <1>2, <1>4, FlushFailsTyped, TypeStep DEF TypeOK, Buffers, Extents, Files
<1> QED
  BY <1>3, <1>4 DEF Destroy

\* One table takes over what another one holds.
LEMMA HandoverTyped ==
  ASSUME TypeInv, NEW p \in Tables, NEW q \in Tables, Handover(p, q), UNCHANGED strings
  PROVE  /\ pipeline' \in [Tables -> Pipelines \cup {"basic"}]
         /\ cur' \in [Tables -> Dims]
         /\ buf' \in [Tables -> Seq(Records \cup {Scratch})]
         /\ \A r \in Tables : Len(buf'[r]) < N \/ Overrun(r)'
         /\ pending' \in [Tables -> Seq(Chunk)]
         /\ \A r \in Tables : Len(pending'[r]) < Cap
         /\ state' \in [Tables -> States] /\ latched' \in [Tables -> BOOLEAN]
<1> USE Sizes DEF TypeInv
<1>1. <<>> \in Seq(Records \cup {Scratch}) /\ <<>> \in Seq(Chunk) /\ Len(<<>>) = 0
  OBVIOUS
<1>2. /\ pipeline' = [pipeline EXCEPT ![q] = pipeline[p]]
      /\ cur' = [cur EXCEPT ![q] = cur[p]]
      /\ latched' = [latched EXCEPT ![q] = latched[p]]
      /\ state' = [state EXCEPT ![q] = state[p], ![p] = "closed"]
      /\ buf' = [buf EXCEPT ![q] = buf[p], ![p] = <<>>]
      /\ pending' = [pending EXCEPT ![q] = pending[p], ![p] = <<>>]
  BY DEF Handover
<1>3. /\ pipeline' \in [Tables -> Pipelines \cup {"basic"}] /\ cur' \in [Tables -> Dims]
      /\ state' \in [Tables -> States] /\ latched' \in [Tables -> BOOLEAN]
  BY <1>2 DEF TypeOK, States
<1>4. buf' \in [Tables -> Seq(Records \cup {Scratch})] /\ pending' \in [Tables -> Seq(Chunk)]
  BY <1>1, <1>2 DEF Buffers
<1>5. ASSUME NEW r \in Tables
      PROVE  (Len(buf'[r]) < N \/ Overrun(r)') /\ Len(pending'[r]) < Cap
  <2>1. CASE r = p
    BY <1>1, <1>2, <2>1 DEF Buffers
  <2>2. CASE r # p
    <3>1. PICK o \in Tables : buf'[r] = buf[o] /\ pending'[r] = pending[o] /\ cur'[r] = cur[o]
      BY <1>2, <2>2 DEF TypeOK, Buffers
    <3> QED
      BY <3>1 DEF TypeOK, Overrun
  <2> QED
    BY <2>1, <2>2
<1> QED
  BY <1>3, <1>4, <1>5

LEMMA MoveTyped ==
  ASSUME TypeInv, NEW p \in Tables, NEW q \in Tables, Move(p, q)
  PROVE  TypeInv'
<1>1. Handover(p, q) /\ UNCHANGED <<extent, disk, dtValid, silent, strings, swmr, published>>
  BY DEF Move, fileVars
<1> QED
  BY <1>1, HandoverTyped, TypeStep DEF TypeInv, TypeOK, Extents, Files

LEMMA MoveOntoTyped ==
  ASSUME TypeInv, NEW p \in Tables, NEW q \in Tables, MoveOnto(p, q)
  PROVE  TypeInv'
<1> USE DEF TypeInv
<1>1. UNCHANGED <<dtValid, strings, swmr>>
  BY DEF MoveOnto
<1>2. CASE Flushed(q) /\ Handover(p, q)
  BY <1>1, <1>2, FlushedTyped, HandoverTyped, TypeStep DEF TypeOK
<1>3. CASE FlushFails(q) /\ state' = [state EXCEPT ![q] = "open"] /\ UNCHANGED pipeline
  <2>1. state' \in [Tables -> States]
    BY <1>3 DEF TypeOK, States
  <2> QED
    BY <1>1, <1>3, <2>1, FlushFailsTyped, TypeStep DEF TypeOK, Buffers, Extents, Files
<1> QED
  BY <1>2, <1>3 DEF MoveOnto

LEMMA ResetTyped ==
  ASSUME TypeInv, NEW p \in Tables, Reset(p)
  PROVE  TypeInv'
<1> USE Sizes DEF TypeInv
<1>1. /\ "reset" \in Calls
      /\ cur' = [cur EXCEPT ![p] = [rows |-> 0, cols |-> IF Rank = 1 THEN Cols ELSE 0]]
      /\ state' = [state EXCEPT ![p] = "open"]
      /\ UNCHANGED <<extent, disk, pipeline, buf, pending, dtValid, latched, silent,
                     strings, swmr, published>>
  BY DEF Reset, fileVars
<1>2. cur' \in [Tables -> Dims] /\ state' \in [Tables -> States]
  BY <1>1 DEF TypeOK, Dims, States
<1>3. \A r \in Tables : Len(buf'[r]) < N \/ Overrun(r)'
  BY <1>1 DEF TypeOK, Overrun
<1> QED
  BY <1>1, <1>2, <1>3, TypeStep DEF TypeOK, Buffers, Extents, Files

LEMMA StartSwmrTyped ==
  ASSUME TypeInv, StartSwmr
  PROVE  TypeInv'
<1> USE DEF TypeInv
<1>1. Readable(disk) \in Seq(Records \cup {Fill, Scratch})
  <2>1. Readable(disk) = RecordsOf(extent, disk)
    BY DEF Readable, RecordsOf
  <2> QED
    BY <2>1, RecordsTyped DEF TypeOK, Files
<1>2. /\ swmr' = TRUE /\ published' = Readable(disk)
      /\ UNCHANGED <<extent, disk, pipeline, cur, buf, pending, dtValid, state, latched,
                     silent, strings>>
  BY DEF StartSwmr, tableVars
<1>3. \A r \in Tables : Len(buf'[r]) < N \/ Overrun(r)'
  BY <1>2, BuffersStay
<1> QED
  BY <1>1, <1>2, <1>3, TypeStep DEF TypeOK, Buffers, Extents, Files, States

LEMMA StutterTyped ==
  ASSUME TypeInv, UNCHANGED vars
  PROVE  TypeInv'
<1>1. UNCHANGED <<extent, disk, pipeline, cur, buf, pending, dtValid, state, latched,
                  silent, strings, swmr, published>>
  BY DEF vars, tableVars, fileVars
<1>2. \A r \in Tables : Len(buf'[r]) < N \/ Overrun(r)'
  BY <1>1, BuffersStay DEF TypeInv
<1> QED
  BY <1>1, <1>2, TypeStep DEF TypeInv, TypeOK, Buffers, Extents, Files, States

LEMMA NextTypeInv == TypeInv /\ [Next]_vars => TypeInv'
<1> SUFFICES ASSUME TypeInv, [Next]_vars PROVE TypeInv'
  OBVIOUS
<1>1. ASSUME NEW p \in Tables, NEW v \in Records, AppendRecord(p, v) \/ AppendString(p, v)
      PROVE  TypeInv'
  BY <1>1, AppendRecordTyped, AppendStringTyped
<1>2. ASSUME NEW p \in Tables, NEW data \in [1 .. N -> Records],
             AppendPointer(p, data) \/ AppendContainer(p, data)
      PROVE  TypeInv'
  BY <1>2, AppendPointerTyped, AppendContainerTyped
<1>3. ASSUME NEW p \in Tables, AppendMisfit(p) \/ Flush(p) \/ Destroy(p) \/ Reset(p)
      PROVE  TypeInv'
  BY <1>3, AppendMisfitTyped, FlushTyped, DestroyTyped, ResetTyped
<1>4. ASSUME NEW p \in Tables, NEW q \in Tables, Copy(p, q) \/ Move(p, q) \/ MoveOnto(p, q)
      PROVE  TypeInv'
  BY <1>4, CopyTyped, MoveTyped, MoveOntoTyped
<1>5. CASE StartSwmr \/ Ended \/ UNCHANGED vars
  BY <1>5, StartSwmrTyped, StutterTyped DEF Ended
<1> QED
  BY <1>1, <1>2, <1>3, <1>4, <1>5 DEF Next

\* The variables have their types: the extent stays inside the capacity, a
\* chunk that is written is a chunk of the dataset, the queue stays below the
\* cap, and the buffer is overrun in no other case than that of strings on a
\* dataset that cannot grow.
THEOREM TypeCorrect == Spec => []TypeOK
<1>1. TypeInv => TypeOK
  BY DEF TypeInv
<1> QED
  BY <1>1, InitTypeInv, NextTypeInv, PTL DEF Spec

-----------------------------------------------------------------------------
(* Positions.                                                              *)
(*                                                                         *)
(* Whatever a call does, seen from the extent and the positions it is one  *)
(* of four things: the dataset grows to where the table then stands, the   *)
(* table moves although the dataset cannot grow, both stay, or one table   *)
(* takes the place of another (Effect).  The invariants follow from these  *)
(* four instead of from the thirteen actions.  Where the tables stand also *)
(* decides which chunks have a place in the file, and so what is stored.   *)

\* The calls that move a position away from the extent are not made: reset()
\* does so by itself, and where a dataset has two tables one of them stands
\* still when the other one grows it.
Steady == "reset" \notin Calls /\ "copy" \notin Calls

\* By how many rows the calls that are made let a table grow.
Steps == {ChunkRows} \cup {r \in {1} : "container" \in Calls \/ "misfit" \in Calls}

Entered(p, s) == state' = [state EXCEPT ![p] = s]

Grows(p, rows) ==
    /\ CanExtend(Grown(p, rows))
    /\ extent' = Grown(p, rows)
    /\ cur' = [cur EXCEPT ![p] = Grown(p, rows)]
    /\ \E s \in {"open", "synced", "closed"} : Entered(p, s)

Runs(p, rows) ==
    /\ ~CanExtend(Grown(p, rows))
    /\ cur' = [cur EXCEPT ![p] = Grown(p, rows)]
    /\ UNCHANGED extent
    /\ \E s \in {"open", "crashed"} : Entered(p, s)

Stays(p) ==
    /\ UNCHANGED <<extent, cur>>
    /\ \E s \in {"open", "synced", "closed"} : Entered(p, s)

Moves(p, q) ==
    /\ Usable(p) /\ state[q] = "closed"
    /\ Handover(p, q)
    /\ UNCHANGED extent

Effect ==
    \/ \E p \in Tables : /\ Usable(p)
                         /\ (\E rows \in Steps : Grows(p, rows) \/ Runs(p, rows)) \/ Stays(p)
    \/ \E p, q \in Tables : Moves(p, q)
    \/ UNCHANGED <<extent, cur, state>>

\* One table has the dataset.
OneTable == \A p, q \in Tables : state[p] # "closed" /\ state[q] # "closed" => p = q

PositionInv == TypeInv /\ OneTable /\ PositionIsExtent

-----------------------------------------------------------------------------
(* Every step has one of the effects. *)

LEMMA ThrowsRun ==
  ASSUME NEW p \in Tables, NEW rows, ExtendThrows(p, Grown(p, rows))
  PROVE  Runs(p, rows)
BY DEF ExtendThrows, Runs, Entered

LEMMA ExtendGrows ==
  ASSUME NEW p \in Tables, NEW rows, NEW data, ExtendAndWrite(p, Grown(p, rows), data)
  PROVE  Grows(p, rows)
BY DEF ExtendAndWrite, Grows, Entered

LEMMA BlockEffect ==
  ASSUME NEW p \in Tables, Usable(p), NEW rows \in Steps, NEW data,
         \/ ExtendThrows(p, Grown(p, rows)) /\ UNCHANGED buf
         \/ ExtendAndWrite(p, Grown(p, rows), data) /\ ScratchUsed(p, data)
  PROVE  Effect
BY ThrowsRun, ExtendGrows DEF Effect

LEMMA RecordEffect ==
  ASSUME NEW p \in Tables, NEW v, AppendRecord(p, v)
  PROVE  Effect
<1> DEFINE b == Append(buf[p], v)
           d == Grown(p, ChunkRows)
<1>1. Usable(p) /\ ChunkRows \in Steps
  BY DEF AppendRecord, Steps
<1>2. CASE state' = [state EXCEPT ![p] = "open"] /\ UNCHANGED <<extent, cur>>
  <2>1. Stays(p)
    BY <1>2 DEF Stays, Entered
  <2> QED
    BY <1>1, <2>1 DEF Effect
<1>3. CASE ExtendThrows(p, d)
  BY <1>1, <1>3, ThrowsRun DEF Effect
<1>4. CASE ExtendAndWrite(p, d, b)
  BY <1>1, <1>4, ExtendGrows DEF Effect
<1> HIDE DEF b, d
<1> QED
  BY <1>2, <1>3, <1>4 DEF AppendRecord, b, d

LEMMA StringEffect ==
  ASSUME NEW p \in Tables, NEW v, AppendString(p, v)
  PROVE  Effect
<1> DEFINE b == Append(buf[p], v)
           d == Grown(p, ChunkRows)
<1>1. Usable(p) /\ ChunkRows \in Steps
  BY DEF AppendString, Steps
<1>2. CASE state' = [state EXCEPT ![p] = "open"] /\ UNCHANGED <<extent, cur>>
  <2>1. Stays(p)
    BY <1>2 DEF Stays, Entered
  <2> QED
    BY <1>1, <2>1 DEF Effect
<1>3. CASE ExtendThrows(p, d)
  BY <1>1, <1>3, ThrowsRun DEF Effect
<1>4. CASE /\ CanExtend(d) /\ extent' = d
           /\ cur' = [cur EXCEPT ![p] = d]
           /\ state' = [state EXCEPT ![p] = "open"]
  <2>1. Grows(p, ChunkRows)
    BY <1>4 DEF Grows, Entered
  <2> QED
    BY <1>1, <2>1 DEF Effect
<1> HIDE DEF b, d
<1> QED
  BY <1>2, <1>3, <1>4 DEF AppendString, b, d

LEMMA MisfitEffect ==
  ASSUME NEW p \in Tables, AppendMisfit(p)
  PROVE  Effect
<1> DEFINE d == Grown(p, 1)
<1>1. Usable(p) /\ 1 \in Steps
  BY DEF AppendMisfit, Steps
<1>2. CASE ExtendThrows(p, d)
  BY <1>1, <1>2, ThrowsRun DEF Effect
<1>3. CASE /\ CanExtend(d) /\ extent' = d
           /\ cur' = [cur EXCEPT ![p] = d]
           /\ state' = [state EXCEPT ![p] = "open"]
  <2>1. Grows(p, 1)
    BY <1>3 DEF Grows, Entered
  <2> QED
    BY <1>1, <2>1 DEF Effect
<1> HIDE DEF d
<1> QED
  BY <1>2, <1>3 DEF AppendMisfit, d

\* What flush() and the destructor do before they set the state.
LEMMA FlushEffect ==
  ASSUME TypeInv, NEW p \in Tables, Usable(p),
         \/ \E s \in {"synced", "closed"} : FlushedOwn(p) /\ Entered(p, s)
         \/ \E s \in {"open", "crashed"} : FlushFails(p) /\ Entered(p, s)
  PROVE  Effect
<1>1. ChunkRows \in Steps
  BY DEF Steps
<1>2. ASSUME NEW s \in {"synced", "closed"}, FlushedOwn(p), Entered(p, s), buf[p] # <<>>
      PROVE  Grows(p, ChunkRows)
  BY <1>2 DEF FlushedOwn, Flushed, FlushDims, Grows
<1>3. ASSUME NEW s \in {"synced", "closed"}, FlushedOwn(p), Entered(p, s), buf[p] = <<>>
      PROVE  Stays(p)
  BY <1>3 DEF FlushedOwn, Flushed, FlushDims, Stays
<1>4. ASSUME NEW s \in {"open", "crashed"}, FlushFails(p), Entered(p, s)
      PROVE  Runs(p, ChunkRows)
  BY <1>4 DEF FlushFails, Runs
<1> QED
  BY <1>1, <1>2, <1>3, <1>4 DEF Effect

\* Where there is one table, it is not moved onto another open one.
LEMMA EveryStepHasAnEffect ==
  ASSUME Steady, TypeInv, OneTable, [Next]_vars
  PROVE  Effect
<1>1. ASSUME NEW p \in Tables, NEW v \in Records, AppendRecord(p, v) \/ AppendString(p, v)
      PROVE  Effect
  BY <1>1, RecordEffect, StringEffect
<1>2. ASSUME NEW p \in Tables, NEW data \in [1 .. N -> Records], AppendPointer(p, data)
      PROVE  Effect
  <2>1. ChunkRows \in Steps
    BY DEF Steps
  <2> QED
    BY <1>2, <2>1, BlockEffect DEF AppendPointer
<1>3. ASSUME NEW p \in Tables, NEW data \in [1 .. N -> Records], AppendContainer(p, data)
      PROVE  Effect
  <2>1. "container" \in Calls
    BY <1>3 DEF AppendContainer
  <2>2. 1 \in Steps
    BY <2>1 DEF Steps
  <2> QED
    BY <1>3, <2>2, BlockEffect DEF AppendContainer
<1>4. ASSUME NEW p \in Tables, AppendMisfit(p)
      PROVE  Effect
  BY <1>4, MisfitEffect
<1>5. ASSUME NEW p \in Tables, Flush(p) \/ Destroy(p)
      PROVE  Effect
  BY <1>5, FlushEffect DEF Flush, Destroy, Entered
<1>6. ASSUME NEW p \in Tables, NEW q \in Tables, Move(p, q)
      PROVE  Effect
  <2>1. Moves(p, q)
    BY <1>6 DEF Move, Moves
  <2> QED
    BY <2>1 DEF Effect
<1>7. ASSUME NEW p \in Tables, NEW q \in Tables, MoveOnto(p, q)
      PROVE  FALSE
  BY <1>7 DEF MoveOnto, OneTable, Usable
<1>8. ASSUME NEW p \in Tables, NEW q \in Tables PROVE ~Reset(p) /\ ~Copy(p, q)
  BY DEF Steady, Reset, Copy
<1>9. CASE StartSwmr \/ Ended \/ UNCHANGED vars
  BY <1>9 DEF StartSwmr, Ended, vars, tableVars, Effect
<1> QED
  BY <1>1, <1>2, <1>3, <1>4, <1>5, <1>6, <1>7, <1>8, <1>9 DEF Next

-----------------------------------------------------------------------------
(* The position and the extent. *)

LEMMA InitPositionInv == Init => PositionInv
<1> SUFFICES ASSUME Init PROVE OneTable /\ PositionIsExtent
  BY InitTypeInv DEF PositionInv
<1>1. PICK rows \in InitRows, p \in Tables, kind \in Pipelines :
        /\ extent = [rows |-> rows, cols |-> Cols]
        /\ OpenOn(p, kind, rows)
  BY DEF Init
<1>2. \A q \in Tables : state[q] = IF q = p THEN "open" ELSE "closed"
  BY <1>1 DEF OpenOn
<1>3. cur[p] = extent
  BY <1>1 DEF OpenOn
<1> QED
  BY <1>2, <1>3 DEF OneTable, PositionIsExtent, Usable

\* A table that grows stood where the dataset ended.
LEMMA GrowsFromTheEnd ==
  ASSUME PositionInv, NEW p \in Tables, Usable(p), NEW rows \in Steps, Grows(p, rows)
  PROVE  /\ cur[p] = extent
         /\ extent' = [extent EXCEPT !.rows = @ + rows]
<1> USE Sizes
<1>1. rows \in Nat
  BY DEF Steps
<1>2. Grown(p, rows).rows = cur[p].rows + rows /\ cur[p].rows \in Nat
  BY <1>1, GrownTyped DEF PositionInv, TypeInv, TypeOK, Dims
<1>3. cur[p].rows <= MaxRows
  BY <1>1, <1>2 DEF Grows, CanExtend
<1>4. cur[p] = extent
  BY <1>2, <1>3 DEF PositionInv, PositionIsExtent
<1> QED
  BY <1>4 DEF Grows, Grown

LEMMA NextPositionInv ==
  ASSUME Steady, PositionInv, [Next]_vars
  PROVE  PositionInv'
<1> USE Sizes
<1>1. TypeInv'
  BY NextTypeInv DEF PositionInv
<1>2. Effect
  BY EveryStepHasAnEffect DEF PositionInv
<1>3. /\ state \in [Tables -> States] /\ cur \in [Tables -> Dims]
      /\ extent \in Extents /\ extent.rows \in Nat
      /\ \A p \in Tables : cur[p].rows \in Nat
  BY DEF PositionInv, TypeInv, TypeOK, States, Extents, Dims
<1>4. ASSUME NEW p \in Tables, NEW s, state[p] # "closed", Entered(p, s)
      PROVE  /\ OneTable'
             /\ \A q \in Tables : Usable(q)' => q = p
  BY <1>3, <1>4 DEF PositionInv, OneTable, Entered, Usable
<1>5. ASSUME NEW p \in Tables, Usable(p), NEW rows \in Steps, Grows(p, rows)
      PROVE  OneTable' /\ PositionIsExtent'
  <2>1. cur'[p] = extent'
    BY <1>3, <1>5 DEF Grows
  <2>2. OneTable' /\ \A q \in Tables : Usable(q)' => q = p
    BY <1>4, <1>5 DEF Grows, Usable
  <2> QED
    BY <2>1, <2>2 DEF PositionIsExtent
<1>6. ASSUME NEW p \in Tables, Usable(p), NEW rows \in Steps, Runs(p, rows)
      PROVE  OneTable' /\ PositionIsExtent'
  <2>1. rows \in Nat /\ rows <= ChunkRows
    BY DEF Steps
  <2>2. Grown(p, rows).rows = cur[p].rows + rows
    BY <2>1, GrownTyped DEF PositionInv
  <2>3. cur[p].rows + rows > MaxRows
    BY <1>3, <1>6, <2>1, <2>2 DEF Runs, CanExtend
  <2>4. extent.rows + ChunkRows > MaxRows
    <3>1. CASE cur[p] = extent
      BY <1>3, <2>1, <2>3, <3>1
    <3> QED
      BY <1>6, <3>1 DEF PositionInv, PositionIsExtent
  <2>5. cur'[p].rows > MaxRows /\ extent' = extent
    BY <1>3, <1>6, <2>2, <2>3 DEF Runs
  <2>6. OneTable' /\ \A q \in Tables : Usable(q)' => q = p
    BY <1>4, <1>6 DEF Runs, Usable
  <2> QED
    BY <2>4, <2>5, <2>6 DEF PositionIsExtent
<1>7. ASSUME NEW p \in Tables, Usable(p), Stays(p)
      PROVE  OneTable' /\ PositionIsExtent'
  <2>1. OneTable' /\ \A q \in Tables : Usable(q)' => q = p
    BY <1>4, <1>7 DEF Stays, Usable
  <2> QED
    BY <1>7, <2>1 DEF Stays, PositionInv, PositionIsExtent
<1>8. ASSUME NEW p \in Tables, NEW q \in Tables, Moves(p, q)
      PROVE  OneTable' /\ PositionIsExtent'
  <2>1. /\ p # q /\ Usable(p)
        /\ cur' = [cur EXCEPT ![q] = cur[p]] /\ extent' = extent
        /\ state' = [state EXCEPT ![q] = state[p], ![p] = "closed"]
    BY <1>8 DEF Moves, Handover, Usable
  <2>2. \A r \in Tables : state'[r] # "closed" => r = q
    BY <1>3, <2>1 DEF PositionInv, OneTable, Usable
  <2>3. cur'[q] = extent' \/ (cur'[q].rows > MaxRows /\ extent'.rows + ChunkRows > MaxRows)
    BY <1>3, <2>1 DEF PositionInv, PositionIsExtent
  <2> QED
    BY <2>2, <2>3 DEF OneTable, PositionIsExtent, Usable
<1>9. CASE UNCHANGED <<extent, cur, state>>
  BY <1>1, <1>9 DEF PositionInv, OneTable, PositionIsExtent, Usable
<1> QED
  BY <1>1, <1>2, <1>5, <1>6, <1>7, <1>8, <1>9 DEF Effect, PositionInv

\* As long as no table is reset and none is opened a second time, current_dims
\* is the extent of the file, until set_extent has thrown.
THEOREM PositionStays ==
  ASSUME Steady
  PROVE  Spec => []PositionIsExtent
<1>1. PositionInv /\ [Next]_vars => PositionInv'
  BY NextPositionInv
<1>2. PositionInv => PositionIsExtent
  BY DEF PositionInv
<1> QED
  BY <1>1, <1>2, InitPositionInv, PTL DEF Spec

\* No step of these makes the dataset smaller.
LEMMA StepNeverShrinks ==
  ASSUME Steady, PositionInv, [Next]_vars
  PROVE  /\ extent'.rows \in {extent.rows} \cup {extent.rows + r : r \in Steps}
         /\ extent'.cols = extent.cols
<1>1. Effect
  BY EveryStepHasAnEffect DEF PositionInv
<1>2. ASSUME NEW p \in Tables, Usable(p), NEW rows \in Steps, Grows(p, rows)
      PROVE  extent'.rows = extent.rows + rows /\ extent'.cols = extent.cols
  <2>1. extent \in Extents
    BY DEF PositionInv, TypeInv, TypeOK, Extents
  <2>2. extent' = [extent EXCEPT !.rows = @ + rows]
    BY <1>2, GrowsFromTheEnd
  <2> QED
    BY <2>1, <2>2 DEF Extents
<1>3. CASE UNCHANGED extent
  BY <1>3
<1> QED
  BY <1>1, <1>2, <1>3 DEF Effect, Runs, Stays, Moves

\* "Does not shrink the dataset on disk" holds of every call where none resets a
\* table and none opens a second one.
THEOREM DatasetNeverShrinks ==
  ASSUME Steady
  PROVE  Spec => NeverShrinks
<1>1. ASSUME PositionInv, [Next]_vars
      PROVE  [extent'.rows >= extent.rows /\ extent'.cols >= extent.cols]_vars
  <2>1. \A r \in Steps : r \in Nat
    BY Sizes DEF Steps
  <2>2. extent.rows \in Nat /\ extent.cols \in Nat
    BY <1>1, Sizes DEF PositionInv, TypeInv, TypeOK
  <2> QED
    BY <1>1, <2>1, <2>2, StepNeverShrinks
<1>2. PositionInv /\ [Next]_vars => PositionInv'
  BY NextPositionInv
<1> QED
  BY <1>1, <1>2, InitPositionInv, PTL DEF Spec, NeverShrinks

\* "The packet table's on-disk extent always grows by chunk_dims[0]", where in
\* addition no container is appended to chunks of several rows.
THEOREM DatasetGrowsByChunk ==
  ASSUME Steady, Steps = {ChunkRows}
  PROVE  Spec => GrowsByChunk
<1>1. ASSUME PositionInv, [Next]_vars
      PROVE  [extent'.rows \in {extent.rows, extent.rows + ChunkRows}]_vars
  BY <1>1, StepNeverShrinks
<1>2. PositionInv /\ [Next]_vars => PositionInv'
  BY NextPositionInv
<1> QED
  BY <1>1, <1>2, InitPositionInv, PTL DEF Spec, GrowsByChunk

-----------------------------------------------------------------------------
(* Nothing is left behind, whatever calls are made. *)

\* A chunk that one table writes leaves the queues of the others alone.
LEMMA WriteChunkOfOne ==
  ASSUME TypeInv, NEW p \in Tables, NEW d, NEW c, WriteChunk(p, d, c)
  PROVE  \A r \in Tables : r # p => pending'[r] = pending[r]
BY DEF WriteChunk, TypeInv, Buffers

\* What a table that is in use does to itself.
LEMMA OneTableChanges ==
  ASSUME TypeInv, NothingLeftBehind, NEW p \in Tables, Usable(p),
         NEW s \in {"open", "crashed"}, Entered(p, s),
         \A r \in Tables : r # p => buf'[r] = buf[r] /\ pending'[r] = pending[r]
  PROVE  NothingLeftBehind'
BY DEF NothingLeftBehind, Entered, TypeInv, TypeOK

LEMMA AppendLeavesNothing ==
  ASSUME TypeInv, NothingLeftBehind, NEW p \in Tables, NEW v,
         AppendRecord(p, v) \/ AppendString(p, v)
  PROVE  NothingLeftBehind'
<1> DEFINE b == Append(buf[p], v)
           d == Grown(p, ChunkRows)
<1>1. Usable(p)
  BY DEF AppendRecord, AppendString
<1>2. \E x : buf' = [buf EXCEPT ![p] = x]
  BY DEF AppendRecord, AppendString
<1>3. /\ Entered(p, "open")
      /\ UNCHANGED pending \/ \E e, c : WriteChunk(p, e, c)
  <2>1. ASSUME NEW data, ExtendAndWrite(p, d, data)
        PROVE  Entered(p, "open") /\ \E e, c : WriteChunk(p, e, c)
    BY <2>1 DEF ExtendAndWrite, Entered
  <2>2. ASSUME ExtendThrows(p, d)
        PROVE  Entered(p, "open") /\ UNCHANGED pending
    BY <2>2 DEF ExtendThrows, Entered
  <2>3. CASE AppendRecord(p, v)
    <3>1. \/ state' = [state EXCEPT ![p] = "open"] /\ UNCHANGED pending
          \/ ExtendThrows(p, d) \/ ExtendAndWrite(p, d, b)
      BY <2>3 DEF AppendRecord
    <3> HIDE DEF b, d
    <3> QED
      BY <2>1, <2>2, <3>1 DEF Entered
  <2>4. CASE AppendString(p, v)
    <3>1. \/ state' = [state EXCEPT ![p] = "open"] /\ UNCHANGED pending
          \/ ExtendThrows(p, d)
      BY <2>4 DEF AppendString
    <3> HIDE DEF d
    <3> QED
      BY <2>2, <3>1 DEF Entered
  <2> QED
    BY <2>3, <2>4
<1>4. \A r \in Tables : r # p => buf'[r] = buf[r] /\ pending'[r] = pending[r]
  BY <1>2, <1>3, WriteChunkOfOne DEF TypeInv, Buffers
<1> QED
  BY <1>1, <1>3, <1>4, OneTableChanges

LEMMA BlockLeavesNothing ==
  ASSUME TypeInv, NothingLeftBehind, NEW p \in Tables, Usable(p), NEW d, NEW data,
         \/ ExtendThrows(p, d) /\ UNCHANGED buf
         \/ ExtendAndWrite(p, d, data) /\ ScratchUsed(p, data)
  PROVE  NothingLeftBehind'
<1>1. Entered(p, "open")
  BY DEF ExtendThrows, ExtendAndWrite, Entered
<1>2. UNCHANGED pending \/ \E c : WriteChunk(p, d, c)
  BY DEF ExtendThrows, ExtendAndWrite
<1>3. UNCHANGED buf \/ \E x : buf' = [buf EXCEPT ![p] = x]
  BY DEF ScratchUsed
<1>4. \A r \in Tables : r # p => buf'[r] = buf[r] /\ pending'[r] = pending[r]
  BY <1>2, <1>3, WriteChunkOfOne DEF TypeInv, Buffers
<1> QED
  BY <1>1, <1>4, OneTableChanges

LEMMA MisfitLeavesNothing ==
  ASSUME TypeInv, NothingLeftBehind, NEW p \in Tables, AppendMisfit(p)
  PROVE  NothingLeftBehind'
<1> DEFINE d == Grown(p, 1)
<1>1. Usable(p) /\ UNCHANGED buf
  BY DEF AppendMisfit
<1>2. Entered(p, "open") /\ UNCHANGED pending
  <2>1. ASSUME ExtendThrows(p, d) PROVE Entered(p, "open") /\ UNCHANGED pending
    BY <2>1 DEF ExtendThrows, Entered
  <2>2. ExtendThrows(p, d) \/ (state' = [state EXCEPT ![p] = "open"] /\ UNCHANGED pending)
    BY DEF AppendMisfit
  <2> HIDE DEF d
  <2> QED
    BY <2>1, <2>2 DEF Entered
<1> QED
  BY <1>1, <1>2, OneTableChanges

\* A flush takes what is buffered and what is queued, or throws.
LEMMA FlushLeavesNothing ==
  ASSUME TypeInv, NothingLeftBehind, NEW p \in Tables, Usable(p), UNCHANGED strings,
         \/ \E s \in {"synced", "closed"} : FlushedOwn(p) /\ Entered(p, s)
         \/ \E s \in {"open", "crashed"} : FlushFails(p) /\ Entered(p, s)
  PROVE  NothingLeftBehind'
<1>1. ASSUME NEW s \in {"synced", "closed"}, FlushedOwn(p), Entered(p, s)
      PROVE  NothingLeftBehind'
  <2>1. buf' = [buf EXCEPT ![p] = <<>>] /\ pending' = [pending EXCEPT ![p] = <<>>]
    BY <1>1, FlushedOwnTyped
  <2> QED
    BY <1>1, <2>1 DEF NothingLeftBehind, Entered, TypeInv, TypeOK, Buffers
<1>2. ASSUME NEW s \in {"open", "crashed"}, FlushFails(p), Entered(p, s)
      PROVE  NothingLeftBehind'
  BY <1>2, OneTableChanges DEF FlushFails
<1> QED
  BY <1>1, <1>2

\* The table that is taken from is empty behind it.
LEMMA HandoverLeavesNothing ==
  ASSUME TypeInv, NothingLeftBehind, NEW p \in Tables, NEW q \in Tables, p # q, Handover(p, q)
  PROVE  NothingLeftBehind'
BY DEF Handover, NothingLeftBehind, TypeInv, TypeOK, Buffers

LEMMA NextLeavesNothing ==
  ASSUME TypeInv, NothingLeftBehind, [Next]_vars
  PROVE  NothingLeftBehind'
<1>1. ASSUME NEW p \in Tables, NEW v \in Records, AppendRecord(p, v) \/ AppendString(p, v)
      PROVE  NothingLeftBehind'
  BY <1>1, AppendLeavesNothing
<1>2. ASSUME NEW p \in Tables, NEW data \in [1 .. N -> Records],
             AppendPointer(p, data) \/ AppendContainer(p, data)
      PROVE  NothingLeftBehind'
  BY <1>2, BlockLeavesNothing DEF AppendPointer, AppendContainer
<1>3. ASSUME NEW p \in Tables, AppendMisfit(p)
      PROVE  NothingLeftBehind'
  BY <1>3, MisfitLeavesNothing
<1>4. ASSUME NEW p \in Tables, Flush(p) \/ Destroy(p)
      PROVE  NothingLeftBehind'
  BY <1>4, FlushLeavesNothing DEF Flush, Destroy, Entered
<1>5. ASSUME NEW p \in Tables, Reset(p)
      PROVE  NothingLeftBehind'
  BY <1>5, OneTableChanges DEF Reset, Entered
<1>6. ASSUME NEW p \in Tables, NEW q \in Tables, Copy(p, q)
      PROVE  NothingLeftBehind'
  BY <1>6 DEF Copy, NothingLeftBehind, TypeInv, TypeOK, Buffers
<1>7. ASSUME NEW p \in Tables, NEW q \in Tables, Move(p, q)
      PROVE  NothingLeftBehind'
  BY <1>7, HandoverLeavesNothing DEF Move, Usable
<1>8. ASSUME NEW p \in Tables, NEW q \in Tables, MoveOnto(p, q)
      PROVE  NothingLeftBehind'
  <2>1. ASSUME FlushFails(q), state' = [state EXCEPT ![q] = "open"]
        PROVE  NothingLeftBehind'
    BY <1>8, <2>1, OneTableChanges DEF MoveOnto, FlushFails, Entered
  <2> QED
    BY <1>8, <2>1, HandoverLeavesNothing DEF MoveOnto
<1>9. CASE StartSwmr \/ Ended \/ UNCHANGED vars
  BY <1>9 DEF StartSwmr, Ended, vars, tableVars, NothingLeftBehind
<1> QED
  BY <1>1, <1>2, <1>3, <1>4, <1>5, <1>6, <1>7, <1>8, <1>9 DEF Next

\* Whatever the calls, resets, moves and further tables among them, a table that
\* is flushed, closed or moved away holds no record that is still to be stored.
THEOREM NothingStaysBehind == Spec => []NothingLeftBehind
<1>1. Init => NothingLeftBehind
  BY DEF Init, NothingLeftBehind
<1>2. TypeInv /\ NothingLeftBehind /\ [Next]_vars => TypeInv' /\ NothingLeftBehind'
  BY NextTypeInv, NextLeavesNothing
<1> QED
  BY <1>1, <1>2, InitTypeInv, PTL DEF Spec

(***************************************************************************)
(* Nobody looks at the status of H5Dwrite_chunk and H5Dwrite, so that a    *)
(* record is only safe where they cannot fail, which depends on where the  *)
(* tables stand.  The theorems say when they cannot, and what the readers  *)
(* in other processes see behind a flush.                                  *)
(***************************************************************************)
\* The calls and datasets for which every chunk that is written has a place in
\* the file: besides Steady no table is moved, the position moves by whole
\* chunks, and the dataset holds whole chunks when it is opened.
Whole ==
    /\ Steady /\ "move" \notin Calls
    /\ Steps = {ChunkRows}
    /\ \A rows \in InitRows : rows % ChunkRows = 0

\* A chunk that is queued has a place in a dataset of these dimensions.
AllPlaced(d, q) == \A i \in DOMAIN q : Writable(d, q[i].off)

\* The dataset ends where a chunk ends, what is queued lies before that end,
\* and a table in use has its datatype.
Placed ==
    /\ extent.rows % ChunkRows = 0
    /\ extent.cols = Cols
    /\ strings => Rank = 1
    /\ \A p \in Tables : /\ state[p] \in {"open", "synced"} => dtValid[p]
                         /\ AllPlaced(extent, pending[p])

StoredInv == PositionInv /\ Placed /\ FailuresAreReported

-----------------------------------------------------------------------------
(* Chunk boundaries. *)

LEMMA ModMultiple ==
  ASSUME NEW k \in Nat, NEW b \in Nat \ {0}, NEW a, a = k * b
  PROVE  a % b = 0
<1> DEFINE d == a \div b
           r == a % b
<1>1. k * b \in Nat /\ a \in Int
  OBVIOUS
<1>2. d \in Int /\ r \in 0 .. (b - 1) /\ k * b = (d * b) + r
  BY <1>1, DivMod
<1> HIDE DEF d, r
<1>3. ASSUME d + 1 <= k PROVE FALSE
  <2>1. (d + 1) * b <= k * b
    BY <1>2, <1>3, TimesMonotone
  <2>2. (d + 1) * b = (d * b) + b /\ d * b \in Int
    BY <1>2
  <2> QED
    BY <1>1, <1>2, <2>1, <2>2
<1>4. ASSUME k + 1 <= d PROVE FALSE
  <2>1. (k + 1) * b <= d * b
    BY <1>2, <1>4, TimesMonotone
  <2>2. (k + 1) * b = (k * b) + b /\ d * b \in Int
    BY <1>2
  <2> QED
    BY <1>1, <1>2, <2>1, <2>2
<1>5. d = k
  BY <1>2, <1>3, <1>4
<1>6. r = 0
  BY <1>1, <1>2, <1>5
<1> QED
  BY <1>6 DEF r

\* A chunk further is a chunk boundary again.
LEMMA NextBoundary ==
  ASSUME NEW a \in Nat, NEW b \in Nat \ {0}, a % b = 0
  PROVE  (a + b) % b = 0
<1> DEFINE k == a \div b
<1>1. k \in Nat /\ a = k * b
  BY DivMod, DivNat
<1> HIDE DEF k
<1>2. a + b = (k + 1) * b
  BY <1>1
<1> QED
  BY <1>1, <1>2, ModMultiple

-----------------------------------------------------------------------------
(* The writes. *)

\* What has a place in a dataset has one in a larger one.
LEMMA PlacedInLarger ==
  ASSUME NEW d \in Dims, NEW e \in Dims, d.rows <= e.rows, d.cols = e.cols,
         NEW q \in Seq(Chunk), AllPlaced(d, q)
  PROVE  AllPlaced(e, q)
<1>1. \A i \in DOMAIN q : q[i].off \in Nat
  <2>1. \A i \in DOMAIN q : q[i] \in Chunk
    OBVIOUS
  <2> QED
    BY <2>1 DEF Chunk
<1> QED
  BY <1>1 DEF AllPlaced, Writable, Dims

LEMMA AppendPlaced ==
  ASSUME NEW d, NEW q \in Seq(Chunk), NEW c \in Chunk, AllPlaced(d, q), Writable(d, c.off)
  PROVE  AllPlaced(d, Append(q, c))
<1>1. \A i \in DOMAIN Append(q, c) : Append(q, c)[i] = c \/ (i \in DOMAIN q /\ Append(q, c)[i] = q[i])
  OBVIOUS
<1> QED
  BY <1>1 DEF AllPlaced

LEMMA SubSeqPlaced ==
  ASSUME NEW d, NEW q \in Seq(Chunk), AllPlaced(d, q), NEW m \in 1 .. Len(q) + 1, NEW n \in 0 .. Len(q)
  PROVE  AllPlaced(d, SubSeq(q, m, n))
<1>1. \A i \in DOMAIN SubSeq(q, m, n) : SubSeq(q, m, n)[i] = q[m + i - 1] /\ m + i - 1 \in DOMAIN q
  OBVIOUS
<1> QED
  BY <1>1 DEF AllPlaced

\* A chunk that has a place is stored or queued, and nothing fails.
LEMMA WriteChunkPlaced ==
  ASSUME TypeInv, NEW p \in Tables, NEW d, NEW c \in Chunk, WriteChunk(p, d, c),
         \A r \in Tables : AllPlaced(d, pending[r]), Writable(d, c.off)
  PROVE  silent' = silent /\ \A r \in Tables : AllPlaced(d, pending'[r])
<1>1. pending \in [Tables -> Seq(Chunk)] /\ silent \in BOOLEAN
  BY DEF TypeInv, TypeOK, Buffers
<1>2. CASE pipeline[p] = "pool"
  <2> DEFINE q == Append(pending[p], c)
  <2>1. q \in Seq(Chunk) /\ Len(q) \in Nat /\ AllPlaced(d, q)
    BY <1>1, AppendPlaced
  <2> HIDE DEF q
  <2>2. PICK k \in 0 .. Len(q) :
            /\ pending' = [pending EXCEPT ![p] = SubSeq(q, k + 1, Len(q))]
            /\ silent' = (silent \/ SomeFail(d, SubSeq(q, 1, k)))
    BY <1>2 DEF WriteChunk, q
  <2>3. AllPlaced(d, SubSeq(q, 1, k)) /\ AllPlaced(d, SubSeq(q, k + 1, Len(q)))
    <3>1. 1 \in 1 .. Len(q) + 1 /\ k + 1 \in 1 .. Len(q) + 1 /\ Len(q) \in 0 .. Len(q)
      BY <2>1
    <3> QED
      BY <2>1, <3>1, SubSeqPlaced
  <2>4. \A r \in Tables : pending'[r] = IF r = p THEN SubSeq(q, k + 1, Len(q)) ELSE pending[r]
    BY <1>1, <2>2
  <2>5. ~SomeFail(d, SubSeq(q, 1, k))
    BY <2>3 DEF SomeFail, AllPlaced
  <2> QED
    BY <1>1, <2>2, <2>3, <2>4, <2>5
<1>3. CASE pipeline[p] # "pool"
  BY <1>1, <1>3 DEF WriteChunk
<1> QED
  BY <1>2, <1>3

\* The parts of StoredInv that a step of one table has to see to.
LEMMA PlacedStep ==
  ASSUME StoredInv,
         \/ extent' = extent
         \/ extent' = [extent EXCEPT !.rows = @ + ChunkRows],
         UNCHANGED strings,
         \A r \in Tables : state'[r] \in {"open", "synced"} => dtValid'[r],
         \A r \in Tables : AllPlaced(extent', pending'[r]),
         silent' = silent
  PROVE  Placed' /\ FailuresAreReported'
<1> USE Sizes
<1>1. extent \in Extents /\ extent.rows \in Nat
  BY DEF StoredInv, PositionInv, TypeInv, TypeOK, Extents
<1>2. (extent.rows + ChunkRows) % ChunkRows = 0
  BY <1>1, NextBoundary DEF StoredInv, Placed
<1>3. extent'.rows % ChunkRows = 0 /\ extent'.cols = Cols
  <2>1. CASE extent' = extent
    BY <2>1 DEF StoredInv, Placed
  <2>2. CASE extent' = [extent EXCEPT !.rows = @ + ChunkRows]
    <3>1. extent'.rows = extent.rows + ChunkRows /\ extent'.cols = extent.cols
      BY <1>1, <2>2 DEF Extents
    <3> QED
      BY <1>2, <3>1 DEF StoredInv, Placed
  <2> QED
    BY <2>1, <2>2
<1> QED
  BY <1>3 DEF StoredInv, Placed, FailuresAreReported

\* Where the dataset grows by a chunk, the chunk in between has a place, and so
\* has all that was queued.
LEMMA GrownPlaced ==
  ASSUME Whole, StoredInv, NEW p \in Tables, Usable(p), CanExtend(Grown(p, ChunkRows))
  PROVE  LET d == Grown(p, ChunkRows) IN
         /\ cur[p] = extent
         /\ d = [extent EXCEPT !.rows = @ + ChunkRows]
         /\ d.rows = cur[p].rows + ChunkRows
         /\ Writable(d, cur[p].rows)
         /\ \A r \in Tables : AllPlaced(d, pending[r])
<1> USE Sizes DEF StoredInv, PositionInv
<1> DEFINE d == Grown(p, ChunkRows)
<1>1. d \in Dims /\ d.rows = cur[p].rows + ChunkRows /\ cur[p].rows \in Nat
  BY GrownTyped DEF TypeInv, TypeOK, Dims
<1>2. cur[p] = extent
  BY <1>1 DEF CanExtend, PositionIsExtent
<1>3. d = [extent EXCEPT !.rows = @ + ChunkRows]
  BY <1>2 DEF Grown
<1>4. extent \in Extents /\ extent \in Dims
  BY DEF TypeInv, TypeOK, Extents, Dims
<1>5. d.cols = extent.cols /\ extent.cols = Cols
  BY <1>3, <1>4 DEF Placed, Dims
<1> HIDE DEF d
<1>6. Writable(d, cur[p].rows)
  BY <1>1, <1>2, <1>5 DEF Placed, Writable
<1>7. ASSUME NEW r \in Tables PROVE AllPlaced(d, pending[r])
  <2>1. pending[r] \in Seq(Chunk)
    BY DEF TypeInv, Buffers
  <2>2. extent.rows <= d.rows
    BY <1>1, <1>2
  <2> QED
    BY <1>1, <1>4, <1>5, <2>1, <2>2, PlacedInLarger DEF Placed
<1> QED
  BY <1>1, <1>2, <1>3, <1>6, <1>7 DEF d

\* A table that goes on after a call is the one that made it.
LEMMA DatatypeStays ==
  ASSUME StoredInv, NEW p \in Tables, Usable(p), NEW s, Entered(p, s), UNCHANGED dtValid
  PROVE  \A r \in Tables : state'[r] \in {"open", "synced"} => dtValid'[r]
BY DEF StoredInv, PositionInv, Placed, Entered, Usable, TypeInv, TypeOK

LEMMA ExtendStored ==
  ASSUME Whole, StoredInv, NEW p \in Tables, Usable(p), NEW data \in Data,
         ExtendAndWrite(p, Grown(p, ChunkRows), data), UNCHANGED <<dtValid, strings>>
  PROVE  Placed' /\ FailuresAreReported'
<1> DEFINE d == Grown(p, ChunkRows)
           c == [off |-> cur[p].rows, data |-> data]
<1>1. extent' = d /\ WriteChunk(p, d, c) /\ CanExtend(d) /\ Entered(p, "open")
  BY DEF ExtendAndWrite, Entered
<1>2. /\ extent' = [extent EXCEPT !.rows = @ + ChunkRows]
      /\ Writable(d, cur[p].rows) /\ \A r \in Tables : AllPlaced(d, pending[r])
  BY <1>1, GrownPlaced
<1>3. c \in Chunk /\ c.off = cur[p].rows
  BY DEF StoredInv, PositionInv, TypeInv, TypeOK, Dims, Chunk
<1>4. silent' = silent /\ \A r \in Tables : AllPlaced(d, pending'[r])
  <2> HIDE DEF c, d
  <2> QED
    BY <1>1, <1>2, <1>3, WriteChunkPlaced DEF StoredInv, PositionInv
<1> QED
  BY <1>1, <1>2, <1>4, PlacedStep, DatatypeStays

\* A call that leaves the extent, the queues and the outcome of the writes.
LEMMA QuietStored ==
  ASSUME StoredInv, NEW p \in Tables, Usable(p), NEW s, Entered(p, s),
         UNCHANGED <<extent, pending, silent, dtValid, strings>>
  PROVE  Placed' /\ FailuresAreReported'
BY PlacedStep, DatatypeStays DEF StoredInv, Placed

LEMMA ThrowsStored ==
  ASSUME StoredInv, NEW p \in Tables, Usable(p), NEW d, ExtendThrows(p, d),
         UNCHANGED <<dtValid, strings>>
  PROVE  Placed' /\ FailuresAreReported'
BY QuietStored DEF ExtendThrows, Entered

LEMMA BlockStored ==
  ASSUME Whole, StoredInv, NEW p \in Tables, Usable(p), NEW data \in [1 .. N -> Records],
         \/ ExtendThrows(p, Grown(p, ChunkRows))
         \/ ExtendAndWrite(p, Grown(p, ChunkRows), data),
         UNCHANGED <<dtValid, strings>>
  PROVE  Placed' /\ FailuresAreReported'
<1>1. data \in Data
  BY DEF Data
<1> QED
  BY <1>1, ThrowsStored, ExtendStored

LEMMA RecordStored ==
  ASSUME Whole, StoredInv, NEW p \in Tables, NEW v \in Records, AppendRecord(p, v)
  PROVE  Placed' /\ FailuresAreReported'
<1> DEFINE b == Append(buf[p], v)
           d == Grown(p, ChunkRows)
<1>1. Usable(p) /\ UNCHANGED <<dtValid, strings>>
  BY DEF AppendRecord, fileVars
<1>2. b \in Seq(Records \cup {Scratch})
  BY DEF StoredInv, PositionInv, TypeInv, Buffers
<1>3. CASE state' = [state EXCEPT ![p] = "open"] /\ UNCHANGED <<extent, pending, silent>>
  BY <1>1, <1>3, QuietStored DEF Entered
<1>4. CASE ExtendThrows(p, d)
  BY <1>1, <1>4, ThrowsStored
<1>5. CASE Full(b) /\ ExtendAndWrite(p, d, b)
  BY <1>1, <1>2, <1>5, FullTyped, ExtendStored
<1> HIDE DEF b, d
<1> QED
  BY <1>3, <1>4, <1>5 DEF AppendRecord, b, d

LEMMA StringStored ==
  ASSUME Whole, StoredInv, NEW p \in Tables, NEW v \in Records, AppendString(p, v)
  PROVE  Placed' /\ FailuresAreReported'
<1> DEFINE b == Append(buf[p], v)
           d == Grown(p, ChunkRows)
<1>1. Usable(p) /\ UNCHANGED <<dtValid, strings>>
  BY DEF AppendString, fileVars
<1>2. CASE state' = [state EXCEPT ![p] = "open"] /\ UNCHANGED <<extent, pending, silent>>
  BY <1>1, <1>2, QuietStored DEF Entered
<1>3. CASE ExtendThrows(p, d)
  BY <1>1, <1>3, ThrowsStored
<1>4. CASE /\ CanExtend(d) /\ extent' = d /\ WriteStrings(p, d, b)
           /\ state' = [state EXCEPT ![p] = "open"] /\ UNCHANGED pending
  <2>1. /\ extent' = [extent EXCEPT !.rows = @ + ChunkRows]
        /\ \A r \in Tables : AllPlaced(extent', pending'[r])
    BY <1>1, <1>4, GrownPlaced
  <2>2. dtValid[p]
    BY <1>1 DEF StoredInv, Placed, Usable
  <2>3. silent' = silent
    BY <1>4, <2>2 DEF WriteStrings
  <2> QED
    BY <1>1, <1>4, <2>1, <2>3, PlacedStep, DatatypeStays DEF Entered
<1> HIDE DEF b, d
<1> QED
  BY <1>2, <1>3, <1>4 DEF AppendString, b, d

\* A flush stores what is buffered and what is queued.
LEMMA FlushStored ==
  ASSUME Whole, StoredInv, NEW p \in Tables, Usable(p), FlushedOwn(p), UNCHANGED strings
  PROVE  /\ silent' = silent
         /\ \/ extent' = extent
            \/ extent' = [extent EXCEPT !.rows = @ + ChunkRows]
         /\ \A r \in Tables : AllPlaced(extent', pending'[r])
<1> USE Sizes DEF StoredInv, PositionInv
<1> DEFINE d == FlushDims(p)
           q == FlushQueue(p)
<1>1. /\ CanExtend(d) /\ extent' = d
      /\ silent' = \/ silent \/ SomeFail(d, q)
                   \/ buf[p] # <<>> /\ ~(IF strings THEN StringsFit(p) ELSE dtValid[p])
  BY DEF FlushedOwn, Flushed
<1>2. dtValid[p] /\ silent \in BOOLEAN
  BY DEF Placed, Usable, TypeInv, TypeOK
<1>3. pending \in [Tables -> Seq(Chunk)] /\ pending[p] \in Seq(Chunk)
  BY DEF TypeInv, Buffers
<1>4. CASE buf[p] = <<>>
  <2>1. d = extent /\ q = pending[p]
    BY <1>4 DEF FlushDims, FlushQueue
  <2>2. \A r \in Tables : AllPlaced(d, pending[r])
    BY <2>1 DEF Placed
  <2>3. ~SomeFail(d, q)
    BY <2>1, <2>2 DEF SomeFail, AllPlaced
  <2>4. pending' = [pending EXCEPT ![p] = <<>>] /\ AllPlaced(d, <<>>)
    BY FlushedOwnTyped DEF AllPlaced
  <2> QED
    BY <1>1, <1>2, <1>3, <1>4, <2>1, <2>2, <2>3, <2>4
<1>5. CASE buf[p] # <<>>
  <2>1. d = Grown(p, ChunkRows)
    BY <1>5 DEF FlushDims
  <2>2. /\ cur[p] = extent
        /\ d = [extent EXCEPT !.rows = @ + ChunkRows]
        /\ d.rows = cur[p].rows + ChunkRows
        /\ Writable(d, cur[p].rows)
        /\ \A r \in Tables : AllPlaced(d, pending[r])
    BY <1>1, <2>1, GrownPlaced
  <2>3. AllPlaced(d, q)
    <3> DEFINE c == [off |-> cur[p].rows, data |-> Padded(buf[p])]
    <3>1. c \in Chunk /\ c.off = cur[p].rows
      BY PaddedTyped DEF TypeInv, TypeOK, Buffers, Dims, Chunk
    <3>2. q \in {pending[p], Append(pending[p], c)}
      BY DEF FlushQueue
    <3> HIDE DEF c, q, d
    <3>3. AllPlaced(d, pending[p]) /\ Writable(d, c.off)
      BY <2>2, <3>1
    <3>4. AllPlaced(d, Append(pending[p], c))
      BY <1>3, <3>1, <3>3, AppendPlaced
    <3> QED
      BY <3>2, <3>3, <3>4
  <2>4. strings => StringsFit(p)
    <3>1. ASSUME strings PROVE Len(buf[p]) <= ChunkRows
      <4>1. Cols = 1 /\ N = ChunkRows
        BY <3>1, TableAssumption DEF Placed, N
      <4>2. ~Overrun(p)
        BY <1>1, <2>2 DEF Overrun, CanExtend, Whole, Steady, TypeInv, TypeOK
      <4>3. Len(buf[p]) < N /\ Len(buf[p]) \in Nat
        BY <4>2 DEF TypeInv, TypeOK
      <4> QED
        BY <4>1, <4>3
    <3>2. cur[p].rows \in Nat /\ Len(buf[p]) \in Nat
      BY DEF TypeInv, TypeOK, Dims, Buffers
    <3> QED
      BY <1>2, <2>2, <3>1, <3>2 DEF StringsFit
  <2>5. silent' = silent
    BY <1>1, <1>2, <2>3, <2>4 DEF SomeFail, AllPlaced
  <2>6. pending' = [pending EXCEPT ![p] = <<>>] /\ AllPlaced(d, <<>>)
    BY FlushedOwnTyped DEF AllPlaced
  <2> HIDE DEF d
  <2> QED
    BY <1>1, <1>3, <2>2, <2>5, <2>6
<1> QED
  BY <1>4, <1>5

LEMMA FlushCallStored ==
  ASSUME Whole, StoredInv, NEW p \in Tables, Flush(p) \/ Destroy(p)
  PROVE  Placed' /\ FailuresAreReported'
<1>1. Usable(p) /\ UNCHANGED strings
  BY DEF Flush, Destroy
<1>2. ASSUME Flush(p) PROVE \E s : Entered(p, s) /\ UNCHANGED dtValid
  BY <1>2 DEF Flush, Entered
<1>3. ASSUME Destroy(p)
      PROVE  \A r \in Tables : state'[r] \in {"open", "synced"} => dtValid'[r]
  BY <1>3 DEF Destroy, StoredInv, PositionInv, Placed, TypeInv, TypeOK
<1>4. \A r \in Tables : state'[r] \in {"open", "synced"} => dtValid'[r]
  BY <1>1, <1>2, <1>3, DatatypeStays
<1>5. CASE FlushedOwn(p)
  BY <1>1, <1>4, <1>5, FlushStored, PlacedStep
<1>6. CASE FlushFails(p)
  BY <1>1, <1>4, <1>6, PlacedStep DEF FlushFails, StoredInv, Placed
<1> QED
  BY <1>5, <1>6 DEF Flush, Destroy

LEMMA NextStored ==
  ASSUME Whole, StoredInv, [Next]_vars
  PROVE  StoredInv'
<1>1. PositionInv'
  BY NextPositionInv DEF Whole, StoredInv
<1>2. ASSUME NEW p \in Tables, NEW v \in Records, AppendRecord(p, v) \/ AppendString(p, v)
      PROVE  Placed' /\ FailuresAreReported'
  BY <1>2, RecordStored, StringStored
<1>3. ASSUME NEW p \in Tables, NEW data \in [1 .. N -> Records], AppendPointer(p, data)
      PROVE  Placed' /\ FailuresAreReported'
  BY <1>3, BlockStored DEF AppendPointer, fileVars
<1>4. ASSUME NEW p \in Tables, NEW data \in [1 .. N -> Records], AppendContainer(p, data)
      PROVE  Placed' /\ FailuresAreReported'
  <2>1. ChunkRows = 1
    BY <1>4 DEF AppendContainer, Whole, Steps
  <2> QED
    BY <1>4, <2>1, BlockStored DEF AppendContainer, fileVars
<1>5. ASSUME NEW p \in Tables, AppendMisfit(p)
      PROVE  Placed' /\ FailuresAreReported'
  <2>1. ChunkRows = 1
    BY <1>5 DEF AppendMisfit, Whole, Steps
  <2>2. Usable(p) /\ UNCHANGED <<dtValid, strings>>
    BY <1>5 DEF AppendMisfit, fileVars
  <2>3. CASE ExtendThrows(p, Grown(p, ChunkRows))
    BY <2>2, <2>3, ThrowsStored
  <2>4. CASE /\ CanExtend(Grown(p, ChunkRows)) /\ extent' = Grown(p, ChunkRows)
             /\ state' = [state EXCEPT ![p] = "open"] /\ UNCHANGED <<pending, silent>>
    BY <2>2, <2>4, GrownPlaced, PlacedStep, DatatypeStays DEF Entered
  <2> QED
    BY <1>5, <2>1, <2>3, <2>4 DEF AppendMisfit
<1>6. ASSUME NEW p \in Tables, Flush(p) \/ Destroy(p)
      PROVE  Placed' /\ FailuresAreReported'
  BY <1>6, FlushCallStored
<1>7. ASSUME NEW p \in Tables, NEW q \in Tables
      PROVE  ~Reset(p) /\ ~Copy(p, q) /\ ~Move(p, q) /\ ~MoveOnto(p, q)
  BY DEF Whole, Steady, Reset, Copy, Move, MoveOnto
<1>8. ASSUME StartSwmr \/ Ended \/ UNCHANGED vars
      PROVE  Placed' /\ FailuresAreReported'
  <2>1. UNCHANGED <<extent, pending, dtValid, state, silent, strings>>
    BY <1>8 DEF StartSwmr, Ended, vars, tableVars, fileVars
  <2> QED
    BY <2>1 DEF StoredInv, Placed, FailuresAreReported
<1>9. Placed' /\ FailuresAreReported'
  BY <1>2, <1>3, <1>4, <1>5, <1>6, <1>7, <1>8 DEF Next
<1> QED
  BY <1>1, <1>9 DEF StoredInv

LEMMA InitStored ==
  ASSUME Whole, Init
  PROVE  StoredInv
<1>1. PositionInv
  BY InitPositionInv
<1>2. PICK rows \in InitRows : extent = [rows |-> rows, cols |-> Cols]
  BY DEF Init
<1>3. extent.rows % ChunkRows = 0 /\ extent.cols = Cols
  BY <1>2 DEF Whole
<1>4. /\ \A p \in Tables : pending[p] = <<>> /\ dtValid[p] = (state[p] = "open")
      /\ \A p \in Tables : state[p] \in {"open", "closed"}
      /\ strings => Rank = 1
      /\ ~silent
  BY DEF Init, OpenOn
<1>5. \A p \in Tables : AllPlaced(extent, pending[p])
  BY <1>4 DEF AllPlaced
<1>6. Placed
  BY <1>3, <1>4, <1>5 DEF Placed
<1> QED
  BY <1>1, <1>4, <1>6 DEF StoredInv, FailuresAreReported

\* Where the calls keep to whole chunks of one table, no write of the packet
\* table fails, so that none fails unseen.
THEOREM NoFailureIsHidden ==
  ASSUME Whole
  PROVE  Spec => []FailuresAreReported
<1>1. Init => StoredInv
  BY InitStored
<1>2. StoredInv /\ [Next]_vars => StoredInv'
  BY NextStored
<1>3. StoredInv => FailuresAreReported
  BY DEF StoredInv
<1> QED
  BY <1>1, <1>2, <1>3, PTL DEF Spec

-----------------------------------------------------------------------------
(* What an SWMR reader sees. *)

\* Nothing is in flight, nothing is put.
LEMMA NothingToPut ==
  ASSUME NEW d, NEW file \in Files
  PROVE  PutChunks(d, file, <<>>) = file
<1>1. PutChunks(d, file, <<>>) = [c \in ChunkIds |-> file[c]]
  BY DEF PutChunks
<1>2. file = [c \in ChunkIds |-> file[c]]
  BY DEF Files
<1> QED
  BY <1>1, <1>2

\* Only flush() ends in the state synced, so that any other step is out of it or
\* leaves what the readers may see.
LEMMA OtherSteps ==
  ASSUME TypeInv, NEW p, Tables = {p}, [Next]_vars, state'[p] = "synced"
  PROVE  \/ FlushedOwn(p) /\ UNCHANGED <<strings, swmr>>
         \/ StartSwmr
         \/ UNCHANGED vars
<1>1. /\ p \in Tables /\ \A q \in Tables : q = p
      /\ DOMAIN state = Tables
  BY DEF TypeInv, TypeOK
<1>2. ASSUME NEW s, Entered(p, s), s # "synced" PROVE FALSE
  BY <1>1, <1>2 DEF Entered
<1>3. ASSUME NEW d, ExtendThrows(p, d) PROVE FALSE
  BY <1>2, <1>3 DEF ExtendThrows, Entered
<1>4. ASSUME NEW d, NEW data, ExtendAndWrite(p, d, data) PROVE FALSE
  BY <1>2, <1>4 DEF ExtendAndWrite, Entered
<1>5. ASSUME NEW v \in Records PROVE ~AppendRecord(p, v) /\ ~AppendString(p, v)
  <2> DEFINE b == Append(buf[p], v)
             d == Grown(p, ChunkRows)
  <2>1. ASSUME AppendRecord(p, v)
        PROVE  state' = [state EXCEPT ![p] = "open"] \/ ExtendThrows(p, d) \/ ExtendAndWrite(p, d, b)
    BY <2>1 DEF AppendRecord
  <2>2. ASSUME AppendString(p, v)
        PROVE  state' = [state EXCEPT ![p] = "open"] \/ ExtendThrows(p, d)
    BY <2>2 DEF AppendString
  <2> HIDE DEF b, d
  <2> QED
    BY <1>2, <1>3, <1>4, <2>1, <2>2 DEF Entered
<1>6. ASSUME NEW data PROVE ~AppendPointer(p, data) /\ ~AppendContainer(p, data)
  BY <1>3, <1>4 DEF AppendPointer, AppendContainer
<1>7. ~AppendMisfit(p)
  <2> DEFINE d == Grown(p, 1)
  <2>1. ASSUME AppendMisfit(p)
        PROVE  state' = [state EXCEPT ![p] = "open"] \/ ExtendThrows(p, d)
    BY <2>1 DEF AppendMisfit
  <2> HIDE DEF d
  <2> QED
    BY <1>2, <1>3, <2>1 DEF Entered
<1>8. ~Destroy(p) /\ ~Reset(p)
  BY <1>2 DEF Destroy, Reset, Entered
<1>9. ~Copy(p, p) /\ ~Move(p, p) /\ ~MoveOnto(p, p)
  BY DEF Copy, Move, MoveOnto, Usable
<1>10. Flush(p) => FlushedOwn(p) /\ UNCHANGED <<strings, swmr>>
  BY <1>2 DEF Flush, Entered
<1> QED
  BY <1>1, <1>5, <1>6, <1>7, <1>8, <1>9, <1>10 DEF Next, Ended

LEMMA NextPublishes ==
  ASSUME NEW p, Tables = {p}, TypeInv, TypeInv', NothingLeftBehind, NothingLeftBehind',
         FlushPublishes, [Next]_vars
  PROVE  FlushPublishes'
<1>1. Sole = p /\ p \in Tables
  BY DEF Sole
<1> SUFFICES ASSUME swmr', state'[p] = "synced"
             PROVE  published' = Readable(disk)'
  <2>1. ASSUME swmr', state'[p] = "synced", published' = Readable(disk)'
        PROVE  published' = Committed' /\ buf'[p] = <<>>
    <3>1. buf'[p] = <<>> /\ pending'[p] = <<>>
      BY <1>1, <2>1 DEF NothingLeftBehind
    <3>2. disk' \in Files
      BY DEF TypeInv, TypeOK, Files
    <3>3. PutChunks(extent', disk', <<>>) = disk'
      BY <3>2, NothingToPut
    <3>4. PutChunks(extent, disk, pending[Sole])' = disk'
      BY <1>1, <3>1, <3>3
    <3> QED
      BY <2>1, <3>1, <3>4 DEF Committed, Readable
  <2> QED
    BY <1>1, <2>1 DEF FlushPublishes
<1>2. CASE FlushedOwn(p) /\ UNCHANGED <<strings, swmr>>
  BY <1>2 DEF FlushedOwn, Flushed, Latched
<1>3. CASE StartSwmr
  BY <1>3 DEF StartSwmr, Readable
<1>4. CASE UNCHANGED vars
  <2>1. swmr /\ state[p] = "synced" /\ pending[p] = <<>> /\ disk \in Files
    BY <1>1, <1>4 DEF vars, tableVars, fileVars, NothingLeftBehind, TypeInv, TypeOK, Files
  <2>2. published = Readable(disk)
    BY <1>1, <2>1, NothingToPut DEF FlushPublishes, Committed
  <2> QED
    BY <1>4, <2>2 DEF vars, tableVars, fileVars, Readable
<1> QED
  BY <1>1, <1>2, <1>3, <1>4, OtherSteps

\* "flush(pt) is thus the complete writer-side SWMR call": behind a flush the
\* readers see everything that was appended to the only table of a dataset,
\* whenever the file went over to SWMR and whatever the calls before.
THEOREM FlushIsSeen ==
  ASSUME NEW p, Tables = {p}
  PROVE  Spec => []FlushPublishes
<1> DEFINE PubInv == TypeInv /\ NothingLeftBehind /\ FlushPublishes
<1>1. Init => PubInv
  <2>1. Init => NothingLeftBehind
    BY DEF Init, NothingLeftBehind
  <2>2. Init => FlushPublishes
    <3>1. Sole \in Tables
      BY DEF Sole
    <3> QED
      BY <3>1 DEF Init, OpenOn, FlushPublishes
  <2> QED
    BY <2>1, <2>2, InitTypeInv
<1>2. PubInv /\ [Next]_vars => PubInv'
  BY NextTypeInv, NextLeavesNothing, NextPublishes
<1>3. PubInv => FlushPublishes
  OBVIOUS
<1> QED
  BY <1>1, <1>2, <1>3, PTL DEF Spec

=============================================================================
