--------------------------- MODULE PacketTableLog ---------------------------
(***************************************************************************)
(* The only table of a dataset implements AppendLog, for every geometry of *)
(* the chunks, every capacity and both pipelines, where the calls keep to  *)
(* whole chunks.                                                           *)
(*                                                                         *)
(* The log is read off the dataset as it will be once the queue of the     *)
(* pool pipeline is stored (Image).  A chunk that is written goes to the   *)
(* first place behind the extent, whether it is stored now or queued; the  *)
(* places of what is queued differ, so that it does not matter when each   *)
(* of them is stored; and behind the extent there is nothing but the fill  *)
(* value.                                                                  *)
(*                                                                         *)
(* The file as it is never loses a record either: a chunk is only stored   *)
(* where there was nothing but the fill value (Laid).                      *)
(***************************************************************************)
EXTENDS PacketTableProofs

-----------------------------------------------------------------------------
(* Records and chunks. *)

\* Quotient and remainder are the only numbers of their kind.
LEMMA DivIs ==
  ASSUME NEW a \in Int, NEW b \in Nat \ {0}, NEW q \in Int, NEW r \in 0 .. (b - 1),
         a = (q * b) + r
  PROVE  a \div b = q /\ a % b = r
<1> DEFINE d == a \div b
           s == a % b
<1>1. d \in Int /\ s \in 0 .. (b - 1) /\ a = (d * b) + s
  BY DivMod
<1>2. d * b \in Int /\ q * b \in Int
  BY <1>1
<1>3. (d + 1) * b = (d * b) + b /\ (q + 1) * b = (q * b) + b
  BY <1>1
<1> HIDE DEF d, s
<1>4. ASSUME q + 1 <= d PROVE FALSE
  <2>1. (q + 1) * b <= d * b
    BY <1>1, <1>4, TimesMonotone
  <2> QED
    BY <1>1, <1>2, <1>3, <2>1
<1>5. ASSUME d + 1 <= q PROVE FALSE
  <2>1. (d + 1) * b <= q * b
    BY <1>1, <1>5, TimesMonotone
  <2> QED
    BY <1>1, <1>2, <1>3, <2>1
<1>6. d = q
  BY <1>1, <1>4, <1>5
<1>7. s = r
  BY <1>1, <1>2, <1>6
<1> QED
  BY <1>6, <1>7 DEF d, s

\* The dimensions of a dataset of k chunks.
HasChunks(e, k) == k \in Nat /\ e = [rows |-> k * ChunkRows, cols |-> Cols]

\* A dataset of whole chunks has so many records.
LEMMA RecordsOfChunks ==
  ASSUME NEW e, NEW k, HasChunks(e, k), NEW file
  PROVE  /\ e.rows * e.cols = k * N /\ k * N \in Nat
         /\ DOMAIN RecordsOf(e, file) = 1 .. (k * N)
         /\ \A i \in 1 .. (k * N) :
               RecordsOf(e, file)[i] = file[(i - 1) \div N][((i - 1) % N) + 1]
<1> USE Sizes
<1>1. e.rows = k * ChunkRows /\ e.cols = Cols /\ k \in Nat
  BY DEF HasChunks
<1>2. (k * ChunkRows) * Cols = k * (ChunkRows * Cols)
  BY <1>1
<1>3. e.rows * e.cols = k * N /\ k * N \in Nat
  BY <1>1, <1>2 DEF N
<1> QED
  BY <1>3 DEF RecordsOf

\* A dataset that ends on a chunk boundary has whole chunks.
LEMMA WholeChunks ==
  ASSUME NEW e \in Extents, e.rows % ChunkRows = 0, e.cols = Cols
  PROVE  \E k \in Nat : HasChunks(e, k)
<1> USE Sizes
<1> DEFINE k == e.rows \div ChunkRows
<1>1. e.rows \in Nat /\ e = [rows |-> e.rows, cols |-> e.cols]
  BY DEF Extents
<1>2. k \in Nat /\ e.rows = k * ChunkRows
  BY <1>1, DivMod, DivNat
<1> HIDE DEF k
<1> QED
  BY <1>1, <1>2 DEF HasChunks

\* It has N records for each of them.
LEMMA RecordsCounted ==
  ASSUME NEW e \in Extents, NEW k, HasChunks(e, k), NEW file \in Files
  PROVE  /\ RecordsOf(e, file) \in Seq(Records \cup {Fill, Scratch})
         /\ Len(RecordsOf(e, file)) = k * N /\ k * N \in Nat
<1> DEFINE r == RecordsOf(e, file)
<1>1. r \in Seq(Records \cup {Fill, Scratch})
  BY RecordsTyped DEF Extents
<1>2. DOMAIN r = 1 .. (k * N) /\ k * N \in Nat
  BY RecordsOfChunks
<1> HIDE DEF r
<1>3. 1 .. Len(r) = 1 .. (k * N) /\ Len(r) \in Nat
  BY <1>1, <1>2, LenProperties
<1>4. Len(r) = k * N
  BY <1>2, <1>3
<1> QED
  BY <1>1, <1>2, <1>4 DEF r

\* The chunk of a record, and its place there.
LEMMA ChunkOfRecord ==
  ASSUME NEW k \in Nat, NEW i \in 1 .. ((k + 1) * N)
  PROVE  /\ i <= k * N => (i - 1) \div N \in 0 .. (k - 1)
         /\ i > k * N => /\ (i - 1) \div N = k
                         /\ ((i - 1) % N) + 1 = i - (k * N)
<1> USE Sizes
<1>1. k * N \in Nat /\ (k + 1) * N = (k * N) + N /\ i - 1 \in Nat
  OBVIOUS
<1>2. ASSUME i <= k * N PROVE (i - 1) \div N \in 0 .. (k - 1)
  <2> DEFINE d == (i - 1) \div N
  <2>1. d \in Nat /\ d * N <= i - 1
    BY <1>1, DivNat
  <2> HIDE DEF d
  <2>2. ASSUME k <= d PROVE FALSE
    <3>1. k * N <= d * N
      BY <2>1, <2>2, TimesMonotone
    <3> QED
      BY <1>1, <1>2, <2>1, <3>1
  <2>3. d \in 0 .. (k - 1)
    BY <2>1, <2>2
  <2> QED
    BY <2>3 DEF d
<1>3. ASSUME i > k * N
      PROVE  (i - 1) \div N = k /\ ((i - 1) % N) + 1 = i - (k * N)
  <2> DEFINE m == k * N
             r == i - 1 - m
  <2>1. m \in Nat /\ r \in 0 .. (N - 1) /\ i - 1 = m + r
    BY <1>1, <1>3
  <2> HIDE DEF r
  <2>2. (i - 1) \div N = k /\ (i - 1) % N = r
    BY <1>1, <2>1, DivIs
  <2> QED
    BY <1>1, <2>1, <2>2
<1> QED
  BY <1>2, <1>3

\* The records are those of the chunks inside.
LEMMA RecordsSame ==
  ASSUME NEW e, NEW k, HasChunks(e, k), NEW F, NEW G,
         \A c \in 0 .. (k - 1) : G[c] = F[c]
  PROVE  RecordsOf(e, G) = RecordsOf(e, F)
<1> USE Sizes
<1>1. k \in Nat /\ k * N \in Nat /\ (k + 1) * N = (k * N) + N
  BY DEF HasChunks
<1>2. \A i \in 1 .. (k * N) : (i - 1) \div N \in 0 .. (k - 1)
  BY <1>1, ChunkOfRecord
<1>3. \A i \in 1 .. (e.rows * e.cols) : (i - 1) \div N \in 0 .. (k - 1)
  BY <1>2, RecordsOfChunks
<1> QED
  BY <1>3 DEF RecordsOf

\* One chunk more, its records behind the others.
LEMMA RecordsGrow ==
  ASSUME NEW e, NEW f, NEW k, HasChunks(e, k), HasChunks(f, k + 1),
         NEW F \in Files, NEW G \in Files, k \in ChunkIds,
         \A c \in 0 .. (k - 1) : c \in ChunkIds /\ G[c] = F[c]
  PROVE  RecordsOf(f, G) = RecordsOf(e, F) \o G[k]
<1> USE Sizes
<1> DEFINE T == Records \cup {Fill, Scratch}
           s == RecordsOf(e, F)
           t == G[k]
<1>1. k \in Nat /\ k * N \in Nat /\ (k + 1) * N = (k * N) + N
  BY DEF HasChunks
<1>2. t \in [1 .. N -> T] /\ t \in Seq(T) /\ Len(t) = N
  <2>1. t \in [1 .. N -> T]
    BY DEF Files, Data
  <2>2. t \in Seq(T)
    BY <2>1, SeqDef
  <2> HIDE DEF t
  <2>3. 1 .. Len(t) = 1 .. N /\ Len(t) \in Nat
    BY <2>1, <2>2, LenProperties
  <2> QED
    BY <2>1, <2>2, <2>3
<1>3. /\ DOMAIN s = 1 .. (k * N)
      /\ \A i \in 1 .. (k * N) : s[i] = F[(i - 1) \div N][((i - 1) % N) + 1]
  BY RecordsOfChunks
<1>4. /\ DOMAIN RecordsOf(f, G) = 1 .. ((k * N) + N)
      /\ \A i \in 1 .. ((k * N) + N) : RecordsOf(f, G)[i] = G[(i - 1) \div N][((i - 1) % N) + 1]
  <2>1. /\ DOMAIN RecordsOf(f, G) = 1 .. ((k + 1) * N)
        /\ \A i \in 1 .. ((k + 1) * N) : RecordsOf(f, G)[i] = G[(i - 1) \div N][((i - 1) % N) + 1]
    BY RecordsOfChunks
  <2> QED
    BY <1>1, <2>1
<1>5. s \in Seq(T) /\ Len(s) = k * N
  <2>1. ASSUME NEW i \in 1 .. (k * N) PROVE s[i] \in T
    <3>1. (i - 1) \div N \in ChunkIds /\ ((i - 1) % N) + 1 \in 1 .. N
      BY <1>1, ChunkOfRecord, DivMod
    <3> QED
      BY <1>3, <3>1 DEF Files, Data
  <2>2. s = [i \in 1 .. (e.rows * e.cols) |-> s[i]]
    BY DEF RecordsOf
  <2>3. s \in [1 .. (k * N) -> T]
    BY <1>3, <2>1, <2>2
  <2> HIDE DEF s
  <2>4. s \in Seq(T)
    BY <1>1, <2>3, SeqDef
  <2>5. 1 .. Len(s) = 1 .. (k * N) /\ Len(s) \in Nat
    BY <2>3, <2>4, LenProperties
  <2> QED
    BY <1>1, <2>4, <2>5
<1>6. /\ s \o t \in Seq(T) /\ Len(s \o t) = (k * N) + N
      /\ \A i \in 1 .. ((k * N) + N) :
            (s \o t)[i] = IF i <= k * N THEN s[i] ELSE t[i - (k * N)]
  <2> HIDE DEF s, t, T
  <2>1. /\ s \o t \in Seq(T) /\ Len(s \o t) = Len(s) + Len(t)
        /\ \A i \in 1 .. Len(s) + Len(t) :
              (s \o t)[i] = IF i <= Len(s) THEN s[i] ELSE t[i - Len(s)]
    BY <1>2, <1>5, ConcatProperties, Zenon
  <2> QED
    BY <1>2, <1>5, <2>1
<1>7. ASSUME NEW i \in 1 .. ((k * N) + N)
      PROVE  RecordsOf(f, G)[i] = (s \o t)[i]
  <2>1. CASE i <= k * N
    <3>1. (i - 1) \div N \in 0 .. (k - 1) /\ i \in 1 .. (k * N)
      BY <1>1, <2>1, ChunkOfRecord
    <3> QED
      BY <1>3, <1>4, <1>6, <2>1, <3>1
  <2>2. CASE i > k * N
    <3>1. (i - 1) \div N = k /\ ((i - 1) % N) + 1 = i - (k * N)
      BY <1>1, <2>2, ChunkOfRecord
    <3>2. ~(i <= k * N)
      BY <1>1, <2>2
    <3> QED
      BY <1>4, <1>6, <3>1, <3>2
  <2>3. i <= k * N \/ i > k * N
    BY <1>1
  <2> HIDE DEF s, t
  <2> QED
    BY <2>1, <2>2, <2>3
<1> DEFINE u == s \o t
           v == RecordsOf(f, G)
<1>8. DOMAIN u = 1 .. ((k * N) + N) /\ u = [i \in DOMAIN u |-> u[i]]
  <2> HIDE DEF u
  <2>1. u \in Seq(T) /\ Len(u) = (k * N) + N
    BY <1>6 DEF u
  <2> QED
    BY <2>1, LenProperties
<1>9. v = [i \in DOMAIN v |-> v[i]]
  BY DEF RecordsOf
<1> HIDE DEF u, v
<1>10. DOMAIN v = DOMAIN u /\ \A i \in DOMAIN v : v[i] = u[i]
  BY <1>4, <1>7, <1>8 DEF u, v
<1>11. v = u
  BY <1>8, <1>9, <1>10
<1> QED
  BY <1>11 DEF u, v

\* A partial chunk is padded the same way on both sides.
LEMMA PaddedSame ==
  ASSUME NEW b \in Seq(Records \cup {Scratch}), Len(b) <= N
  PROVE  Padded(b) = b \o [i \in 1 .. (N - Len(b)) |-> Fill]
<1> USE Sizes
<1> DEFINE T == Records \cup {Fill, Scratch}
           w == [i \in 1 .. (N - Len(b)) |-> Fill]
<1>1. b \in Seq(T) /\ Len(b) \in Nat
  OBVIOUS
<1>2. w \in Seq(T) /\ Len(w) = N - Len(b)
  <2>1. w \in [1 .. (N - Len(b)) -> T] /\ N - Len(b) \in Nat
    BY <1>1
  <2> HIDE DEF w
  <2>2. w \in Seq(T)
    BY <2>1, SeqDef
  <2>3. 1 .. Len(w) = 1 .. (N - Len(b)) /\ Len(w) \in Nat
    BY <2>1, <2>2, LenProperties
  <2> QED
    BY <2>1, <2>2, <2>3
<1>3. \A i \in 1 .. (N - Len(b)) : w[i] = Fill
  OBVIOUS
<1> HIDE DEF w
<1> DEFINE u == b \o w
<1>4. /\ u \in Seq(T) /\ Len(u) = N
      /\ \A i \in 1 .. N : u[i] = IF i <= Len(b) THEN b[i] ELSE w[i - Len(b)]
  BY <1>1, <1>2, ConcatProperties
<1> HIDE DEF u
<1>5. DOMAIN u = 1 .. N /\ u = [i \in DOMAIN u |-> u[i]]
  BY <1>4, LenProperties
<1>6. \A i \in 1 .. N : u[i] = IF i <= Len(b) THEN b[i] ELSE Fill
  BY <1>1, <1>3, <1>4
<1>7. Padded(b) = u
  BY <1>5, <1>6 DEF Padded
<1> QED
  BY <1>7 DEF u, w

-----------------------------------------------------------------------------
(* Chunks that are put into a file. *)

\* No two chunks of a queue go to the same place.
Distinct(q) == \A i, j \in DOMAIN q : PlaceOf(q[i].off) = PlaceOf(q[j].off) => i = j

\* A chunk that is put is there, all other places stay.
LEMMA PutAll ==
  ASSUME NEW d, NEW file, NEW q \in Seq(Chunk), AllPlaced(d, q), Distinct(q), NEW c \in ChunkIds
  PROVE  /\ \A m \in DOMAIN q : PlaceOf(q[m].off) = c => PutChunks(d, file, q)[c] = q[m].data
         /\ (\A m \in DOMAIN q : PlaceOf(q[m].off) # c) => PutChunks(d, file, q)[c] = file[c]
<1> DEFINE at == {k \in DOMAIN q : Writable(d, q[k].off) /\ PlaceOf(q[k].off) = c}
           last == {k \in at : \A m \in at : m <= k}
<1>1. PutChunks(d, file, q)[c] = IF last = {} THEN file[c] ELSE q[CHOOSE k \in last : TRUE].data
  BY DEF PutChunks
<1>2. ASSUME NEW m \in DOMAIN q, PlaceOf(q[m].off) = c
      PROVE  last = {m}
  <2>1. at = {m}
    BY <1>2 DEF AllPlaced, Distinct
  <2>2. m \in Nat /\ m <= m
    OBVIOUS
  <2> QED
    BY <2>1, <2>2
<1>3. ASSUME NEW m \in DOMAIN q, PlaceOf(q[m].off) = c
      PROVE  PutChunks(d, file, q)[c] = q[m].data
  <2>1. last = {m}
    BY <1>2, <1>3
  <2> HIDE DEF last
  <2> QED
    BY <1>1, <2>1
<1>4. ASSUME \A m \in DOMAIN q : PlaceOf(q[m].off) # c
      PROVE  PutChunks(d, file, q)[c] = file[c]
  <2>1. last = {}
    BY <1>4
  <2> HIDE DEF last
  <2> QED
    BY <1>1, <2>1
<1> QED
  BY <1>3, <1>4

\* Two files with the same chunks are the same.
LEMMA SameFile ==
  ASSUME NEW F \in Files, NEW G \in Files, \A c \in ChunkIds : F[c] = G[c]
  PROVE  F = G
BY DEF Files

\* The front of a queue may be put before the rest.
LEMMA PutInTwo ==
  ASSUME NEW d, NEW file \in Files, NEW q \in Seq(Chunk), AllPlaced(d, q), Distinct(q),
         NEW k \in 0 .. Len(q)
  PROVE  LET a == SubSeq(q, 1, k)
             b == SubSeq(q, k + 1, Len(q)) IN
         /\ PutChunks(d, PutChunks(d, file, a), b) = PutChunks(d, file, q)
         /\ AllPlaced(d, a) /\ AllPlaced(d, b) /\ Distinct(a) /\ Distinct(b)
         /\ a \in Seq(Chunk) /\ b \in Seq(Chunk)
<1> DEFINE a == SubSeq(q, 1, k)
           b == SubSeq(q, k + 1, Len(q))
<1>1. Len(q) \in Nat /\ k \in Nat /\ k <= Len(q)
  OBVIOUS
<1>2. /\ a \in Seq(Chunk) /\ b \in Seq(Chunk)
      /\ DOMAIN a = 1 .. k /\ \A i \in 1 .. k : a[i] = q[i] /\ i \in DOMAIN q
      /\ DOMAIN b = 1 .. (Len(q) - k)
      /\ \A i \in 1 .. (Len(q) - k) : b[i] = q[k + i] /\ k + i \in DOMAIN q
  BY <1>1
<1> HIDE DEF a, b
<1>3. AllPlaced(d, a) /\ AllPlaced(d, b)
  BY <1>2 DEF AllPlaced
<1>4. Distinct(a) /\ Distinct(b)
  <2>1. Distinct(a)
    BY <1>2 DEF Distinct
  <2>2. ASSUME NEW i \in DOMAIN b, NEW j \in DOMAIN b, PlaceOf(b[i].off) = PlaceOf(b[j].off)
        PROVE  i = j
    <3>1. k + i = k + j
      <4>1. k + i \in DOMAIN q /\ k + j \in DOMAIN q /\ b[i] = q[k + i] /\ b[j] = q[k + j]
        BY <1>2
      <4> QED
        BY <2>2, <4>1 DEF Distinct
    <3>2. i \in Nat /\ j \in Nat
      BY <1>2
    <3> QED
      BY <1>1, <3>1, <3>2
  <2> QED
    BY <2>1, <2>2 DEF Distinct
<1>5. a \in Seq(Chunk) /\ b \in Seq(Chunk)
  BY <1>2
<1>6. /\ PutChunks(d, file, a) \in Files /\ PutChunks(d, file, q) \in Files
      /\ PutChunks(d, PutChunks(d, file, a), b) \in Files
  <2>1. PutChunks(d, file, a) \in Files
    BY <1>5, PutChunksTyped
  <2> QED
    BY <1>5, <2>1, PutChunksTyped
<1>7. ASSUME NEW c \in ChunkIds
      PROVE  PutChunks(d, PutChunks(d, file, a), b)[c] = PutChunks(d, file, q)[c]
  <2>1. CASE \E m \in DOMAIN q : PlaceOf(q[m].off) = c
    <3>1. PICK m \in DOMAIN q : PlaceOf(q[m].off) = c
      BY <2>1
    <3>2. PutChunks(d, file, q)[c] = q[m].data
      BY <3>1, PutAll
    <3>3. m \in Nat /\ 1 <= m /\ m <= Len(q)
      OBVIOUS
    <3>4. CASE m > k
      <4>1. m - k \in DOMAIN b /\ b[m - k] = q[m]
        BY <1>1, <1>2, <3>3, <3>4
      <4>2. PutChunks(d, PutChunks(d, file, a), b)[c] = b[m - k].data
        <5>1. PlaceOf(b[m - k].off) = c
          BY <3>1, <4>1
        <5>2. ASSUME NEW G
              PROVE  \A i \in DOMAIN b : PlaceOf(b[i].off) = c => PutChunks(d, G, b)[c] = b[i].data
          BY <1>3, <1>4, <1>5, PutAll
        <5> QED
          BY <4>1, <5>1, <5>2
      <4> QED
        BY <3>2, <4>1, <4>2
    <3>5. CASE ~(m > k)
      <4>1. m \in DOMAIN a /\ a[m] = q[m]
        BY <1>1, <1>2, <3>3, <3>5
      <4>2. PutChunks(d, file, a)[c] = a[m].data
        <5>1. PlaceOf(a[m].off) = c
          BY <3>1, <4>1
        <5>2. \A i \in DOMAIN a : PlaceOf(a[i].off) = c => PutChunks(d, file, a)[c] = a[i].data
          BY <1>3, <1>4, <1>5, PutAll
        <5> QED
          BY <4>1, <5>1, <5>2
      <4>3. \A i \in DOMAIN b : PlaceOf(b[i].off) # c
        <5>1. ASSUME NEW i \in DOMAIN b, PlaceOf(b[i].off) = c PROVE FALSE
          <6>1. k + i = m
            <7>1. k + i \in DOMAIN q /\ b[i] = q[k + i]
              BY <1>2
            <7> QED
              BY <3>1, <5>1, <7>1 DEF Distinct
          <6>2. i \in Nat /\ 1 <= i
            BY <1>2
          <6> QED
            BY <1>1, <3>3, <3>5, <6>1, <6>2
        <5> QED
          BY <5>1
      <4>4. PutChunks(d, PutChunks(d, file, a), b)[c] = PutChunks(d, file, a)[c]
        BY <1>3, <1>4, <1>5, <4>3, PutAll
      <4> QED
        BY <3>2, <4>1, <4>2, <4>4
    <3> QED
      BY <3>4, <3>5
  <2>2. CASE \A m \in DOMAIN q : PlaceOf(q[m].off) # c
    <3>1. (\A i \in DOMAIN a : PlaceOf(a[i].off) # c) /\ (\A i \in DOMAIN b : PlaceOf(b[i].off) # c)
      BY <1>2, <2>2
    <3>2. /\ PutChunks(d, file, q)[c] = file[c]
          /\ PutChunks(d, file, a)[c] = file[c]
          /\ PutChunks(d, PutChunks(d, file, a), b)[c] = PutChunks(d, file, a)[c]
      BY <1>3, <1>4, <1>5, <2>2, <3>1, PutAll
    <3> QED
      BY <3>2
  <2> QED
    BY <2>1, <2>2
<1>8. PutChunks(d, PutChunks(d, file, a), b) = PutChunks(d, file, q)
  BY <1>6, <1>7, SameFile
<1> QED
  BY <1>3, <1>4, <1>5, <1>8 DEF a, b

\* A chunk for a place of its own, behind a queue.
LEMMA PutOneMore ==
  ASSUME NEW d, NEW file \in Files, NEW q \in Seq(Chunk), AllPlaced(d, q), Distinct(q),
         NEW x \in Chunk, Writable(d, x.off),
         \A i \in DOMAIN q : PlaceOf(q[i].off) # PlaceOf(x.off)
  PROVE  /\ Append(q, x) \in Seq(Chunk)
         /\ AllPlaced(d, Append(q, x)) /\ Distinct(Append(q, x))
         /\ \A c \in ChunkIds : PutChunks(d, file, Append(q, x))[c] =
               IF c = PlaceOf(x.off) THEN x.data ELSE PutChunks(d, file, q)[c]
<1> DEFINE a == Append(q, x)
<1>1. /\ a \in Seq(Chunk) /\ Len(q) \in Nat /\ Len(q) + 1 \in DOMAIN a /\ a[Len(q) + 1] = x
      /\ \A i \in DOMAIN a : (i \in DOMAIN q /\ a[i] = q[i]) \/ i = Len(q) + 1
      /\ \A i \in DOMAIN q : i \in DOMAIN a /\ a[i] = q[i] /\ i # Len(q) + 1
  OBVIOUS
<1>2. AllPlaced(d, a)
  BY AppendPlaced
<1> HIDE DEF a
<1>3. Distinct(a)
  BY <1>1 DEF Distinct
<1>4. ASSUME NEW c \in ChunkIds
      PROVE  PutChunks(d, file, a)[c] = IF c = PlaceOf(x.off) THEN x.data ELSE PutChunks(d, file, q)[c]
  <2>1. CASE c = PlaceOf(x.off)
    BY <1>1, <1>2, <1>3, <2>1, PutAll
  <2>2. CASE c # PlaceOf(x.off) /\ \E m \in DOMAIN q : PlaceOf(q[m].off) = c
    <3>1. PICK m \in DOMAIN q : PlaceOf(q[m].off) = c
      BY <2>2
    <3>2. PutChunks(d, file, q)[c] = q[m].data
      BY <3>1, PutAll
    <3>3. PutChunks(d, file, a)[c] = a[m].data
      BY <1>1, <1>2, <1>3, <3>1, PutAll
    <3> QED
      BY <1>1, <2>2, <3>2, <3>3
  <2>3. CASE c # PlaceOf(x.off) /\ \A m \in DOMAIN q : PlaceOf(q[m].off) # c
    <3>1. \A m \in DOMAIN a : PlaceOf(a[m].off) # c
      BY <1>1, <2>3
    <3>2. PutChunks(d, file, q)[c] = file[c] /\ PutChunks(d, file, a)[c] = file[c]
      BY <1>1, <1>2, <1>3, <2>3, <3>1, PutAll
    <3> QED
      BY <2>3, <3>2
  <2> QED
    BY <2>1, <2>2, <2>3
<1> QED
  BY <1>1, <1>2, <1>3, <1>4 DEF a

\* Where all have a place the dimensions do not matter.
LEMMA PutAnyDims ==
  ASSUME NEW d, NEW e, NEW file \in Files, NEW q \in Seq(Chunk),
         AllPlaced(d, q), AllPlaced(e, q), Distinct(q)
  PROVE  PutChunks(d, file, q) = PutChunks(e, file, q)
<1>1. PutChunks(d, file, q) \in Files /\ PutChunks(e, file, q) \in Files
  BY PutChunksTyped
<1>2. ASSUME NEW c \in ChunkIds
      PROVE  PutChunks(d, file, q)[c] = PutChunks(e, file, q)[c]
  <2>1. CASE \E m \in DOMAIN q : PlaceOf(q[m].off) = c
    BY <2>1, PutAll
  <2>2. CASE \A m \in DOMAIN q : PlaceOf(q[m].off) # c
    BY <2>2, PutAll
  <2> QED
    BY <2>1, <2>2
<1> QED
  BY <1>1, <1>2, SameFile

-----------------------------------------------------------------------------
(* The file and the queue of a table. *)

\* The chunks of the dataset.
K == extent.rows \div ChunkRows

\* The chunks as they will be when the queue is stored.
Image(p) == PutChunks(extent, disk, pending[p])

\* Every queued chunk has a place of its own, strings and the basic pipeline
\* queue nothing, and there is only the fill value behind the extent.
InFile(p) ==
    /\ Distinct(pending[p])
    /\ strings \/ pipeline[p] # "pool" => pending[p] = <<>>
    /\ \A c \in ChunkIds : K <= c => disk[c] = [i \in 1 .. N |-> Fill]

LogInv(p) == StoredInv /\ InFile(p)

\* The dataset consists of chunks, and what is queued has its place among them.
LEMMA Ends ==
  ASSUME StoredInv, NEW p \in Tables
  PROVE  /\ HasChunks(extent, K) /\ K \in Nat /\ extent.rows = K * ChunkRows
         /\ \A c \in 0 .. (K - 1) : c \in ChunkIds
         /\ pending[p] \in Seq(Chunk) /\ AllPlaced(extent, pending[p])
         /\ \A i \in DOMAIN pending[p] : PlaceOf(pending[p][i].off) \in 0 .. (K - 1)
         /\ disk \in Files /\ Image(p) \in Files
<1> USE Sizes DEF StoredInv, PositionInv
<1>1. /\ extent \in Extents /\ extent.rows \in Nat /\ extent.rows <= MaxRows
      /\ extent.rows % ChunkRows = 0 /\ extent.cols = Cols
      /\ extent = [rows |-> extent.rows, cols |-> extent.cols]
  BY DEF Placed, TypeInv, TypeOK, Extents
<1>2. K \in Nat /\ extent.rows = K * ChunkRows
  BY <1>1, DivMod, DivNat DEF K
<1>3. HasChunks(extent, K)
  BY <1>1, <1>2 DEF HasChunks
<1>4. K <= MaxRows \div ChunkRows
  BY <1>1, <1>2, DivBound
<1>5. \A c \in 0 .. (K - 1) : c \in ChunkIds
  <2>1. MaxRows \div ChunkRows \in Nat
    BY DivNat
  <2> QED
    BY <1>2, <1>4, <2>1 DEF ChunkIds
<1>6. pending[p] \in Seq(Chunk) /\ AllPlaced(extent, pending[p]) /\ disk \in Files
  BY DEF Placed, TypeInv, TypeOK, Buffers, Files
<1>7. ASSUME NEW i \in DOMAIN pending[p]
      PROVE  PlaceOf(pending[p][i].off) \in 0 .. (K - 1)
  <2> DEFINE off == pending[p][i].off
             d == off \div ChunkRows
  <2>1. pending[p][i] \in Chunk
    BY <1>6
  <2>2. off \in Nat /\ off % ChunkRows = 0 /\ off < K * ChunkRows
    BY <1>2, <1>6, <2>1 DEF Chunk, AllPlaced, Writable
  <2> HIDE DEF off
  <2>3. d \in Nat /\ off = d * ChunkRows
    <3>1. d \in Nat
      BY <2>2, DivNat
    <3>2. off \in Int
      BY <2>2
    <3>3. off = (d * ChunkRows) + (off % ChunkRows)
      BY <3>2, DivMod
    <3> HIDE DEF d
    <3> QED
      BY <2>2, <3>1, <3>3
  <2> HIDE DEF d
  <2>4. ASSUME K <= d PROVE FALSE
    <3>1. K * ChunkRows <= d * ChunkRows
      BY <1>2, <2>3, <2>4, TimesMonotone
    <3> QED
      BY <1>2, <2>2, <2>3, <3>1
  <2>5. d \in 0 .. (K - 1)
    BY <1>2, <2>3, <2>4
  <2> QED
    BY <2>5 DEF PlaceOf, d, off
<1>8. Image(p) \in Files
  BY <1>6, PutChunksTyped DEF Image
<1> QED
  BY <1>2, <1>3, <1>5, <1>6, <1>7, <1>8

\* The dataset with a chunk more.
LEMMA EndsBehind ==
  ASSUME Whole, StoredInv, NEW p \in Tables, Usable(p), CanExtend(Grown(p, ChunkRows))
  PROVE  LET d == Grown(p, ChunkRows) IN
         /\ HasChunks(d, K + 1) /\ d.rows \div ChunkRows = K + 1
         /\ K \in ChunkIds /\ PlaceOf(cur[p].rows) = K /\ cur[p].rows = K * ChunkRows
         /\ Resize(d, disk) = disk
         /\ AllPlaced(d, pending[p]) /\ Writable(d, cur[p].rows)
<1> USE Sizes
<1> DEFINE d == Grown(p, ChunkRows)
<1>1. /\ cur[p] = extent /\ d = [extent EXCEPT !.rows = @ + ChunkRows]
      /\ d.rows = extent.rows + ChunkRows
      /\ AllPlaced(d, pending[p]) /\ Writable(d, cur[p].rows)
  BY GrownPlaced
<1>2. d.rows <= MaxRows
  BY DEF CanExtend
<1> HIDE DEF d
<1>3. K \in Nat /\ extent.rows = K * ChunkRows /\ extent = [rows |-> K * ChunkRows, cols |-> Cols]
  BY Ends DEF HasChunks
<1>4. (K + 1) * ChunkRows = (K * ChunkRows) + ChunkRows /\ K * ChunkRows \in Nat
  BY <1>3
<1>5. HasChunks(d, K + 1)
  BY <1>1, <1>3, <1>4 DEF HasChunks
<1>6. K + 1 <= MaxRows \div ChunkRows
  <2>1. K + 1 \in Nat /\ (K + 1) * ChunkRows <= MaxRows
    BY <1>1, <1>2, <1>3, <1>4
  <2> QED
    BY <2>1, DivBound
<1>7. K \in ChunkIds
  <2>1. MaxRows \div ChunkRows \in Nat
    BY DivNat
  <2> QED
    BY <1>3, <1>6, <2>1 DEF ChunkIds
<1>8. PlaceOf(cur[p].rows) = K
  BY <1>1, <1>3 DEF PlaceOf, K
<1>9. d.rows \div ChunkRows = K + 1
  <2>1. d.rows = ((K + 1) * ChunkRows) + 0 /\ 0 \in 0 .. (ChunkRows - 1) /\ d.rows \in Int
    BY <1>1, <1>3, <1>4
  <2> QED
    BY <1>3, <2>1, DivIs
<1>10. Resize(d, disk) = disk
  <2>1. d.rows >= extent.rows /\ d.cols >= extent.cols
    BY <1>1, <1>3, <1>4
  <2> QED
    BY <2>1 DEF Resize
<1> QED
  BY <1>1, <1>3, <1>5, <1>7, <1>8, <1>9, <1>10 DEF d

\* The chunk that is written is in the image, wherever it is.
LEMMA WriteChunkImage ==
  ASSUME NEW p \in Tables, LogInv(p), NEW d, AllPlaced(d, pending[p]), Resize(d, disk) = disk,
         NEW x \in Chunk, Writable(d, x.off), PlaceOf(x.off) = K, WriteChunk(p, d, x)
  PROVE  /\ Distinct(pending'[p])
         /\ pipeline[p] # "pool" => pending'[p] = <<>>
         /\ \A c \in ChunkIds : PutChunks(d, disk', pending'[p])[c] =
               IF c = K THEN x.data ELSE PutChunks(d, disk, pending[p])[c]
         /\ \A c \in ChunkIds : K + 1 <= c => disk'[c] = disk[c]
<1>1. /\ pending[p] \in Seq(Chunk) /\ disk \in Files /\ K \in Nat
      /\ \A i \in DOMAIN pending[p] : PlaceOf(pending[p][i].off) \in 0 .. (K - 1)
      /\ Distinct(pending[p])
  BY Ends DEF LogInv, InFile
<1>2. \A i \in DOMAIN pending[p] : PlaceOf(pending[p][i].off) # PlaceOf(x.off)
  BY <1>1
<1> DEFINE q == Append(pending[p], x)
<1>3. /\ q \in Seq(Chunk) /\ AllPlaced(d, q) /\ Distinct(q)
      /\ \A c \in ChunkIds : PutChunks(d, disk, q)[c] =
            IF c = K THEN x.data ELSE PutChunks(d, disk, pending[p])[c]
  <2>1. PICK r \in Seq(Chunk) : r = pending[p]
    BY <1>1
  <2>2. AllPlaced(d, r) /\ Distinct(r) /\ disk \in Files
    BY <1>1, <2>1
  <2>3. \A i \in DOMAIN r : PlaceOf(r[i].off) # PlaceOf(x.off)
    BY <1>2, <2>1
  <2>4. /\ Append(r, x) \in Seq(Chunk)
        /\ AllPlaced(d, Append(r, x)) /\ Distinct(Append(r, x))
        /\ \A c \in ChunkIds : PutChunks(d, disk, Append(r, x))[c] =
              IF c = PlaceOf(x.off) THEN x.data ELSE PutChunks(d, disk, r)[c]
    BY <2>2, <2>3, PutOneMore
  <2> QED
    BY <2>1, <2>4
<1>4. \A i \in DOMAIN q : PlaceOf(q[i].off) \in 0 .. K
  <2>1. \A i \in DOMAIN q : q[i] = x \/ (i \in DOMAIN pending[p] /\ q[i] = pending[p][i])
    BY <1>1
  <2> HIDE DEF q
  <2> QED
    BY <1>1, <2>1
<1> HIDE DEF q
<1>5. CASE pipeline[p] = "pool"
  <2>1. PICK k \in 0 .. Len(q) :
            /\ disk' = PutChunks(d, disk, SubSeq(q, 1, k))
            /\ pending' = [pending EXCEPT ![p] = SubSeq(q, k + 1, Len(q))]
    BY <1>5 DEF WriteChunk, q
  <2> DEFINE a == SubSeq(q, 1, k)
             b == SubSeq(q, k + 1, Len(q))
  <2>2. pending'[p] = b
    BY <2>1 DEF LogInv, StoredInv, PositionInv, TypeInv, Buffers
  <2>3. /\ PutChunks(d, PutChunks(d, disk, a), b) = PutChunks(d, disk, q)
        /\ AllPlaced(d, a) /\ Distinct(a) /\ Distinct(b) /\ a \in Seq(Chunk)
    BY <1>1, <1>3, PutInTwo
  <2>4. \A i \in DOMAIN a : PlaceOf(a[i].off) \in 0 .. K
    <3>1. Len(q) \in Nat
      BY <1>3
    <3>2. \A i \in DOMAIN a : i \in DOMAIN q /\ a[i] = q[i]
      BY <1>3, <3>1
    <3> HIDE DEF a
    <3> QED
      BY <1>4, <3>2
  <2> HIDE DEF a, b
  <2>5. ASSUME NEW c \in ChunkIds, K + 1 <= c PROVE disk'[c] = disk[c]
    <3>1. \A i \in DOMAIN a : PlaceOf(a[i].off) # c
      BY <1>1, <2>4, <2>5
    <3>2. PutChunks(d, disk, a)[c] = disk[c]
      BY <2>3, <3>1, PutAll
    <3> QED
      BY <2>1, <3>2 DEF a
  <2>6. PutChunks(d, disk', pending'[p]) = PutChunks(d, disk, q)
    BY <2>1, <2>2, <2>3 DEF a
  <2> QED
    BY <1>3, <1>5, <2>2, <2>3, <2>5, <2>6
<1>6. CASE pipeline[p] # "pool"
  <2>1. pending[p] = <<>> /\ pending' = pending /\ disk' = PutChunks(d, disk, <<x>>)
    BY <1>6 DEF WriteChunk, LogInv, InFile
  <2>2. q = <<x>>
    BY <2>1 DEF q
  <2>3. disk' \in Files
    BY <1>1, <1>3, <2>1, <2>2, PutChunksTyped
  <2>4. PutChunks(d, disk', pending'[p]) = PutChunks(d, disk, q)
    BY <2>1, <2>2, <2>3, NothingToPut
  <2>5. ASSUME NEW c \in ChunkIds, K + 1 <= c PROVE disk'[c] = disk[c]
    <3>1. \A i \in DOMAIN q : PlaceOf(q[i].off) # c
      BY <1>1, <1>4, <2>5
    <3>2. PutChunks(d, disk, q)[c] = disk[c]
      BY <1>3, <3>1, PutAll
    <3> QED
      BY <2>1, <2>2, <3>2
  <2> QED
    BY <1>1, <1>3, <2>1, <2>4, <2>5
<1> QED
  BY <1>5, <1>6

\* A chunk of which the first records are replaced.
Over(b, chunk) == [i \in 1 .. N |-> IF i <= Len(b) THEN b[i] ELSE chunk[i]]

\* Strings at the end of a dataset go to the chunk that is behind it.
LEMMA StringsPut ==
  ASSUME N = ChunkRows, NEW file \in Files, NEW b \in Seq(Records \cup {Scratch}),
         Len(b) <= N, NEW k \in Nat, NEW c \in ChunkIds
  PROVE  PutStrings(file, k * N, b)[c] =
            IF c = k THEN Over(b, file[c]) ELSE file[c]
<1> USE Sizes
<1>1. c \in Nat /\ Len(b) \in Nat /\ DOMAIN b = 1 .. Len(b)
  BY DEF ChunkIds
<1>2. PutStrings(file, k * N, b)[c] =
         [i \in 1 .. N |-> IF (c * N) + i - (k * N) \in DOMAIN b
                           THEN b[(c * N) + i - (k * N)] ELSE file[c][i]]
  BY DEF PutStrings
<1>3. file[c] = [i \in 1 .. N |-> file[c][i]]
  BY DEF Files, Data
<1>4. c * N \in Nat /\ k * N \in Nat
  BY <1>1
<1>5. CASE c = k
  <2>1. ASSUME NEW i \in 1 .. N
        PROVE  /\ (c * N) + i - (k * N) = i
               /\ i \in DOMAIN b <=> i <= Len(b)
    BY <1>1, <1>4, <1>5
  <2> QED
    BY <1>2, <1>5, <2>1 DEF Over
<1>6. CASE c # k
  <2>1. ASSUME NEW i \in 1 .. N PROVE (c * N) + i - (k * N) \notin DOMAIN b
    <3>1. CASE c + 1 <= k
      <4>1. (c + 1) * N <= k * N /\ (c + 1) * N = (c * N) + N
        BY <1>1, <3>1, TimesMonotone
      <4> QED
        BY <1>1, <1>4, <4>1
    <3>2. CASE k + 1 <= c
      <4>1. (k + 1) * N <= c * N /\ (k + 1) * N = (k * N) + N
        BY <1>1, <3>2, TimesMonotone
      <4> QED
        BY <1>1, <1>4, <4>1
    <3> QED
      BY <1>1, <1>6, <3>1, <3>2
  <2>2. [i \in 1 .. N |-> IF (c * N) + i - (k * N) \in DOMAIN b
                          THEN b[(c * N) + i - (k * N)] ELSE file[c][i]]
         = [i \in 1 .. N |-> file[c][i]]
    BY <2>1
  <2> QED
    BY <1>2, <1>3, <1>6, <2>2
<1> QED
  BY <1>5, <1>6

-----------------------------------------------------------------------------
(* The log. *)

\* The calls of which the log is an account: they keep to whole chunks, no block
\* is appended over buffered records in the scratch buffer, and the characters of
\* a string stay until they are written.
Faithful == Whole /\ "overlap" \notin Calls /\ "reuse" \notin Calls

LEMMA SoleIs ==
  ASSUME NEW p, Tables = {p}
  PROVE  Sole = p /\ p \in Tables
BY DEF Sole

\* What is committed is the image, what a reader gets is the file.
LEMMA CommittedIs ==
  ASSUME NEW p, Tables = {p}, StoredInv
  PROVE  /\ Committed = RecordsOf(extent, Image(p)) /\ Readable(disk) = RecordsOf(extent, disk)
         /\ Len(Committed) = K * N /\ Len(Readable(disk)) = K * N /\ K * N \in Nat
         /\ Committed \in Seq(Records \cup {Fill, Scratch})
<1>1. Sole = p /\ p \in Tables
  BY SoleIs
<1>2. Committed = RecordsOf(extent, Image(p)) /\ Readable(disk) = RecordsOf(extent, disk)
  BY <1>1 DEF Committed, Readable, RecordsOf, Image
<1>3. HasChunks(extent, K) /\ Image(p) \in Files /\ disk \in Files /\ extent \in Extents
  BY <1>1, Ends DEF StoredInv, PositionInv, TypeInv, TypeOK, Extents
<1>4. \A file \in Files :
        /\ RecordsOf(extent, file) \in Seq(Records \cup {Fill, Scratch})
        /\ Len(RecordsOf(extent, file)) = K * N /\ K * N \in Nat
  BY <1>3, RecordsCounted
<1> QED
  BY <1>2, <1>3, <1>4

\* A chunk behind the others.
LEMMA CommittedGrows ==
  ASSUME NEW p, Tables = {p}, StoredInv, StoredInv', HasChunks(extent', K + 1), K \in ChunkIds,
         NEW data, \A c \in ChunkIds : Image(p)'[c] = IF c = K THEN data ELSE Image(p)[c]
  PROVE  Committed' = Committed \o data
<1>1. Sole = p /\ p \in Tables
  BY SoleIs
<1>2. /\ HasChunks(extent, K) /\ K \in Nat
      /\ \A c \in 0 .. (K - 1) : c \in ChunkIds
      /\ Image(p) \in Files
  BY <1>1, Ends
<1>3. Image(p)' \in Files
  <2>1. disk' \in Files /\ pending'[p] \in Seq(Chunk)
    BY <1>1 DEF StoredInv, PositionInv, TypeInv, TypeOK, Buffers, Files
  <2>2. PutChunks(extent', disk', pending'[p]) \in Files
    BY <2>1, PutChunksTyped
  <2> QED
    BY <2>2 DEF Image
<1>4. \A c \in 0 .. (K - 1) : c \in ChunkIds /\ Image(p)'[c] = Image(p)[c]
  BY <1>2
<1>5. RecordsOf(extent', Image(p)') = RecordsOf(extent, Image(p)) \o (Image(p)')[K]
  <2>1. PICK F, G, e, f, k : F = Image(p) /\ G = Image(p)' /\ e = extent /\ f = extent' /\ k = K
    OBVIOUS
  <2>2. /\ HasChunks(e, k) /\ HasChunks(f, k + 1) /\ F \in Files /\ G \in Files /\ k \in ChunkIds
        /\ \A c \in 0 .. (k - 1) : c \in ChunkIds /\ G[c] = F[c]
    BY <1>2, <1>3, <1>4, <2>1
  <2>3. RecordsOf(f, G) = RecordsOf(e, F) \o G[k]
    BY <2>2, RecordsGrow
  <2> QED
    BY <2>1, <2>3
<1>6. Committed = RecordsOf(extent, Image(p))
  BY CommittedIs
<1>7. Committed' = RecordsOf(extent', Image(p)')
  BY <1>1 DEF Committed, Readable, RecordsOf, Image
<1>8. Image(p)'[K] = data
  OBVIOUS
<1> QED
  BY <1>5, <1>6, <1>7, <1>8

\* Where set_extent throws, the log is full.
LEMMA CapacityReached ==
  ASSUME NEW p, Tables = {p}, StoredInv, Usable(p),
         ~CanExtend(Grown(p, ChunkRows)) \/ cur[p].rows > MaxRows
  PROVE  Len(Committed) + N > MaxRows * Cols
<1> USE Sizes
<1>1. p \in Tables
  BY SoleIs
<1>2. /\ extent.rows = K * ChunkRows /\ K \in Nat /\ extent.rows \in Nat
  BY <1>1, Ends DEF StoredInv, PositionInv, TypeInv, TypeOK
<1>3. Grown(p, ChunkRows).rows = cur[p].rows + ChunkRows
  BY <1>1, GrownTyped DEF StoredInv, PositionInv
<1>4. extent.rows + ChunkRows > MaxRows
  BY <1>1, <1>2, <1>3 DEF StoredInv, PositionInv, PositionIsExtent, CanExtend
<1>5. (MaxRows + 1) * Cols <= (extent.rows + ChunkRows) * Cols
  BY <1>2, <1>4, TimesMonotone
<1>6. (extent.rows + ChunkRows) * Cols = (K * N) + N
  <2>1. (K * ChunkRows) * Cols = K * N
    BY <1>2 DEF N
  <2>2. (extent.rows + ChunkRows) * Cols = (extent.rows * Cols) + (ChunkRows * Cols)
    BY <1>2
  <2> QED
    BY <1>2, <2>1, <2>2 DEF N
<1>7. (MaxRows + 1) * Cols = (MaxRows * Cols) + Cols /\ MaxRows * Cols \in Nat
  OBVIOUS
<1>8. Len(Committed) = K * N /\ K * N \in Nat
  BY CommittedIs
<1> QED
  BY <1>5, <1>6, <1>7, <1>8

\* A step after which the table is open is a step of an open log.
LEMMA BusyStep ==
  ASSUME NEW p, Tables = {p}, StoredInv, StoredInv', Usable(p), Entered(p, "open")
  PROVE  Log!Busy
<1>1. Sole = p /\ p \in Tables
  BY SoleIs
<1>2. state[p] \in {"open", "synced"} /\ state'[p] = "open"
  BY <1>1 DEF Usable, Entered, StoredInv, PositionInv, TypeInv, TypeOK
<1>3. Len(Readable(disk)') = Len(Committed')
  <2>1. /\ extent' \in Extents /\ extent'.rows % ChunkRows = 0 /\ extent'.cols = Cols
        /\ disk' \in Files /\ pending'[p] \in Seq(Chunk)
    BY <1>1 DEF StoredInv, PositionInv, Placed, TypeInv, TypeOK, Buffers, Files, Extents
  <2>2. PICK k \in Nat : HasChunks(extent', k)
    BY <2>1, WholeChunks
  <2>3. PutChunks(extent', disk', pending'[p]) \in Files
    BY <2>1, PutChunksTyped
  <2>4. \A file \in Files : Len(RecordsOf(extent', file)) = k * N
    BY <2>1, <2>2, RecordsCounted
  <2>5. /\ Readable(disk)' = RecordsOf(extent', disk')
        /\ Committed' = RecordsOf(extent', PutChunks(extent', disk', pending'[p]))
    BY <1>1 DEF Committed, Readable, RecordsOf
  <2> QED
    BY <2>1, <2>3, <2>4, <2>5
<1> QED
  BY <1>1, <1>2, <1>3 DEF Log!Busy, Log!Usable

\* set_extent and write_chunk: the chunk is committed.
LEMMA ExtendCommits ==
  ASSUME NEW p, Tables = {p}, Whole, LogInv(p), StoredInv', Usable(p), NEW data \in Data,
         ExtendAndWrite(p, Grown(p, ChunkRows), data), ~strings, UNCHANGED <<strings, pipeline>>
  PROVE  InFile(p)' /\ Committed' = Committed \o data
<1> DEFINE d == Grown(p, ChunkRows)
           x == [off |-> cur[p].rows, data |-> data]
<1>1. p \in Tables
  BY SoleIs
<1>2. CanExtend(d) /\ extent' = d /\ WriteChunk(p, d, x)
  BY DEF ExtendAndWrite
<1>3. /\ HasChunks(d, K + 1) /\ d.rows \div ChunkRows = K + 1
      /\ K \in ChunkIds /\ PlaceOf(cur[p].rows) = K
      /\ Resize(d, disk) = disk
      /\ AllPlaced(d, pending[p]) /\ Writable(d, cur[p].rows)
  BY <1>1, <1>2, EndsBehind DEF LogInv
<1>4. x \in Chunk /\ x.off = cur[p].rows /\ x.data = data
  BY <1>1 DEF LogInv, StoredInv, PositionInv, TypeInv, TypeOK, Dims, Chunk
<1> HIDE DEF d, x
<1>5. /\ Distinct(pending'[p])
      /\ pipeline[p] # "pool" => pending'[p] = <<>>
      /\ \A c \in ChunkIds : PutChunks(d, disk', pending'[p])[c] =
            IF c = K THEN data ELSE PutChunks(d, disk, pending[p])[c]
      /\ \A c \in ChunkIds : K + 1 <= c => disk'[c] = disk[c]
  BY <1>1, <1>2, <1>3, <1>4, WriteChunkImage
<1>6. /\ pending[p] \in Seq(Chunk) /\ AllPlaced(extent, pending[p]) /\ disk \in Files
      /\ Distinct(pending[p]) /\ K \in Nat
  BY <1>1, Ends DEF LogInv, InFile
<1>7. PutChunks(d, disk, pending[p]) = Image(p)
  BY <1>3, <1>6, PutAnyDims DEF Image
<1>8. \A c \in ChunkIds : Image(p)'[c] = IF c = K THEN data ELSE Image(p)[c]
  BY <1>2, <1>5, <1>7 DEF Image
<1>9. Committed' = Committed \o data
  BY <1>2, <1>3, <1>8, CommittedGrows DEF LogInv
<1>10. K' = K + 1
  BY <1>2, <1>3 DEF K
<1>11. InFile(p)'
  <2>1. ASSUME NEW c \in ChunkIds, K + 1 <= c PROVE disk'[c] = [i \in 1 .. N |-> Fill]
    <3>1. K <= c
      BY <1>6, <2>1 DEF ChunkIds
    <3> QED
      BY <1>5, <2>1, <3>1 DEF LogInv, InFile
  <2> QED
    BY <1>5, <1>10, <2>1 DEF InFile
<1> QED
  BY <1>9, <1>11

\* A step that leaves the file and the queue.
LEMMA QuietCommits ==
  ASSUME NEW p, Tables = {p}, LogInv(p), UNCHANGED <<extent, disk, pending, strings, pipeline>>
  PROVE  InFile(p)' /\ Committed' = Committed
<1>1. K' = K
  BY DEF K
<1>2. InFile(p)'
  BY <1>1 DEF LogInv, InFile
<1> QED
  BY <1>2 DEF Committed, Readable

\* A full buffer is not padded.
LEMMA PaddedFull ==
  ASSUME NEW b \in Seq(Records \cup {Scratch}), Len(b) = N
  PROVE  Padded(b) = b
<1>1. DOMAIN b = 1 .. N /\ b = [i \in DOMAIN b |-> b[i]]
  BY LenProperties
<1>2. \A i \in 1 .. N : i <= Len(b)
  OBVIOUS
<1> QED
  BY <1>1, <1>2 DEF Padded

\* set_extent and H5Dwrite of strings: they are committed, with the fill value
\* behind them.
LEMMA StringsCommit ==
  ASSUME NEW p, Tables = {p}, Whole, LogInv(p), StoredInv', Usable(p), strings,
         CanExtend(Grown(p, ChunkRows)), extent' = Grown(p, ChunkRows),
         NEW b \in Seq(Records \cup {Scratch}), Len(b) <= N,
         disk' = PutStrings(Resize(Grown(p, ChunkRows), disk), cur[p].rows, b),
         pending'[p] = <<>>, UNCHANGED <<strings, pipeline>>
  PROVE  InFile(p)' /\ Committed' = Committed \o Padded(b)
<1> USE Sizes
<1> DEFINE d == Grown(p, ChunkRows)
<1>1. p \in Tables
  BY SoleIs
<1>2. /\ HasChunks(d, K + 1) /\ d.rows \div ChunkRows = K + 1
      /\ K \in ChunkIds /\ cur[p].rows = K * ChunkRows
      /\ Resize(d, disk) = disk
  BY <1>1, EndsBehind DEF LogInv
<1> HIDE DEF d
<1>3. N = ChunkRows
  BY TableAssumption DEF LogInv, StoredInv, Placed, N
<1>4. disk \in Files /\ K \in Nat /\ extent' = d
  BY <1>1, Ends DEF LogInv, d
<1>5. disk' = PutStrings(disk, K * N, b)
  BY <1>2, <1>3 DEF d
<1>6. \A c \in ChunkIds : disk'[c] =
         IF c = K THEN Over(b, disk[c]) ELSE disk[c]
  <2>1. ASSUME NEW c \in ChunkIds
        PROVE  PutStrings(disk, K * N, b)[c] =
                  IF c = K THEN Over(b, disk[c]) ELSE disk[c]
    <3>1. K \in Nat /\ disk \in Files /\ N = ChunkRows
      BY <1>3, <1>4
    <3> QED
      BY <3>1, StringsPut
  <2> QED
    BY <1>5, <2>1
<1>7. disk[K] = [i \in 1 .. N |-> Fill]
  BY <1>2, <1>4 DEF LogInv, InFile
<1>8. \A c \in ChunkIds : disk'[c] = IF c = K THEN Padded(b) ELSE disk[c]
  BY <1>6, <1>7 DEF Padded, Over
<1>9. Image(p) = disk
  <2>1. pending[p] = <<>>
    BY DEF LogInv, InFile
  <2> QED
    BY <1>4, <2>1, NothingToPut DEF Image
<1>10. Image(p)' = disk'
  <2>1. disk' \in Files
    BY DEF StoredInv, PositionInv, TypeInv, TypeOK, Files
  <2>2. PutChunks(extent', disk', <<>>) = disk'
    BY <2>1, NothingToPut
  <2> QED
    BY <2>2 DEF Image
<1>11. Committed' = Committed \o Padded(b)
  <2>1. \A c \in ChunkIds : Image(p)'[c] = IF c = K THEN Padded(b) ELSE Image(p)[c]
    BY <1>8, <1>9, <1>10
  <2>2. HasChunks(extent', K + 1)
    BY <1>2, <1>4
  <2> QED
    BY <1>2, <2>1, <2>2, CommittedGrows DEF LogInv
<1>12. InFile(p)'
  <2>1. K' = K + 1
    BY <1>2, <1>4 DEF K
  <2>2. ASSUME NEW c \in ChunkIds, K + 1 <= c PROVE disk'[c] = [i \in 1 .. N |-> Fill]
    <3>1. K <= c /\ c # K
      BY <1>4, <2>2 DEF ChunkIds
    <3> QED
      BY <1>8, <3>1 DEF LogInv, InFile
  <2>3. Distinct(pending'[p])
    BY DEF Distinct
  <2> QED
    BY <2>1, <2>2, <2>3 DEF InFile
<1> QED
  BY <1>11, <1>12

-----------------------------------------------------------------------------
(* Every call is a step of the log. *)

\* The records a table buffers.
LEMMA BufferIs ==
  ASSUME TypeInv, NEW p \in Tables, NEW v \in Records
  PROVE  /\ buf[p] \in Seq(Records \cup {Scratch}) /\ Len(buf[p]) \in Nat
         /\ Append(buf[p], v) \in Seq(Records \cup {Scratch})
         /\ Len(Append(buf[p], v)) = Len(buf[p]) + 1
         /\ \A b : buf' = [buf EXCEPT ![p] = b] => buf'[p] = b
<1>1. buf \in [Tables -> Seq(Records \cup {Scratch})]
  BY DEF TypeInv, Buffers
<1> QED
  BY <1>1

\* set_extent throws in an append.
LEMMA ThrowLogs ==
  ASSUME NEW p, Tables = {p}, LogInv(p), StoredInv', Usable(p),
         ExtendThrows(p, Grown(p, ChunkRows)), UNCHANGED <<strings, pipeline>>
  PROVE  /\ InFile(p)' /\ Committed' = Committed /\ Log!Busy
         /\ Len(Committed) + N > MaxRows * Cols
         /\ buf'[p] \in {buf[p], <<>>} => Log!Refuse
<1>1. Sole = p /\ p \in Tables
  BY SoleIs
<1>2. /\ ~CanExtend(Grown(p, ChunkRows)) /\ UNCHANGED <<extent, disk, pending>>
      /\ Entered(p, "open")
  BY DEF ExtendThrows, Entered
<1>3. InFile(p)' /\ Committed' = Committed
  BY <1>2, QuietCommits
<1>4. Log!Busy
  BY <1>2, BusyStep DEF LogInv
<1>5. Len(Committed) + N > MaxRows * Cols
  BY <1>2, CapacityReached DEF LogInv
<1> QED
  BY <1>1, <1>3, <1>4, <1>5 DEF Log!Refuse

LEMMA RecordLogs ==
  ASSUME NEW p, Tables = {p}, Whole, LogInv(p), StoredInv', NEW v \in Records, AppendRecord(p, v)
  PROVE  InFile(p)' /\ (Log!TakeRecord(v) \/ Log!Refuse)
<1> DEFINE b == Append(buf[p], v)
           d == Grown(p, ChunkRows)
<1>1. Sole = p /\ p \in Tables
  BY SoleIs
<1>2. Usable(p) /\ ~strings /\ UNCHANGED <<strings, pipeline>>
  BY DEF AppendRecord, fileVars
<1>3. /\ b \in Seq(Records \cup {Scratch}) /\ Len(b) \in Nat /\ Len(b) <= N
      /\ \A a : buf' = [buf EXCEPT ![p] = a] => buf'[p] = a
  <2>1. Len(buf[p]) < N
    BY <1>1, <1>2, BufferFits DEF LogInv, StoredInv, PositionInv
  <2>2. /\ b \in Seq(Records \cup {Scratch}) /\ Len(b) = Len(buf[p]) + 1 /\ Len(buf[p]) \in Nat
        /\ \A a : buf' = [buf EXCEPT ![p] = a] => buf'[p] = a
    BY <1>1, BufferIs DEF LogInv, StoredInv, PositionInv
  <2> HIDE DEF b
  <2> QED
    BY <2>1, <2>2, Sizes
<1> HIDE DEF b, d
<1>4. CASE /\ ~Full(b)
           /\ buf' = [buf EXCEPT ![p] = b]
           /\ state' = [state EXCEPT ![p] = "open"]
           /\ UNCHANGED <<extent, disk, cur, pending, silent>>
  <2>1. Len(b) < N
    BY <1>3, <1>4, Sizes DEF Full
  <2>4. buf'[p] = b
    BY <1>3, <1>4
  <2>2. InFile(p)' /\ Committed' = Committed
    BY <1>2, <1>4, QuietCommits
  <2>3. Log!Busy
    BY <1>2, <1>4, BusyStep DEF LogInv, Entered
  <2> QED
    BY <1>1, <2>1, <2>2, <2>3, <2>4 DEF Log!TakeRecord, b
<1>5. CASE Full(b) /\ buf' = [buf EXCEPT ![p] = <<>>] /\ ExtendThrows(p, d)
  BY <1>2, <1>3, <1>5, ThrowLogs DEF d
<1>6. CASE Full(b) /\ buf' = [buf EXCEPT ![p] = <<>>] /\ ExtendAndWrite(p, d, b)
  <2>1. b \in Data
    BY <1>3, <1>6, FullTyped
  <2>4. ~(Len(b) < N)
    BY <1>3, <1>6, Sizes DEF Full
  <2>5. buf'[p] = <<>>
    BY <1>3, <1>6
  <2>2. InFile(p)' /\ Committed' = Committed \o b
    BY <1>2, <1>6, <2>1, ExtendCommits DEF d
  <2>3. Log!Busy
    BY <1>2, <1>6, BusyStep DEF LogInv, Entered, ExtendAndWrite
  <2> QED
    BY <1>1, <2>2, <2>3, <2>4, <2>5 DEF Log!TakeRecord, b
<1> QED
  BY <1>4, <1>5, <1>6 DEF AppendRecord, b, d

LEMMA StringLogs ==
  ASSUME NEW p, Tables = {p}, Faithful, LogInv(p), StoredInv', NEW v \in Records, AppendString(p, v)
  PROVE  InFile(p)' /\ (Log!TakeRecord(v) \/ Log!Strand(v))
<1> USE Sizes
<1> DEFINE b == Append(buf[p], v)
           d == Grown(p, ChunkRows)
<1>1. Sole = p /\ p \in Tables /\ Whole
  BY SoleIs DEF Faithful
<1>2. Usable(p) /\ strings /\ UNCHANGED <<strings, pipeline>>
  BY DEF AppendString, fileVars
<1>3. /\ b \in Seq(Records \cup {Scratch}) /\ Len(b) = Len(buf[p]) + 1 /\ Len(buf[p]) \in Nat
      /\ \A a : buf' = [buf EXCEPT ![p] = a] => buf'[p] = a
  BY <1>1, BufferIs DEF LogInv, StoredInv, PositionInv
<1> HIDE DEF b, d
<1>4. CASE /\ ~Full(b) /\ buf' = [buf EXCEPT ![p] = b]
           /\ state' = [state EXCEPT ![p] = "open"]
           /\ UNCHANGED <<extent, disk, cur, pending, silent>>
  <2>1. InFile(p)' /\ Committed' = Committed
    BY <1>2, <1>4, QuietCommits
  <2>2. Log!Busy
    BY <1>2, <1>4, BusyStep DEF LogInv, Entered
  <2>3. CASE Len(b) < N
    BY <1>1, <1>3, <1>4, <2>1, <2>2, <2>3 DEF Log!TakeRecord, b
  <2>4. CASE ~(Len(b) < N)
    <3>1. ~(Len(buf[p]) < N) /\ Len(buf[p]) >= N - 1
      BY <1>3, <1>4, <2>4 DEF Full
    <3>2. cur[p].rows > MaxRows
      <4>1. Len(buf[p]) < N \/ Overrun(p)
        BY <1>1 DEF LogInv, StoredInv, PositionInv, TypeInv, TypeOK
      <4> QED
        BY <1>1, <3>1, <4>1 DEF Overrun, Whole, Steady
    <3>3. Len(Committed) + N > MaxRows * Cols
      BY <1>2, <3>2, CapacityReached DEF LogInv
    <3> QED
      BY <1>1, <1>3, <1>4, <2>1, <2>2, <3>1, <3>3 DEF Log!Strand, b
  <2> QED
    BY <2>3, <2>4
<1>5. CASE Full(b) /\ buf' = [buf EXCEPT ![p] = b] /\ ExtendThrows(p, d)
  <2>1. /\ InFile(p)' /\ Committed' = Committed /\ Log!Busy
        /\ Len(Committed) + N > MaxRows * Cols
    BY <1>2, <1>5, ThrowLogs DEF d
  <2>2. Len(buf[p]) >= N - 1
    BY <1>3, <1>5 DEF Full
  <2> QED
    BY <1>1, <1>3, <1>5, <2>1, <2>2 DEF Log!Strand, b
<1>6. CASE /\ Full(b) /\ CanExtend(d)
           /\ buf' = [buf EXCEPT ![p] = <<>>]
           /\ extent' = d
           /\ WriteStrings(p, d, b)
           /\ state' = [state EXCEPT ![p] = "open"]
           /\ UNCHANGED pending
  <2>1. dtValid[p]
    BY <1>1, <1>2 DEF LogInv, StoredInv, Placed, Usable
  <2>2. disk' = PutStrings(Resize(d, disk), cur[p].rows, b)
    BY <1>6, <2>1 DEF WriteStrings, Characters, Faithful
  <2>3. pending'[p] = <<>> /\ Len(b) = N
    BY <1>2, <1>6 DEF LogInv, InFile, Full
  <2>4. Len(b) <= N /\ ~(Len(b) < N)
    BY <2>3
  <2>5. InFile(p)' /\ Committed' = Committed \o Padded(b)
    BY <1>1, <1>2, <1>3, <1>6, <2>2, <2>3, <2>4, StringsCommit DEF d
  <2>6. Padded(b) = b
    BY <1>3, <2>3, PaddedFull
  <2>7. Log!Busy
    BY <1>2, <1>6, BusyStep DEF LogInv, Entered
  <2> QED
    BY <1>1, <1>3, <1>6, <2>4, <2>5, <2>6, <2>7 DEF Log!TakeRecord, b
<1> QED
  BY <1>4, <1>5, <1>6 DEF AppendString, b, d

\* A block that is handed over as a whole leaves the buffered records.
LEMMA BlockLogs ==
  ASSUME NEW p, Tables = {p}, Faithful, LogInv(p), StoredInv', Usable(p), ~strings,
         BlockAllowed(p), NEW data \in [1 .. N -> Records],
         \/ ExtendThrows(p, Grown(p, ChunkRows)) /\ UNCHANGED buf
         \/ ExtendAndWrite(p, Grown(p, ChunkRows), data) /\ ScratchUsed(p, data),
         UNCHANGED <<strings, pipeline>>
  PROVE  InFile(p)' /\ (Log!TakeChunk(data) \/ Log!Refuse)
<1>1. Sole = p /\ p \in Tables /\ Whole
  BY SoleIs DEF Faithful
<1>2. CASE ExtendThrows(p, Grown(p, ChunkRows)) /\ UNCHANGED buf
  BY <1>2, ThrowLogs
<1>3. CASE ExtendAndWrite(p, Grown(p, ChunkRows), data) /\ ScratchUsed(p, data)
  <2>1. data \in Data
    BY DEF Data
  <2>2. InFile(p)' /\ Committed' = Committed \o data
    BY <1>1, <1>3, <2>1, ExtendCommits
  <2>3. Log!Busy
    BY <1>3, BusyStep DEF LogInv, Entered, ExtendAndWrite
  <2>4. buf'[p] = buf[p]
    <3>1. buf \in [Tables -> Seq(Records \cup {Scratch})]
      BY DEF LogInv, StoredInv, PositionInv, TypeInv, Buffers
    <3>2. CASE UsesScratch(p)
      <4>1. buf[p] = <<>>
        BY <3>2 DEF BlockAllowed, Faithful
      <4>2. PICK b : buf' = [buf EXCEPT ![p] = SubSeq(b, 1, Len(buf[p]))]
        BY <1>3, <3>2 DEF ScratchUsed
      <4>3. SubSeq(b, 1, 0) = <<>> /\ Len(<<>>) = 0
        BY SubSeqEmpty
      <4> QED
        BY <1>1, <3>1, <4>1, <4>2, <4>3
    <3> QED
      BY <1>3, <3>2 DEF ScratchUsed
  <2> QED
    BY <1>1, <2>2, <2>3, <2>4 DEF Log!TakeChunk
<1> QED
  BY <1>2, <1>3

\* The container that does not fit leaves a chunk of fill values.
LEMMA MisfitLogs ==
  ASSUME NEW p, Tables = {p}, Faithful, LogInv(p), StoredInv', AppendMisfit(p)
  PROVE  InFile(p)' /\ (Log!LeaveHole \/ Log!Refuse)
<1> USE Sizes
<1> DEFINE d == Grown(p, ChunkRows)
<1>1. Sole = p /\ p \in Tables /\ Whole /\ ChunkRows = 1
  BY SoleIs DEF Faithful, AppendMisfit, Whole, Steps
<1>2. Usable(p) /\ UNCHANGED <<strings, pipeline, buf>>
  BY DEF AppendMisfit, fileVars
<1> HIDE DEF d
<1>3. CASE ExtendThrows(p, d)
  BY <1>2, <1>3, ThrowLogs DEF d
<1>4. CASE /\ CanExtend(d)
           /\ extent' = d
           /\ disk' = Resize(d, disk)
           /\ state' = [state EXCEPT ![p] = "open"]
           /\ UNCHANGED <<pending, silent>>
  <2>1. /\ HasChunks(d, K + 1) /\ d.rows \div ChunkRows = K + 1
        /\ K \in ChunkIds /\ Resize(d, disk) = disk
        /\ AllPlaced(d, pending[p])
    BY <1>1, <1>2, <1>4, EndsBehind DEF LogInv, d
  <2>2. /\ pending[p] \in Seq(Chunk) /\ AllPlaced(extent, pending[p]) /\ disk \in Files
        /\ Distinct(pending[p]) /\ K \in Nat
        /\ \A i \in DOMAIN pending[p] : PlaceOf(pending[p][i].off) \in 0 .. (K - 1)
    BY <1>1, Ends DEF LogInv, InFile
  <2>3. PutChunks(d, disk, pending[p]) = Image(p)
    BY <2>1, <2>2, PutAnyDims DEF Image
  <2>4. Image(p)' = Image(p)
    BY <1>4, <2>1, <2>3 DEF Image
  <2>5. Image(p)[K] = Padded(<<>>)
    <3>1. \A i \in DOMAIN pending[p] : PlaceOf(pending[p][i].off) # K
      BY <2>2
    <3>2. Image(p)[K] = disk[K]
      BY <2>1, <2>2, <3>1, PutAll DEF Image
    <3>3. disk[K] = [i \in 1 .. N |-> Fill]
      BY <2>1, <2>2 DEF LogInv, InFile
    <3>4. Padded(<<>>) = [i \in 1 .. N |-> Fill]
      BY DEF Padded
    <3> QED
      BY <3>2, <3>3, <3>4
  <2>6. Committed' = Committed \o Padded(<<>>)
    <3>1. \A c \in ChunkIds : Image(p)'[c] = IF c = K THEN Padded(<<>>) ELSE Image(p)[c]
      BY <2>4, <2>5
    <3> QED
      BY <1>4, <2>1, <3>1, CommittedGrows DEF LogInv
  <2>7. Padded(<<>>) = Log!Padded(<<>>)
    <3>1. <<>> \in Seq(Records \cup {Scratch}) /\ Len(<<>>) <= N
      OBVIOUS
    <3> QED
      BY <3>1, PaddedSame DEF Log!Padded
  <2>8. Log!Busy
    BY <1>2, <1>4, BusyStep DEF LogInv, Entered
  <2>9. InFile(p)'
    <3>1. K' = K + 1 /\ disk' = disk /\ pending' = pending
      BY <1>4, <2>1 DEF K
    <3>2. \A c \in ChunkIds : K + 1 <= c => K <= c
      BY <2>2 DEF ChunkIds
    <3> QED
      BY <1>2, <3>1, <3>2 DEF LogInv, InFile
  <2> QED
    BY <1>1, <1>2, <2>6, <2>7, <2>8, <2>9 DEF Log!LeaveHole
<1> QED
  BY <1>1, <1>3, <1>4 DEF AppendMisfit, d

\* A flush with nothing buffered stores what is queued.
LEMMA FlushDrains ==
  ASSUME NEW p, Tables = {p}, Faithful, LogInv(p), Usable(p), FlushedOwn(p), buf[p] = <<>>,
         pending'[p] = <<>>, UNCHANGED <<strings, pipeline>>
  PROVE  InFile(p)' /\ disk' = Image(p) /\ extent' = extent
<1> USE Sizes
<1> DEFINE q == pending[p]
<1>1. p \in Tables
  BY SoleIs
<1>2. /\ q \in Seq(Chunk) /\ disk \in Files /\ K \in Nat
      /\ AllPlaced(extent, q) /\ Distinct(q)
      /\ \A i \in DOMAIN q : PlaceOf(q[i].off) \in 0 .. (K - 1)
  BY <1>1, Ends DEF LogInv, InFile
<1>3. FlushQueue(p) = q /\ FlushDims(p) = extent /\ Resize(extent, disk) = disk
  <2>1. extent.rows >= extent.rows /\ extent.cols >= extent.cols
    BY DEF LogInv, StoredInv, PositionInv, TypeInv, TypeOK
  <2> QED
    BY <2>1 DEF FlushQueue, FlushDims, Resize
<1>4. Characters(<<>>) = {<<>>}
  BY DEF Characters, Faithful
<1>5. FlushFile(p, <<>>) = disk
  <2>1. PutStrings(disk, cur[p].rows, <<>>) = [c \in ChunkIds |-> [i \in 1 .. N |-> disk[c][i]]]
    BY DEF PutStrings
  <2>2. disk = [c \in ChunkIds |-> [i \in 1 .. N |-> disk[c][i]]]
    BY <1>2 DEF Files, Data
  <2> QED
    BY <1>3, <2>1, <2>2 DEF FlushFile
<1>6. disk' = PutChunks(extent, disk, SubSeq(q, 1, Len(q))) /\ extent' = extent
  BY <1>3, <1>4, <1>5 DEF FlushedOwn, Flushed, DrainCount
<1> HIDE DEF q
<1>7. SubSeq(q, 1, Len(q)) = q
  BY <1>2
<1>8. disk' = Image(p)
  BY <1>6, <1>7 DEF Image, q
<1>9. InFile(p)'
  <2>1. ASSUME NEW c \in ChunkIds, K <= c PROVE disk'[c] = [i \in 1 .. N |-> Fill]
    <3>1. \A i \in DOMAIN q : PlaceOf(q[i].off) # c
      BY <1>2, <2>1
    <3>2. PutChunks(extent, disk, q)[c] = disk[c]
      BY <1>2, <3>1, PutAll
    <3> QED
      BY <1>6, <1>7, <2>1, <3>2 DEF LogInv, InFile
  <2>2. K' = K /\ Distinct(pending'[p])
    BY <1>6 DEF K, Distinct
  <2> QED
    BY <2>1, <2>2 DEF InFile
<1> QED
  BY <1>6, <1>8, <1>9

\* A flush of a partial chunk puts it behind the others.
LEMMA FlushCommits ==
  ASSUME NEW p, Tables = {p}, Faithful, LogInv(p), StoredInv', Usable(p), FlushedOwn(p),
         buf[p] # <<>>, pending'[p] = <<>>, UNCHANGED <<strings, pipeline>>,
         Len(buf[p]) < N
  PROVE  InFile(p)' /\ Committed' = Committed \o Padded(buf[p])
<1> USE Sizes
<1> DEFINE d == Grown(p, ChunkRows)
           b == buf[p]
<1>1. p \in Tables /\ Whole
  BY SoleIs DEF Faithful
<1>2. /\ FlushDims(p) = d /\ CanExtend(d) /\ extent' = d
      /\ b \in Seq(Records \cup {Scratch}) /\ Len(b) <= N /\ dtValid[p]
  <2>1. FlushDims(p) = d /\ CanExtend(d) /\ extent' = d
    BY DEF FlushDims, FlushedOwn, Flushed
  <2>2. b \in Seq(Records \cup {Scratch}) /\ dtValid[p]
    BY <1>1 DEF LogInv, StoredInv, PositionInv, TypeInv, Buffers, Placed, Usable
  <2>3. Len(b) <= N
    <3>1. Len(b) \in Nat
      BY <2>2
    <3> QED
      BY <3>1
  <2> QED
    BY <2>1, <2>2, <2>3
<1>3. disk' = PutChunks(d, FlushFile(p, b), SubSeq(FlushQueue(p), 1, Len(FlushQueue(p))))
  BY <1>2 DEF FlushedOwn, Flushed, DrainCount, Characters, Faithful
<1>4. /\ HasChunks(d, K + 1) /\ d.rows \div ChunkRows = K + 1
      /\ K \in ChunkIds /\ PlaceOf(cur[p].rows) = K
      /\ Resize(d, disk) = disk
      /\ AllPlaced(d, pending[p]) /\ Writable(d, cur[p].rows)
  BY <1>1, <1>2, EndsBehind DEF LogInv
<1>5. CASE strings
  <2>1. pending[p] = <<>> /\ FlushQueue(p) = <<>>
    BY <1>5 DEF LogInv, InFile, FlushQueue
  <2>2. disk \in Files /\ cur[p].rows \in Nat
    BY <1>1 DEF LogInv, StoredInv, PositionInv, TypeInv, TypeOK, Files, Dims
  <2>3. StringsFit(p)
    <3>1. N = ChunkRows
      BY <1>5, TableAssumption DEF LogInv, StoredInv, Placed, N
    <3>2. d.rows = cur[p].rows + ChunkRows /\ Len(b) \in Nat
      BY <1>1, <1>2, GrownTyped DEF LogInv, StoredInv, PositionInv
    <3> HIDE DEF d, b
    <3>3. cur[p].rows + Len(b) <= d.rows
      BY <1>2, <2>2, <3>1, <3>2
    <3> QED
      BY <1>2, <3>3 DEF StringsFit, b
  <2>4. disk' = PutStrings(Resize(d, disk), cur[p].rows, b)
    <3>1. FlushFile(p, b) = PutStrings(disk, cur[p].rows, b)
      BY <1>2, <1>4, <1>5, <2>3 DEF FlushFile
    <3>2. FlushFile(p, b) \in Files
      BY <1>2, <2>2, <3>1, PutStringsTyped
    <3>3. SubSeq(<<>>, 1, Len(<<>>)) = <<>>
      <4>1. SubSeq(<<>>, 1, 0) = <<>> /\ Len(<<>>) = 0
        BY SubSeqEmpty
      <4> QED
        BY <4>1
    <3>4. disk' = PutChunks(d, FlushFile(p, b), <<>>)
      BY <1>3, <2>1, <3>3
    <3>5. disk' = FlushFile(p, b)
      BY <3>2, <3>4, NothingToPut
    <3> QED
      BY <1>4, <3>1, <3>5
  <2> QED
    BY <1>1, <1>2, <1>5, <2>4, StringsCommit
<1>6. CASE ~strings
  <2> DEFINE x == [off |-> cur[p].rows, data |-> Padded(b)]
             q == pending[p]
  <2>1. x \in Chunk /\ x.off = cur[p].rows /\ x.data = Padded(b)
    BY <1>1, <1>2, PaddedTyped DEF LogInv, StoredInv, PositionInv, TypeInv, TypeOK, Dims, Chunk
  <2>2. FlushQueue(p) = Append(q, x) /\ FlushFile(p, b) = disk
    BY <1>2, <1>4, <1>6 DEF FlushQueue, FlushFile
  <2> HIDE DEF x
  <2>3. /\ q \in Seq(Chunk) /\ disk \in Files /\ K \in Nat
        /\ AllPlaced(extent, q) /\ Distinct(q)
        /\ \A i \in DOMAIN q : PlaceOf(q[i].off) \in 0 .. (K - 1)
    BY <1>1, Ends DEF LogInv, InFile
  <2>4. AllPlaced(d, q) /\ Writable(d, x.off) /\ PlaceOf(x.off) = K
    BY <1>4, <2>1
  <2> HIDE DEF q, d, b
  <2>5. \A i \in DOMAIN q : PlaceOf(q[i].off) # PlaceOf(x.off)
    BY <2>3, <2>4
  <2>6. /\ Append(q, x) \in Seq(Chunk)
        /\ AllPlaced(d, Append(q, x)) /\ Distinct(Append(q, x))
        /\ \A c \in ChunkIds : PutChunks(d, disk, Append(q, x))[c] =
              IF c = PlaceOf(x.off) THEN x.data ELSE PutChunks(d, disk, q)[c]
    <3>1. PICK r \in Seq(Chunk) : r = q
      BY <2>3
    <3>2. AllPlaced(d, r) /\ Distinct(r) /\ disk \in Files
      BY <2>3, <2>4, <3>1
    <3>3. \A i \in DOMAIN r : PlaceOf(r[i].off) # PlaceOf(x.off)
      BY <2>5, <3>1
    <3>4. /\ Append(r, x) \in Seq(Chunk)
          /\ AllPlaced(d, Append(r, x)) /\ Distinct(Append(r, x))
          /\ \A c \in ChunkIds : PutChunks(d, disk, Append(r, x))[c] =
                IF c = PlaceOf(x.off) THEN x.data ELSE PutChunks(d, disk, r)[c]
      BY <2>1, <2>4, <3>2, <3>3, PutOneMore
    <3> QED
      BY <3>1, <3>4
  <2>7. disk' = PutChunks(d, disk, Append(q, x))
    <3>1. SubSeq(Append(q, x), 1, Len(Append(q, x))) = Append(q, x)
      BY <2>6
    <3> QED
      BY <1>3, <2>2, <3>1
  <2>8. PutChunks(d, disk, q) = Image(p)
    BY <2>3, <2>4, PutAnyDims DEF Image, q
  <2>9. Image(p)' = disk'
    <3>1. disk' \in Files
      BY DEF StoredInv, PositionInv, TypeInv, TypeOK, Files
    <3>2. PutChunks(extent', disk', <<>>) = disk'
      BY <3>1, NothingToPut
    <3> QED
      BY <3>2 DEF Image
  <2>10. \A c \in ChunkIds : Image(p)'[c] = IF c = K THEN Padded(b) ELSE Image(p)[c]
    BY <2>1, <2>4, <2>6, <2>7, <2>8, <2>9
  <2>11. Committed' = Committed \o Padded(b)
    BY <1>2, <1>4, <2>10, CommittedGrows DEF LogInv
  <2>12. InFile(p)'
    <3>1. K' = K + 1 /\ Distinct(pending'[p])
      BY <1>2, <1>4 DEF K, Distinct
    <3>2. ASSUME NEW c \in ChunkIds, K + 1 <= c PROVE disk'[c] = [i \in 1 .. N |-> Fill]
      <4>1. K <= c /\ c # K
        BY <2>3, <3>2 DEF ChunkIds
      <4>2. \A i \in DOMAIN q : PlaceOf(q[i].off) # c
        BY <2>3, <4>1
      <4>3. PutChunks(d, disk, q)[c] = disk[c]
        BY <2>3, <2>4, <4>2, PutAll
      <4> QED
        BY <2>4, <2>6, <2>7, <4>1, <4>3 DEF LogInv, InFile
    <3> QED
      BY <3>1, <3>2 DEF InFile
  <2> QED
    BY <2>11, <2>12 DEF b
<1> QED
  BY <1>5, <1>6

LEMMA FlushLogs ==
  ASSUME NEW p, Tables = {p}, Faithful, LogInv(p), StoredInv', Flush(p) \/ Destroy(p)
  PROVE  InFile(p)' /\ (Log!Sync \/ Log!Refuse \/ Log!Crash)
<1> USE Sizes
<1>1. Sole = p /\ p \in Tables /\ Whole
  BY SoleIs DEF Faithful
<1>2. /\ Usable(p) /\ UNCHANGED <<strings, pipeline>>
      /\ state \in [Tables -> {"closed", "open", "synced", "crashed"}]
      /\ buf \in [Tables -> Seq(Records \cup {Scratch})] /\ Len(buf[p]) \in Nat
      /\ pending \in [Tables -> Seq(Chunk)]
  BY <1>1 DEF Flush, Destroy, LogInv, StoredInv, PositionInv, TypeInv, TypeOK, Buffers
<1>3. CASE FlushedOwn(p) /\ \E s \in {"synced", "closed"} : Entered(p, s)
  <2>1. buf'[p] = <<>> /\ pending'[p] = <<>>
    BY <1>1, <1>2, <1>3, FlushedOwnTyped DEF LogInv, StoredInv, PositionInv
  <2>2. state[p] \in {"open", "synced"} /\ state'[p] \in {"synced", "closed"}
    BY <1>1, <1>2, <1>3 DEF Usable, Entered
  <2>3. Readable(disk)' = Committed'
    <3>1. disk' \in Files
      BY DEF StoredInv, PositionInv, TypeInv, TypeOK, Files
    <3>2. PutChunks(extent', disk', <<>>) = disk'
      BY <3>1, NothingToPut
    <3> QED
      BY <1>1, <2>1, <3>2 DEF Committed, Readable
  <2>4. CASE buf[p] = <<>>
    <3>1. InFile(p)' /\ disk' = Image(p) /\ extent' = extent
      BY <1>2, <1>3, <2>1, <2>4, FlushDrains
    <3>2. Committed' = Committed
      BY <1>1, <2>3, <3>1 DEF Committed, Readable, Image
    <3> QED
      BY <1>1, <2>1, <2>2, <2>3, <2>4, <3>1, <3>2 DEF Log!Sync, Log!Usable
  <2>5. CASE buf[p] # <<>>
    <3>1. Len(buf[p]) < N
      <4>1. CanExtend(Grown(p, ChunkRows))
        BY <1>3, <2>5 DEF FlushedOwn, Flushed, FlushDims
      <4>2. cur[p].rows <= MaxRows
        <5>1. Grown(p, ChunkRows).rows = cur[p].rows + ChunkRows /\ cur[p].rows \in Nat
          BY <1>1, GrownTyped DEF LogInv, StoredInv, PositionInv, TypeInv, TypeOK, Dims
        <5> QED
          BY <4>1, <5>1 DEF CanExtend
      <4>3. cur[p].rows \in Nat /\ (Len(buf[p]) < N \/ Overrun(p))
        BY <1>1 DEF LogInv, StoredInv, PositionInv, TypeInv, TypeOK, Dims
      <4> QED
        BY <1>1, <4>2, <4>3 DEF Overrun, Whole, Steady
    <3>2. InFile(p)' /\ Committed' = Committed \o Padded(buf[p])
      BY <1>2, <1>3, <2>1, <2>5, <3>1, FlushCommits
    <3>3. Padded(buf[p]) = Log!Padded(buf[p])
      <4>1. buf[p] \in Seq(Records \cup {Scratch}) /\ Len(buf[p]) <= N
        BY <1>1, <1>2, <3>1
      <4> QED
        BY <4>1, PaddedSame DEF Log!Padded
    <3> QED
      BY <1>1, <2>1, <2>2, <2>3, <2>5, <3>2, <3>3 DEF Log!Sync, Log!Usable
  <2> QED
    BY <2>4, <2>5
<1>4. CASE FlushFails(p) /\ \E s \in {"open", "crashed"} : Entered(p, s)
  <2>1. InFile(p)' /\ Committed' = Committed
    BY <1>2, <1>4, QuietCommits DEF FlushFails
  <2>2. Len(Committed) + N > MaxRows * Cols
    BY <1>2, <1>4, CapacityReached DEF FlushFails, LogInv
  <2>3. CASE Entered(p, "open")
    <3>1. Log!Busy
      BY <1>2, <2>3, BusyStep DEF LogInv
    <3> QED
      BY <1>1, <1>4, <2>1, <2>2, <3>1 DEF Log!Refuse, FlushFails
  <2>4. CASE Entered(p, "crashed")
    <3>1. state[p] \in {"open", "synced"} /\ state'[p] = "crashed"
      BY <1>1, <1>2, <2>4 DEF Usable, Entered
    <3>2. Readable(disk)' = Readable(disk) /\ buf' = buf /\ buf[p] # <<>>
      BY <1>4 DEF FlushFails, Readable
    <3> QED
      BY <1>1, <2>1, <2>2, <3>1, <3>2 DEF Log!Crash, Log!Usable
  <2> QED
    BY <1>4, <2>3, <2>4
<1> QED
  BY <1>3, <1>4 DEF Flush, Destroy, Entered

\* Each step of a table is one of the log or leaves it.
LEMMA NextLogs ==
  ASSUME NEW p, Tables = {p}, Faithful, LogInv(p), [Next]_vars
  PROVE  LogInv(p)' /\ [Log!LogNext]_(Log!logVars)
<1>1. Sole = p /\ p \in Tables /\ Whole
  BY SoleIs DEF Faithful
<1>2. StoredInv'
  BY <1>1, NextStored DEF LogInv
<1> SUFFICES InFile(p)' /\ [Log!LogNext]_(Log!logVars)
  BY <1>2 DEF LogInv
<1>3. ASSUME NEW v \in Records, AppendRecord(p, v) \/ AppendString(p, v)
      PROVE  InFile(p)' /\ Log!LogNext
  <2>1. InFile(p)' /\ (Log!TakeRecord(v) \/ Log!Strand(v) \/ Log!Refuse)
    BY <1>1, <1>2, <1>3, RecordLogs, StringLogs
  <2> QED
    BY <2>1 DEF Log!LogNext
<1>4. ASSUME NEW data \in [1 .. N -> Records], AppendPointer(p, data) \/ AppendContainer(p, data)
      PROVE  InFile(p)' /\ Log!LogNext
  <2>1. AppendContainer(p, data) => ChunkRows = 1
    BY <1>1 DEF AppendContainer, Whole, Steps
  <2>2. /\ Usable(p) /\ ~strings /\ BlockAllowed(p) /\ UNCHANGED <<strings, pipeline>>
        /\ \/ ExtendThrows(p, Grown(p, ChunkRows)) /\ UNCHANGED buf
           \/ ExtendAndWrite(p, Grown(p, ChunkRows), data) /\ ScratchUsed(p, data)
    BY <1>4, <2>1 DEF AppendPointer, AppendContainer, fileVars
  <2>3. InFile(p)' /\ (Log!TakeChunk(data) \/ Log!Refuse)
    BY <1>2, <2>2, BlockLogs
  <2> QED
    BY <2>3 DEF Log!LogNext
<1>5. ASSUME AppendMisfit(p)
      PROVE  InFile(p)' /\ Log!LogNext
  BY <1>2, <1>5, MisfitLogs DEF Log!LogNext
<1>6. ASSUME Flush(p) \/ Destroy(p)
      PROVE  InFile(p)' /\ Log!LogNext
  BY <1>2, <1>6, FlushLogs DEF Log!LogNext
<1>7. ~Reset(p) /\ ~Copy(p, p) /\ ~Move(p, p) /\ ~MoveOnto(p, p)
  BY <1>1 DEF Whole, Steady, Reset, Copy, Move, MoveOnto
<1>8. ASSUME StartSwmr \/ Ended \/ UNCHANGED vars
      PROVE  InFile(p)' /\ UNCHANGED Log!logVars
  <2>1. UNCHANGED <<extent, disk, pending, strings, pipeline, buf, state>>
    BY <1>8 DEF StartSwmr, Ended, vars, tableVars, fileVars
  <2>2. InFile(p)' /\ Committed' = Committed
    BY <2>1, QuietCommits
  <2>3. Readable(disk)' = Readable(disk)
    BY <2>1 DEF Readable
  <2> QED
    BY <1>1, <2>1, <2>2, <2>3 DEF Log!logVars
<1> QED
  BY <1>1, <1>3, <1>4, <1>5, <1>6, <1>7, <1>8 DEF Next

LEMMA InitLogs ==
  ASSUME NEW p, Tables = {p}, Faithful, Init
  PROVE  LogInv(p) /\ Log!LogInit
<1> USE Sizes
<1>1. Sole = p /\ p \in Tables /\ Whole
  BY SoleIs DEF Faithful
<1>2. StoredInv
  BY <1>1, InitStored
<1>3. /\ disk = [c \in ChunkIds |-> [i \in 1 .. N |-> Fill]]
      /\ pending[p] = <<>> /\ buf[p] = <<>> /\ state[p] = "open"
  BY <1>1 DEF Init, OpenOn
<1>4. InFile(p)
  BY <1>3 DEF InFile, Distinct
<1>5. disk \in Files
  BY <1>3 DEF Files, Data
<1>6. Committed = Readable(disk)
  BY <1>1, <1>3, <1>5, NothingToPut DEF Committed
<1>7. Len(Committed) % N = 0
  <2>1. Len(Committed) = K * N /\ K \in Nat
    BY <1>1, <1>2, CommittedIs, Ends
  <2> QED
    BY <2>1, ModMultiple
<1>8. \A i \in DOMAIN Committed : Committed[i] = Fill
  <2>1. HasChunks(extent, K) /\ K \in Nat /\ \A c \in 0 .. (K - 1) : c \in ChunkIds
    BY <1>1, <1>2, Ends
  <2>2. /\ DOMAIN RecordsOf(extent, disk) = 1 .. (K * N) /\ K * N \in Nat
        /\ \A i \in 1 .. (K * N) :
              RecordsOf(extent, disk)[i] = disk[(i - 1) \div N][((i - 1) % N) + 1]
    BY <2>1, RecordsOfChunks
  <2>3. ASSUME NEW i \in 1 .. (K * N)
        PROVE  disk[(i - 1) \div N][((i - 1) % N) + 1] = Fill
    <3>1. (i - 1) \div N \in 0 .. (K - 1)
      <4>1. (K + 1) * N = (K * N) + N /\ i \in 1 .. ((K + 1) * N) /\ i <= K * N
        BY <2>1, <2>2
      <4> QED
        BY <2>1, <4>1, ChunkOfRecord
    <3>2. ((i - 1) % N) + 1 \in 1 .. N
      <4>1. i - 1 \in Int
        OBVIOUS
      <4>2. (i - 1) % N \in 0 .. (N - 1)
        BY <4>1, DivMod
      <4> QED
        BY <4>2
    <3> QED
      BY <1>3, <2>1, <3>1, <3>2
  <2>4. Committed = RecordsOf(extent, disk)
    BY <1>6 DEF Readable, RecordsOf
  <2> QED
    BY <2>2, <2>3, <2>4
<1> QED
  BY <1>1, <1>2, <1>3, <1>4, <1>6, <1>7, <1>8 DEF LogInv, Log!LogInit

\* A packet table is an append-only log of records, for every chunk, capacity and
\* pipeline, where the calls keep to whole chunks, no block overlaps buffered
\* records and the characters of a string stay until they are written.
THEOREM TableIsALog ==
  ASSUME NEW p, Tables = {p}, Faithful
  PROVE  Spec => ImplementsAppendLog
<1>1. Init => LogInv(p) /\ Log!LogInit
  BY InitLogs
<1>2. LogInv(p) /\ [Next]_vars => LogInv(p)' /\ [Log!LogNext]_(Log!logVars)
  BY NextLogs
<1> QED
  BY <1>1, <1>2, PTL DEF Spec, ImplementsAppendLog, Log!LogSpec

-----------------------------------------------------------------------------
(* What is in the file stays in it. *)

Blank == [i \in 1 .. N |-> Fill]

\* The places of the chunks that are queued.
Awaited(p) == {PlaceOf(pending[p][i].off) : i \in DOMAIN pending[p]}

\* A place that waits for its chunk has only the fill value.
Laid(p) == LogInv(p) /\ \A c \in Awaited(p) : disk[c] = Blank

\* The dataset does not shrink, and only a place that waits is written to.
Adds(p) ==
    /\ K <= K'
    /\ \A c \in 0 .. (K - 1) : c \in Awaited(p) \/ disk'[c] = disk[c]

\* The places that wait are in the dataset.
LEMMA AwaitedInside ==
  ASSUME NEW p \in Tables, Laid(p)
  PROVE  /\ Awaited(p) \subseteq 0 .. (K - 1) /\ Awaited(p) \subseteq ChunkIds
         /\ K \in Nat /\ disk \in Files /\ pending[p] \in Seq(Chunk)
         /\ 0 .. (K - 1) \subseteq ChunkIds
         /\ AllPlaced(extent, pending[p]) /\ Distinct(pending[p])
<1>1. /\ K \in Nat /\ \A c \in 0 .. (K - 1) : c \in ChunkIds
      /\ \A i \in DOMAIN pending[p] : PlaceOf(pending[p][i].off) \in 0 .. (K - 1)
      /\ disk \in Files /\ pending[p] \in Seq(Chunk) /\ AllPlaced(extent, pending[p])
  BY Ends DEF Laid, LogInv
<1>2. Distinct(pending[p])
  BY DEF Laid, LogInv, InFile
<1> QED
  BY <1>1, <1>2 DEF Awaited

\* A step that leaves the chunks and the queue, with the dataset as long as it
\* was or longer.
LEMMA StillLaid ==
  ASSUME NEW p \in Tables, Laid(p), StoredInv', UNCHANGED <<disk, strings, pipeline>>,
         pending'[p] = pending[p], K' \in {K, K + 1}
  PROVE  Laid(p)' /\ Adds(p)
<1>1. K \in Nat /\ \A c \in ChunkIds : K' <= c => K <= c
  BY AwaitedInside DEF ChunkIds
<1>2. Adds(p)
  BY <1>1 DEF Adds
<1>3. InFile(p)'
  BY <1>1 DEF Laid, LogInv, InFile
<1>4. \A c \in Awaited(p)' : disk'[c] = Blank
  BY DEF Laid, Awaited
<1> QED
  BY <1>2, <1>3, <1>4 DEF Laid, LogInv

\* A step that stores the front of a queue and keeps the rest: the places of
\* the queue wait already, or are behind the dataset, which grows then.
LEMMA QueueLaid ==
  ASSUME NEW p \in Tables, Laid(p), StoredInv', UNCHANGED <<strings, pipeline>>,
         NEW d, NEW q \in Seq(Chunk), AllPlaced(d, q), Distinct(q),
         NEW k \in 0 .. Len(q), strings \/ pipeline[p] # "pool" => k = Len(q),
         disk' = PutChunks(d, disk, SubSeq(q, 1, k)),
         pending'[p] = SubSeq(q, k + 1, Len(q)),
         K' \in {K, K + 1},
         \A i \in DOMAIN q : \/ PlaceOf(q[i].off) \in Awaited(p)
                             \/ PlaceOf(q[i].off) = K /\ K' = K + 1 /\ K \in ChunkIds
  PROVE  Laid(p)' /\ Adds(p)
<1> DEFINE a == SubSeq(q, 1, k)
           b == SubSeq(q, k + 1, Len(q))
<1>1. /\ Awaited(p) \subseteq 0 .. (K - 1) /\ Awaited(p) \subseteq ChunkIds
      /\ K \in Nat /\ disk \in Files
  BY AwaitedInside
<1>2. Len(q) \in Nat /\ k \in Nat /\ k <= Len(q)
  OBVIOUS
<1>3. /\ DOMAIN a = 1 .. k /\ \A i \in 1 .. k : a[i] = q[i] /\ i \in DOMAIN q
      /\ DOMAIN b = 1 .. (Len(q) - k)
      /\ \A i \in 1 .. (Len(q) - k) : b[i] = q[k + i] /\ k + i \in DOMAIN q
  BY <1>2
<1>4. /\ AllPlaced(d, a) /\ Distinct(a) /\ Distinct(b) /\ a \in Seq(Chunk)
  BY <1>1, PutInTwo
<1>5. disk' = PutChunks(d, disk, a) /\ pending'[p] = b
  OBVIOUS
<1> HIDE DEF a, b
<1>6. ASSUME NEW c \in ChunkIds, \A i \in DOMAIN a : PlaceOf(a[i].off) # c
      PROVE  disk'[c] = disk[c]
  BY <1>4, <1>5, <1>6, PutAll
<1>7. ASSUME NEW c \in 0 .. (K - 1), c \notin Awaited(p)
      PROVE  disk'[c] = disk[c]
  <2>1. c # K /\ c \in ChunkIds
    BY <1>1, AwaitedInside
  <2>2. \A i \in DOMAIN a : PlaceOf(a[i].off) # c
    BY <1>3, <1>7, <2>1
  <2> QED
    BY <1>6, <2>1, <2>2
<1>8. ASSUME NEW c \in ChunkIds, K' <= c
      PROVE  disk'[c] = Blank
  <2>1. c \in Int /\ K <= c /\ c \notin Awaited(p) /\ (K' = K + 1 => c # K)
    BY <1>1, <1>8 DEF ChunkIds
  <2>2. \A i \in DOMAIN a : PlaceOf(a[i].off) # c
    BY <1>3, <2>1
  <2> QED
    BY <1>6, <2>1, <2>2 DEF Laid, LogInv, InFile, Blank
<1>9. ASSUME NEW j \in DOMAIN b
      PROVE  disk'[PlaceOf(b[j].off)] = Blank
  <2> DEFINE c == PlaceOf(b[j].off)
  <2>1. j \in 1 .. (Len(q) - k) /\ k + j \in DOMAIN q /\ c = PlaceOf(q[k + j].off)
    BY <1>3
  <2>2. c \in ChunkIds /\ disk[c] = Blank
    <3>1. CASE c \in Awaited(p)
      BY <1>1, <3>1 DEF Laid
    <3>2. CASE c = K /\ K \in ChunkIds
      <4>1. K <= K
        BY <1>1
      <4> QED
        BY <3>2, <4>1 DEF Laid, LogInv, InFile, Blank
    <3> QED
      BY <2>1, <3>1, <3>2
  <2>3. ASSUME NEW i \in DOMAIN a, PlaceOf(a[i].off) = c
        PROVE  FALSE
    <3>1. i \in 1 .. k /\ i \in DOMAIN q /\ PlaceOf(q[i].off) = PlaceOf(q[k + j].off)
      BY <1>3, <2>1, <2>3
    <3>2. i = k + j
      BY <2>1, <3>1 DEF Distinct
    <3> QED
      BY <1>2, <2>1, <3>1, <3>2
  <2> QED
    BY <1>6, <2>2, <2>3
<1>10. \A c \in Awaited(p)' : disk'[c] = Blank
  BY <1>5, <1>9 DEF Awaited
<1>11. strings' \/ pipeline'[p] # "pool" => pending'[p] = <<>>
  <2>1. ASSUME k = Len(q)
        PROVE  b = <<>>
    <3>1. DOMAIN b = {} /\ b \in Seq(Chunk)
      BY <1>2, <1>3, <2>1 DEF b
    <3> QED
      BY <3>1
  <2> QED
    BY <1>5, <2>1
<1>12. InFile(p)'
  BY <1>4, <1>5, <1>8, <1>11 DEF InFile, Blank
<1>13. Adds(p)
  BY <1>1, <1>7 DEF Adds
<1> QED
  BY <1>10, <1>12, <1>13 DEF Laid, LogInv

\* The dataset grows by a chunk.
LEMMA ChunkMore ==
  ASSUME NEW p \in Tables, Whole, Laid(p), Usable(p), CanExtend(Grown(p, ChunkRows)),
         extent' = Grown(p, ChunkRows)
  PROVE  LET d == Grown(p, ChunkRows) IN
         /\ K' = K + 1 /\ K \in ChunkIds /\ cur[p].rows = K * ChunkRows
         /\ Resize(d, disk) = disk /\ PlaceOf(cur[p].rows) = K
         /\ AllPlaced(d, pending[p]) /\ Writable(d, cur[p].rows) /\ cur[p].rows \in Nat
<1>1. cur[p].rows \in Nat
  BY DEF Laid, LogInv, StoredInv, PositionInv, TypeInv, TypeOK, Dims
<1> QED
  BY <1>1, EndsBehind DEF Laid, LogInv, K

\* A chunk behind the queue.
LEMMA BehindQueue ==
  ASSUME NEW p \in Tables, Laid(p), NEW d, AllPlaced(d, pending[p]),
         NEW x \in Chunk, Writable(d, x.off), PlaceOf(x.off) = K
  PROVE  LET q == Append(pending[p], x) IN
         /\ q \in Seq(Chunk) /\ AllPlaced(d, q) /\ Distinct(q)
         /\ \A i \in DOMAIN q : PlaceOf(q[i].off) \in Awaited(p) \/ PlaceOf(q[i].off) = K
<1>1. /\ Awaited(p) \subseteq 0 .. (K - 1) /\ K \in Nat /\ disk \in Files
      /\ pending[p] \in Seq(Chunk) /\ Distinct(pending[p])
  BY AwaitedInside
<1>2. \A i \in DOMAIN pending[p] : PlaceOf(pending[p][i].off) # PlaceOf(x.off)
  <2>1. \A i \in DOMAIN pending[p] : PlaceOf(pending[p][i].off) \in Awaited(p)
    BY DEF Awaited
  <2>2. K \notin 0 .. (K - 1)
    BY <1>1
  <2> QED
    BY <1>1, <2>1, <2>2
<1>3. PICK r \in Seq(Chunk) : r = pending[p]
  BY <1>1
<1>4. /\ Append(r, x) \in Seq(Chunk)
      /\ AllPlaced(d, Append(r, x)) /\ Distinct(Append(r, x))
  BY <1>1, <1>2, <1>3, PutOneMore
<1>5. \A i \in DOMAIN Append(r, x) :
         Append(r, x)[i] = x \/ (i \in DOMAIN r /\ Append(r, x)[i] = r[i])
  BY <1>3
<1> QED
  BY <1>3, <1>4, <1>5 DEF Awaited

\* set_extent and write_chunk.
LEMMA WriteLaid ==
  ASSUME NEW p \in Tables, Whole, Laid(p), StoredInv', Usable(p), NEW data \in Data, ~strings,
         ExtendAndWrite(p, Grown(p, ChunkRows), data), UNCHANGED <<strings, pipeline>>
  PROVE  Laid(p)' /\ Adds(p)
<1> DEFINE d == Grown(p, ChunkRows)
           x == [off |-> cur[p].rows, data |-> data]
<1>1. CanExtend(d) /\ extent' = d /\ WriteChunk(p, d, x)
  BY DEF ExtendAndWrite
<1>2. /\ K' = K + 1 /\ K \in ChunkIds /\ Resize(d, disk) = disk /\ PlaceOf(cur[p].rows) = K
      /\ AllPlaced(d, pending[p]) /\ Writable(d, cur[p].rows) /\ cur[p].rows \in Nat
  BY <1>1, ChunkMore
<1>3. x \in Chunk /\ x.off = cur[p].rows
  BY <1>2 DEF Chunk
<1> HIDE DEF d, x
<1> DEFINE q == Append(pending[p], x)
<1>4. /\ q \in Seq(Chunk) /\ AllPlaced(d, q) /\ Distinct(q)
      /\ \A i \in DOMAIN q : PlaceOf(q[i].off) \in Awaited(p) \/ PlaceOf(q[i].off) = K
  BY <1>2, <1>3, BehindQueue
<1>5. pending \in [Tables -> Seq(Chunk)] /\ Len(q) \in Nat
  BY <1>4 DEF Laid, LogInv, StoredInv, PositionInv, TypeInv, Buffers
<1>6. \E k \in 0 .. Len(q) :
         /\ pipeline[p] # "pool" => k = Len(q)
         /\ disk' = PutChunks(d, disk, SubSeq(q, 1, k))
         /\ pending'[p] = SubSeq(q, k + 1, Len(q))
  <2>1. CASE pipeline[p] = "pool"
    <3>1. PICK k \in 0 .. Len(q) :
             /\ disk' = PutChunks(d, disk, SubSeq(q, 1, k))
             /\ pending' = [pending EXCEPT ![p] = SubSeq(q, k + 1, Len(q))]
      BY <1>1, <1>2, <2>1 DEF WriteChunk
    <3> HIDE DEF q
    <3>2. pending'[p] = SubSeq(q, k + 1, Len(q))
      BY <1>5, <3>1
    <3> QED
      BY <2>1, <3>1, <3>2
  <2>2. CASE pipeline[p] # "pool"
    <3>1. pending[p] = <<>> /\ pending' = pending /\ disk' = PutChunks(d, disk, <<x>>)
      BY <1>1, <1>2, <2>2 DEF WriteChunk, Laid, LogInv, InFile
    <3>2. q = <<x>> /\ Len(q) = 1
      BY <3>1
    <3> HIDE DEF q
    <3>3. SubSeq(q, 1, 1) = q
      <4>1. SubSeq(q, 1, Len(q)) = q
        BY <1>4
      <4> QED
        BY <3>2, <4>1
    <3>5. SubSeq(q, 2, 1) = <<>>
      BY SubSeqEmpty
    <3>4. 1 \in 0 .. Len(q) /\ 1 + 1 = 2
      BY <3>2
    <3> QED
      BY <3>1, <3>2, <3>3, <3>4, <3>5
  <2> QED
    BY <2>1, <2>2
<1> HIDE DEF q
<1> QED
  BY <1>2, <1>4, <1>6, QueueLaid

\* set_extent and H5Dwrite of strings.
LEMMA StringsLaid ==
  ASSUME NEW p \in Tables, Whole, Laid(p), StoredInv', Usable(p), strings,
         CanExtend(Grown(p, ChunkRows)), extent' = Grown(p, ChunkRows),
         NEW b \in Seq(Records \cup {Scratch}), Len(b) <= N,
         disk' = PutStrings(Resize(Grown(p, ChunkRows), disk), cur[p].rows, b),
         pending'[p] = <<>>, UNCHANGED <<strings, pipeline>>
  PROVE  Laid(p)' /\ Adds(p)
<1> USE Sizes
<1>1. /\ K' = K + 1 /\ K \in ChunkIds /\ cur[p].rows = K * ChunkRows
      /\ Resize(Grown(p, ChunkRows), disk) = disk
  BY ChunkMore
<1>2. N = ChunkRows
  BY TableAssumption DEF Laid, LogInv, StoredInv, Placed, N
<1>3. K \in Nat /\ disk \in Files /\ 0 .. (K - 1) \subseteq ChunkIds
  BY AwaitedInside
<1>4. disk' = PutStrings(disk, K * N, b)
  BY <1>1, <1>2
<1>5. ASSUME NEW c \in ChunkIds, c # K
      PROVE  disk'[c] = disk[c]
  <2>1. PutStrings(disk, K * N, b)[c] = IF c = K THEN Over(b, disk[c]) ELSE disk[c]
    BY <1>2, <1>3, StringsPut
  <2> QED
    BY <1>4, <1>5, <2>1
<1>6. Adds(p)
  <2>1. \A c \in 0 .. (K - 1) : c \in ChunkIds /\ c # K
    BY <1>3
  <2> QED
    BY <1>1, <1>3, <1>5, <2>1 DEF Adds
<1>7. InFile(p)'
  <2>1. ASSUME NEW c \in ChunkIds, K + 1 <= c
        PROVE  disk'[c] = [i \in 1 .. N |-> Fill]
    <3>1. K <= c /\ c # K
      BY <1>3, <2>1 DEF ChunkIds
    <3> QED
      BY <1>5, <3>1 DEF Laid, LogInv, InFile
  <2> QED
    BY <1>1, <2>1 DEF InFile, Distinct
<1> QED
  BY <1>6, <1>7 DEF Laid, LogInv, Awaited

\* A flush with nothing buffered.
LEMMA DrainLaid ==
  ASSUME NEW p \in Tables, Laid(p), StoredInv', FlushedOwn(p), buf[p] = <<>>,
         UNCHANGED <<strings, pipeline>>
  PROVE  Laid(p)' /\ Adds(p)
<1> DEFINE q == pending[p]
<1>1. /\ q \in Seq(Chunk) /\ disk \in Files /\ AllPlaced(extent, q) /\ Distinct(q)
      /\ Len(q) \in Nat
  BY AwaitedInside
<1>2. FlushQueue(p) = q /\ FlushDims(p) = extent /\ Resize(extent, disk) = disk
  <2>1. extent.rows >= extent.rows /\ extent.cols >= extent.cols
    BY Sizes DEF Laid, LogInv, StoredInv, PositionInv, TypeInv, TypeOK
  <2> QED
    BY <2>1 DEF FlushQueue, FlushDims, Resize
<1>3. PICK c \in Characters(<<>>) :
         disk' = PutChunks(extent, FlushFile(p, c), SubSeq(q, 1, Len(q)))
  BY <1>2 DEF FlushedOwn, Flushed, DrainCount
<1>4. c = <<>>
  <2>1. <<>> \in Seq(Records \cup {Scratch})
    OBVIOUS
  <2>2. c \in Seq(Records \cup {Scratch}) /\ Len(c) = Len(<<>>)
    BY <2>1, CharactersTyped
  <2> QED
    BY <2>2
<1>5. FlushFile(p, c) = disk
  <2>1. PutStrings(disk, cur[p].rows, <<>>) = [e \in ChunkIds |-> [i \in 1 .. N |-> disk[e][i]]]
    BY DEF PutStrings
  <2>2. disk = [e \in ChunkIds |-> [i \in 1 .. N |-> disk[e][i]]]
    BY <1>1 DEF Files, Data
  <2> QED
    BY <1>2, <1>4, <2>1, <2>2 DEF FlushFile
<1>6. /\ disk' = PutChunks(extent, disk, SubSeq(q, 1, Len(q)))
      /\ extent' = extent
      /\ pending' = [pending EXCEPT ![p] = SubSeq(q, Len(q) + 1, Len(q))]
  BY <1>2, <1>3, <1>5 DEF FlushedOwn, Flushed, DrainCount
<1>7. pending'[p] = SubSeq(q, Len(q) + 1, Len(q))
  BY <1>6 DEF Laid, LogInv, StoredInv, PositionInv, TypeInv, Buffers
<1>8. K' = K /\ \A i \in DOMAIN q : PlaceOf(q[i].off) \in Awaited(p)
  BY <1>6 DEF K, Awaited
<1> HIDE DEF q
<1>9. Len(q) \in 0 .. Len(q)
  BY <1>1
<1> QED
  BY <1>1, <1>6, <1>7, <1>8, <1>9, QueueLaid

\* A flush of a partial chunk.
LEMMA FlushLaid ==
  ASSUME NEW p \in Tables, Whole, Laid(p), StoredInv', Usable(p), FlushedOwn(p), buf[p] # <<>>,
         UNCHANGED <<strings, pipeline>>
  PROVE  Laid(p)' /\ Adds(p)
<1> USE Sizes
<1> DEFINE d == Grown(p, ChunkRows)
           b == buf[p]
<1>1. /\ FlushDims(p) = d /\ CanExtend(d) /\ extent' = d
      /\ b \in Seq(Records \cup {Scratch}) /\ dtValid[p]
  <2>1. FlushDims(p) = d /\ CanExtend(d) /\ extent' = d
    BY DEF FlushDims, FlushedOwn, Flushed
  <2> QED
    BY <2>1 DEF Laid, LogInv, StoredInv, PositionInv, TypeInv, Buffers, Placed, Usable
<1>2. /\ K' = K + 1 /\ K \in ChunkIds /\ Resize(d, disk) = disk /\ PlaceOf(cur[p].rows) = K
      /\ AllPlaced(d, pending[p]) /\ Writable(d, cur[p].rows) /\ cur[p].rows \in Nat
  BY <1>1, ChunkMore
<1>3. d.rows = cur[p].rows + ChunkRows
  BY GrownTyped DEF Laid, LogInv, StoredInv, PositionInv
<1>4. PICK c \in Characters(b) :
         disk' = PutChunks(d, FlushFile(p, c), SubSeq(FlushQueue(p), 1, Len(FlushQueue(p))))
  BY <1>1 DEF FlushedOwn, Flushed, DrainCount
<1>5. pending'[p] = SubSeq(FlushQueue(p), Len(FlushQueue(p)) + 1, Len(FlushQueue(p)))
  BY DEF FlushedOwn, DrainCount, Laid, LogInv, StoredInv, PositionInv, TypeInv, Buffers
<1>6. Len(b) \in Nat /\ Len(b) < N
  <2>1. cur[p].rows <= MaxRows
    BY <1>1, <1>2, <1>3 DEF CanExtend
  <2>2. Len(b) < N \/ Overrun(p)
    BY DEF Laid, LogInv, StoredInv, PositionInv, TypeInv, TypeOK
  <2> QED
    BY <1>1, <1>2, <2>1, <2>2 DEF Overrun, Whole, Steady
<1>7. CASE strings
  <2>1. FlushQueue(p) = <<>>
    BY <1>7 DEF Laid, LogInv, InFile, FlushQueue
  <2>2. Len(<<>>) = 0 /\ SubSeq(<<>>, 1, 0) = <<>> /\ SubSeq(<<>>, 0 + 1, 0) = <<>>
    BY SubSeqEmpty
  <2>3. pending'[p] = <<>> /\ disk' = PutChunks(d, FlushFile(p, c), <<>>)
    BY <1>4, <1>5, <2>1, <2>2
  <2>4. N = ChunkRows
    BY <1>7, TableAssumption DEF Laid, LogInv, StoredInv, Placed, N
  <2> HIDE DEF d
  <2>5. StringsFit(p)
    <3>1. cur[p].rows + Len(b) <= d.rows
      BY <1>2, <1>3, <1>6, <2>4
    <3> QED
      BY <1>1, <3>1 DEF StringsFit
  <2>6. c \in Seq(Records \cup {Scratch}) /\ Len(c) = Len(b)
    BY <1>1, <1>4, CharactersTyped
  <2>7. FlushFile(p, c) = PutStrings(Resize(d, disk), cur[p].rows, c)
    BY <1>1, <1>7, <2>5 DEF FlushFile
  <2>8. FlushFile(p, c) \in Files
    <3>1. disk \in Files
      BY AwaitedInside
    <3> QED
      BY <1>2, <2>6, <2>7, <3>1, PutStringsTyped
  <2>9. disk' = PutStrings(Resize(d, disk), cur[p].rows, c)
    BY <2>3, <2>7, <2>8, NothingToPut
  <2>10. Len(c) <= N
    BY <1>6, <2>6
  <2> QED
    BY <1>1, <1>7, <2>3, <2>6, <2>9, <2>10, StringsLaid DEF d
<1>8. CASE ~strings
  <2> DEFINE x == [off |-> cur[p].rows, data |-> Padded(b)]
             q == Append(pending[p], x)
  <2>1. x \in Chunk /\ x.off = cur[p].rows
    BY <1>1, <1>2, PaddedTyped DEF Chunk
  <2>2. FlushQueue(p) = q /\ FlushFile(p, c) = disk
    BY <1>1, <1>2, <1>8 DEF FlushQueue, FlushFile
  <2> HIDE DEF x, d, b
  <2>3. /\ q \in Seq(Chunk) /\ AllPlaced(d, q) /\ Distinct(q)
        /\ \A i \in DOMAIN q : PlaceOf(q[i].off) \in Awaited(p) \/ PlaceOf(q[i].off) = K
    BY <1>2, <2>1, BehindQueue
  <2> HIDE DEF q
  <2>4. Len(q) \in 0 .. Len(q)
    BY <2>3
  <2> QED
    BY <1>2, <1>4, <1>5, <2>2, <2>3, <2>4, QueueLaid
<1> QED
  BY <1>7, <1>8

\* Where set_extent throws, the file stays as it is.
LEMMA ThrowLaid ==
  ASSUME NEW p \in Tables, Laid(p), StoredInv', NEW d, ExtendThrows(p, d),
         UNCHANGED <<strings, pipeline>>
  PROVE  Laid(p)' /\ Adds(p)
<1>1. UNCHANGED <<extent, disk, pending>> /\ K' = K
  BY DEF ExtendThrows, K
<1> QED
  BY <1>1, StillLaid

LEMMA RecordLaid ==
  ASSUME NEW p \in Tables, Whole, Laid(p), StoredInv', NEW v \in Records, AppendRecord(p, v)
  PROVE  Laid(p)' /\ Adds(p)
<1> DEFINE b == Append(buf[p], v)
           d == Grown(p, ChunkRows)
<1>1. Usable(p) /\ ~strings /\ UNCHANGED <<strings, pipeline>>
  BY DEF AppendRecord, fileVars
<1>2. b \in Seq(Records \cup {Scratch})
  BY BufferIs DEF Laid, LogInv, StoredInv, PositionInv
<1> HIDE DEF b
<1>3. CASE UNCHANGED <<extent, disk, cur, pending, silent>>
  <2>1. K' = K
    BY <1>3 DEF K
  <2> QED
    BY <1>1, <1>3, <2>1, StillLaid
<1>4. CASE ExtendThrows(p, d)
  BY <1>1, <1>4, ThrowLaid
<1>5. CASE Full(b) /\ ExtendAndWrite(p, d, b)
  BY <1>1, <1>2, <1>5, FullTyped, WriteLaid
<1> QED
  BY <1>3, <1>4, <1>5 DEF AppendRecord, b

LEMMA StringLaid ==
  ASSUME NEW p \in Tables, Whole, Laid(p), StoredInv', NEW v \in Records, AppendString(p, v)
  PROVE  Laid(p)' /\ Adds(p)
<1> DEFINE b == Append(buf[p], v)
           d == Grown(p, ChunkRows)
<1>1. Usable(p) /\ strings /\ UNCHANGED <<strings, pipeline>>
  BY DEF AppendString, fileVars
<1>2. b \in Seq(Records \cup {Scratch})
  BY BufferIs DEF Laid, LogInv, StoredInv, PositionInv
<1> HIDE DEF b
<1>3. CASE UNCHANGED <<extent, disk, cur, pending, silent>>
  <2>1. K' = K
    BY <1>3 DEF K
  <2> QED
    BY <1>1, <1>3, <2>1, StillLaid
<1>4. CASE ExtendThrows(p, d)
  BY <1>1, <1>4, ThrowLaid
<1>5. CASE Full(b) /\ CanExtend(d) /\ extent' = d /\ WriteStrings(p, d, b) /\ UNCHANGED pending
  <2>1. dtValid[p]
    BY <1>1 DEF Laid, LogInv, StoredInv, Placed, Usable
  <2>2. PICK c \in Characters(b) : disk' = PutStrings(Resize(d, disk), cur[p].rows, c)
    BY <1>5, <2>1 DEF WriteStrings
  <2>3. c \in Seq(Records \cup {Scratch}) /\ Len(c) = N
    BY <1>2, <1>5, <2>2, CharactersTyped DEF Full
  <2>4. Len(c) <= N /\ pending'[p] = <<>>
    BY <1>1, <1>5, <2>3, Sizes DEF Laid, LogInv, InFile
  <2> QED
    BY <1>1, <1>5, <2>2, <2>3, <2>4, StringsLaid
<1> QED
  BY <1>3, <1>4, <1>5 DEF AppendString, b

LEMMA MisfitLaid ==
  ASSUME NEW p \in Tables, Whole, Laid(p), StoredInv', AppendMisfit(p)
  PROVE  Laid(p)' /\ Adds(p)
<1> DEFINE d == Grown(p, ChunkRows)
<1>1. Usable(p) /\ UNCHANGED <<strings, pipeline>> /\ ChunkRows = 1
  BY DEF AppendMisfit, Whole, Steps, fileVars
<1>2. CASE ExtendThrows(p, d)
  BY <1>1, <1>2, ThrowLaid
<1>3. CASE CanExtend(d) /\ extent' = d /\ disk' = Resize(d, disk) /\ UNCHANGED pending
  <2>1. K' = K + 1 /\ Resize(d, disk) = disk
    BY <1>1, <1>3, ChunkMore
  <2> QED
    BY <1>1, <1>3, <2>1, StillLaid
<1> QED
  BY <1>1, <1>2, <1>3 DEF AppendMisfit

\* Whatever the call, a chunk that is in the file stays as it is.
LEMMA NextLaid ==
  ASSUME NEW p, Tables = {p}, Whole, Laid(p), [Next]_vars
  PROVE  Laid(p)' /\ Adds(p)
<1>1. p \in Tables
  OBVIOUS
<1>2. StoredInv'
  BY NextStored DEF Laid, LogInv
<1>3. ASSUME NEW v \in Records, AppendRecord(p, v) \/ AppendString(p, v)
      PROVE  Laid(p)' /\ Adds(p)
  BY <1>1, <1>2, <1>3, RecordLaid, StringLaid
<1>4. ASSUME NEW data \in [1 .. N -> Records], AppendPointer(p, data) \/ AppendContainer(p, data)
      PROVE  Laid(p)' /\ Adds(p)
  <2>1. AppendContainer(p, data) => ChunkRows = 1
    BY DEF AppendContainer, Whole, Steps
  <2>2. /\ Usable(p) /\ ~strings /\ UNCHANGED <<strings, pipeline>>
        /\ \/ ExtendThrows(p, Grown(p, ChunkRows))
           \/ ExtendAndWrite(p, Grown(p, ChunkRows), data)
    BY <1>4, <2>1 DEF AppendPointer, AppendContainer, fileVars
  <2>3. data \in Data
    BY DEF Data
  <2> QED
    BY <1>1, <1>2, <2>2, <2>3, ThrowLaid, WriteLaid
<1>5. ASSUME AppendMisfit(p)
      PROVE  Laid(p)' /\ Adds(p)
  BY <1>1, <1>2, <1>5, MisfitLaid
<1>6. ASSUME Flush(p) \/ Destroy(p)
      PROVE  Laid(p)' /\ Adds(p)
  <2>1. Usable(p) /\ UNCHANGED <<strings, pipeline>> /\ (FlushedOwn(p) \/ FlushFails(p))
    BY <1>6 DEF Flush, Destroy
  <2>2. CASE FlushedOwn(p)
    BY <1>1, <1>2, <2>1, <2>2, DrainLaid, FlushLaid
  <2>3. CASE FlushFails(p)
    <3>1. UNCHANGED <<extent, disk, pending>> /\ K' = K
      BY <2>3 DEF FlushFails, K
    <3> QED
      BY <1>1, <1>2, <2>1, <3>1, StillLaid
  <2> QED
    BY <2>1, <2>2, <2>3
<1>7. ~Reset(p) /\ ~Copy(p, p) /\ ~Move(p, p) /\ ~MoveOnto(p, p)
  BY DEF Whole, Steady, Reset, Copy, Move, MoveOnto
<1>8. ASSUME StartSwmr \/ Ended \/ UNCHANGED vars
      PROVE  Laid(p)' /\ Adds(p)
  <2>1. UNCHANGED <<extent, disk, pending, strings, pipeline>> /\ K' = K
    BY <1>8 DEF StartSwmr, Ended, vars, tableVars, fileVars, K
  <2> QED
    BY <1>1, <1>2, <2>1, StillLaid
<1> QED
  BY <1>3, <1>4, <1>5, <1>6, <1>7, <1>8 DEF Next

\* A record that a reader finds is found there by every later reader.
LEMMA AddsKeepsRecords ==
  ASSUME NEW p \in Tables, Laid(p), StoredInv', Adds(p)
  PROVE  \A k \in DOMAIN Readable(disk) :
            Readable(disk)[k] \in Records =>
               k \in DOMAIN Readable(disk)' /\ Readable(disk)'[k] = Readable(disk)[k]
<1> USE Sizes
<1>1. HasChunks(extent, K) /\ K \in Nat /\ extent.rows = K * ChunkRows
  BY Ends DEF Laid, LogInv
<1>2. HasChunks(extent', K') /\ K' \in Nat
  <2>1. extent' \in Extents /\ extent'.rows % ChunkRows = 0 /\ extent'.cols = Cols
    BY DEF StoredInv, PositionInv, Placed, TypeInv, TypeOK, Extents
  <2>2. PICK k \in Nat : HasChunks(extent', k)
    BY <2>1, WholeChunks
  <2>3. extent'.rows = (k * ChunkRows) + 0 /\ extent'.rows \in Int /\ 0 \in 0 .. (ChunkRows - 1)
    BY <2>2 DEF HasChunks
  <2>4. extent'.rows \div ChunkRows = k
    BY <2>3, DivIs
  <2> QED
    BY <2>2, <2>4 DEF K
<1>3. /\ Readable(disk) = RecordsOf(extent, disk)
      /\ Readable(disk)' = RecordsOf(extent', disk')
  BY DEF Readable, RecordsOf
<1>4. /\ DOMAIN Readable(disk) = 1 .. (K * N) /\ K * N \in Nat
      /\ \A k \in 1 .. (K * N) : Readable(disk)[k] = disk[(k - 1) \div N][((k - 1) % N) + 1]
  <2>1. /\ DOMAIN RecordsOf(extent, disk) = 1 .. (K * N) /\ K * N \in Nat
        /\ \A k \in 1 .. (K * N) :
              RecordsOf(extent, disk)[k] = disk[(k - 1) \div N][((k - 1) % N) + 1]
    BY <1>1, RecordsOfChunks
  <2> QED
    BY <1>3, <2>1, Zenon
<1>5. /\ DOMAIN Readable(disk)' = 1 .. (K' * N) /\ K' * N \in Nat
      /\ \A k \in 1 .. (K' * N) :
            Readable(disk)'[k] = disk'[(k - 1) \div N][((k - 1) % N) + 1]
  <2>1. /\ DOMAIN RecordsOf(extent', disk') = 1 .. (K' * N) /\ K' * N \in Nat
        /\ \A k \in 1 .. (K' * N) :
              RecordsOf(extent', disk')[k] = disk'[(k - 1) \div N][((k - 1) % N) + 1]
    <3>1. PICK e, g, k : e = extent' /\ g = disk' /\ k = K'
      OBVIOUS
    <3>2. HasChunks(e, k)
      BY <1>2, <3>1
    <3>3. /\ DOMAIN RecordsOf(e, g) = 1 .. (k * N) /\ k * N \in Nat
          /\ \A i \in 1 .. (k * N) :
                RecordsOf(e, g)[i] = g[(i - 1) \div N][((i - 1) % N) + 1]
      <4>1. k * N \in Nat /\ DOMAIN RecordsOf(e, g) = 1 .. (k * N)
        BY <3>2, RecordsOfChunks
      <4>2. \A i \in 1 .. (k * N) :
                RecordsOf(e, g)[i] = g[(i - 1) \div N][((i - 1) % N) + 1]
        BY <3>2, RecordsOfChunks
      <4> QED
        BY <4>1, <4>2
    <3> QED
      BY <3>1, <3>3
  <2> QED
    BY <1>3, <2>1, Zenon
<1>6. K * N <= K' * N
  <2>1. K <= K' /\ K \in Int /\ K' \in Int /\ N \in Nat
    BY <1>1, <1>2 DEF Adds
  <2> QED
    BY <2>1, TimesMonotone
<1> SUFFICES ASSUME NEW k \in 1 .. (K * N), Readable(disk)[k] \in Records
             PROVE  k \in DOMAIN Readable(disk)' /\ Readable(disk)'[k] = Readable(disk)[k]
  BY <1>4
<1> DEFINE c == (k - 1) \div N
           i == ((k - 1) % N) + 1
<1>7. c \in 0 .. (K - 1)
  <2>1. (K + 1) * N = (K * N) + N /\ k \in 1 .. ((K + 1) * N) /\ k <= K * N
    BY <1>1, <1>4
  <2> QED
    BY <1>1, <2>1, ChunkOfRecord
<1>8. i \in 1 .. N
  <2>1. k - 1 \in Int
    BY <1>4
  <2>2. (k - 1) % N \in 0 .. (N - 1)
    BY <2>1, DivMod
  <2> QED
    BY <2>2
<1>9. k \in 1 .. (K' * N)
  BY <1>4, <1>5, <1>6
<1> HIDE DEF c, i
<1>10. Readable(disk)[k] = disk[c][i] /\ Readable(disk)'[k] = disk'[c][i]
  BY <1>4, <1>5, <1>9 DEF c, i
<1>11. c \notin Awaited(p)
  <2>1. ASSUME c \in Awaited(p) PROVE FALSE
    <3>1. disk[c][i] = Fill
      BY <1>8, <2>1 DEF Laid, Blank
    <3> QED
      BY <1>10, <3>1, TableAssumption
  <2> QED
    BY <2>1
<1>12. disk'[c] = disk[c]
  BY <1>7, <1>11 DEF Adds
<1> QED
  BY <1>5, <1>9, <1>10, <1>12

LEMMA InitLaid ==
  ASSUME NEW p, Tables = {p}, Whole, Init
  PROVE  Laid(p)
<1>1. StoredInv
  BY InitStored
<1>2. /\ disk = [c \in ChunkIds |-> [i \in 1 .. N |-> Fill]]
      /\ pending[p] = <<>>
  BY DEF Init
<1> QED
  BY <1>1, <1>2 DEF Laid, LogInv, InFile, Distinct, Awaited

\* A record that is in the file of the only table stays where it is, whatever the
\* geometry, the capacity, the cap and the pipeline: also where blocks are
\* appended over buffered records, and where the characters of buffered strings
\* change before they are written.
THEOREM FileIsAppendOnly ==
  ASSUME NEW p, Tables = {p}, Whole
  PROVE  Spec => AppendOnly
<1>1. Init => Laid(p)
  BY InitLaid
<1>2. Laid(p) /\ [Next]_vars => Laid(p)'
  BY NextLaid
<1>3. ASSUME Laid(p), [Next]_vars
      PROVE  [\A k \in DOMAIN Readable(disk) :
                 Readable(disk)[k] \in Records =>
                     k \in DOMAIN Readable(disk)' /\ Readable(disk)'[k] = Readable(disk)[k]]_vars
  <2>1. Laid(p)' /\ Adds(p) /\ p \in Tables
    BY <1>3, NextLaid
  <2>2. StoredInv'
    BY <2>1 DEF Laid, LogInv
  <2> QED
    BY <1>3, <2>1, <2>2, AddsKeepsRecords
<1> QED
  BY <1>1, <1>2, <1>3, PTL DEF Spec, AppendOnly

=============================================================================
