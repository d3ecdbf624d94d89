--------------------------- MODULE PoolReadProofs ---------------------------
(***************************************************************************)
(* Theorems about PoolRead for every chunk size, every number of elements  *)
(* and every cap.                                                          *)
(*                                                                         *)
(* The chunks up to Sent were handed to the pool, the deque holds the last *)
(* of them in order, and those up to Delivered have been copied to where   *)
(* they belong.  An empty deque at the end of the loop then makes          *)
(* Delivered all of the chunks.                                            *)
(***************************************************************************)
EXTENDS PoolRead, SequenceTheorems, TLAPS

\* The chunks that were handed to the pool, and those that were copied.
Sent == j \div ChunkSize
Delivered == Sent - Len(inFlight)

ChunkOf(i) == ((i - 1) \div ChunkSize) + 1

\* The chunks that were handed over begin before the end of the read.
Position ==
    /\ j = Sent * ChunkSize
    /\ Sent > 0 => First(Sent) < n

DequeInOrder ==
    /\ Len(inFlight) <= Sent
    /\ \A i \in DOMAIN inFlight : inFlight[i] = Delivered + i

\* What a task is and what became of it depends on where it is.
TaskState ==
    /\ result \in [Tasks -> Seq(1 .. Garbage)]
    /\ \A t \in Tasks : t > Sent => phase[t] = "new"
    /\ \A t \in Tasks : t <= Sent => phase[t] # "new"
    /\ \A t \in Tasks : t <= Delivered => phase[t] = "done" /\ t \notin failed
    /\ \A t \in Tasks : t \notin failed /\ phase[t] = "done" => result[t] = Decoded(t)
    /\ \A t \in Tasks : phase[t] # "done" => result[t] = <<>> /\ t \notin failed
    /\ \A t \in failed : result[t] = <<>>
    /\ \A t \in fetched : t <= Sent

\* What the caller's memory is to hold at slot i.
Value(i) == IF ChunkOf(i) \in fetched THEN i ELSE Garbage

DstInOrder ==
    \A i \in Slots :
        dst[i] = IF ChunkOf(i) <= Delivered /\ i <= n THEN Value(i) ELSE Untouched

CallState ==
    /\ base <=> pc \notin {"idle", "returned", "gone"}
    /\ pc \in {"idle", "returned", "gone"} => inFlight = <<>>
    /\ pc \in {"rest", "returned", "gone"} => j >= n
    /\ closed => pc \in {"gone", "threw"}

Bounded ==
    /\ Len(inFlight) <= Cap
    /\ pc \in {"idle", "loop", "rest"} => Len(inFlight) < Cap

IInv ==
    TypeOK /\ Position /\ DequeInOrder /\ TaskState /\ DstInOrder /\ CallState /\ Bounded

-----------------------------------------------------------------------------
(* Integer division by the chunk size. *)

\* Multiplication by a natural number keeps the order.
LEMMA TimesMonotone ==
  ASSUME NEW x \in Int, NEW y \in Int, NEW b \in Nat, x <= y
  PROVE  x * b <= y * b
OBVIOUS

\* Quotient and remainder.
LEMMA DivMod ==
  ASSUME NEW a \in Int, NEW b \in Nat \ {0}
  PROVE  /\ a \div b \in Int
         /\ a % b \in 0 .. (b - 1)
         /\ a = ((a \div b) * b) + (a % b)
OBVIOUS

\* The quotient is the only number with its two bounds.
LEMMA DivIs ==
  ASSUME NEW a \in Int, NEW b \in Nat \ {0}, NEW q \in Int
  PROVE  /\ q * b <= a /\ a < (q + 1) * b <=> a \div b = q
         /\ q * b <= a <=> q <= a \div b
<1> DEFINE d == a \div b
<1>1. d \in Int /\ d * b <= a /\ a < (d + 1) * b
  BY DivMod
<1>2. ASSUME q <= d PROVE q * b <= a
  <2>1. q * b <= d * b
    BY <1>1, <1>2, TimesMonotone
  <2> QED
    BY <1>1, <2>1
<1>3. ASSUME q > d PROVE a < q * b
  <2>1. (d + 1) * b <= q * b
    BY <1>1, <1>3, TimesMonotone
  <2> QED
    BY <1>1, <2>1
<1>4. ASSUME q < d PROVE (q + 1) * b <= a
  <2>1. (q + 1) * b <= d * b
    BY <1>1, <1>4, TimesMonotone
  <2> QED
    BY <1>1, <2>1
<1>5. q * b \in Int /\ (q + 1) * b \in Int /\ d \in Int
  BY <1>1
<1> HIDE DEF d
<1>6. /\ q * b <= a /\ a < (q + 1) * b <=> d = q
      /\ q * b <= a <=> q <= d
  BY <1>1, <1>2, <1>3, <1>4, <1>5
<1> QED
  BY <1>6 DEF d

\* A chunk that begins before the end of a read is one of the chunks.
LEMMA ChunkInRange ==
  ASSUME NEW k \in 0 .. MaxElements, NEW t \in Nat \ {0}, First(t) < k
  PROVE  t \in Tasks /\ t * ChunkSize <= ChunksOf(MaxElements) * ChunkSize
<1> USE ReadAssumption
<1>1. ChunksOf(MaxElements) \in Int
  BY DivMod DEF ChunksOf
<1>2. t * ChunkSize = First(t) + ChunkSize /\ First(t) \in Int
  BY DEF First
<1>3. t * ChunkSize <= MaxElements + ChunkSize - 1
  <2>1. First(t) <= MaxElements - 1
    BY <1>2
  <2> QED
    BY <1>2, <2>1
<1>4. t <= ChunksOf(MaxElements)
  BY <1>3, DivIs DEF ChunksOf
<1>5. t * ChunkSize <= ChunksOf(MaxElements) * ChunkSize
  BY <1>1, <1>4, TimesMonotone
<1> QED
  BY <1>1, <1>4, <1>5 DEF Tasks

\* A slot lies in the chunk ChunkOf says.
LEMMA SlotInChunk ==
  ASSUME NEW i \in Slots
  PROVE  /\ i \in Nat \ {0}
         /\ ChunkOf(i) \in Tasks
         /\ \A t \in Tasks : ChunkOf(i) = t <=> First(t) < i /\ i <= First(t) + ChunkSize
<1> USE ReadAssumption
<1>1. ChunksOf(MaxElements) \in Int
  BY DivMod DEF ChunksOf
<1>2. i \in Nat \ {0} /\ i - 1 < ChunksOf(MaxElements) * ChunkSize
  BY <1>1 DEF Slots
<1>3. (i - 1) \div ChunkSize \in Int
  BY <1>2, DivMod
<1>4. 0 <= (i - 1) \div ChunkSize
  BY <1>2, DivIs
<1>5. (i - 1) \div ChunkSize < ChunksOf(MaxElements)
  BY <1>1, <1>2, <1>3, DivIs
<1>6. ASSUME NEW t \in Tasks
      PROVE  ChunkOf(i) = t <=> First(t) < i /\ i <= First(t) + ChunkSize
  <2>1. t \in Int /\ t - 1 \in Int /\ ((t - 1) + 1) * ChunkSize = First(t) + ChunkSize
    BY <1>1 DEF Tasks, First
  <2>2. First(t) <= i - 1 /\ i - 1 < First(t) + ChunkSize <=> (i - 1) \div ChunkSize = t - 1
    BY <1>2, <2>1, DivIs DEF First
  <2>3. First(t) \in Int
    BY <2>1 DEF First
  <2> QED
    BY <1>2, <1>3, <2>1, <2>2, <2>3 DEF ChunkOf
<1> QED
  BY <1>1, <1>2, <1>3, <1>4, <1>5, <1>6 DEF ChunkOf, Tasks

\* The copy of a chunk takes its slots up to the end of the read.
LEMMA CopyCovers ==
  ASSUME n \in 0 .. MaxElements, NEW t \in Tasks, First(t) < n
  PROVE  /\ CopySize(t) \in 1 .. ChunkSize
         /\ First(t) \in Nat
         /\ First(t) + CopySize(t) <= n
         /\ \A i \in Slots : i - First(t) \in 1 .. CopySize(t) <=> ChunkOf(i) = t /\ i <= n
<1> USE ReadAssumption
<1>1. ChunksOf(MaxElements) \in Int /\ t \in Nat \ {0} /\ n \in Nat
  BY DivMod DEF ChunksOf, Tasks
<1>2. First(t) \in Nat /\ First(t) + ChunkSize = t * ChunkSize
  <2>1. 0 * ChunkSize <= (t - 1) * ChunkSize
    BY <1>1, TimesMonotone
  <2> QED
    BY <1>1, <2>1 DEF First
<1> DEFINE q == n \div ChunkSize
           r == n % ChunkSize
<1>3. q \in Int /\ r \in 0 .. (ChunkSize - 1) /\ n = (q * ChunkSize) + r
  <2>1. n \in Int /\ ChunkSize \in Nat \ {0}
    BY <1>1
  <2> QED
    BY <2>1, DivMod
<1> HIDE DEF q, r
<1>4. CASE r # 0 /\ First(t) = n - r
  <2>1. CopySize(t) = n - First(t) /\ CopySize(t) \in 1 .. ChunkSize
    BY <1>1, <1>2, <1>3, <1>4 DEF CopySize, r
  <2>2. First(t) + CopySize(t) = n /\ n <= First(t) + ChunkSize
    BY <1>1, <1>2, <1>3, <1>4, <2>1
  <2>3. ASSUME NEW i \in Slots
        PROVE  i - First(t) \in 1 .. CopySize(t) <=> ChunkOf(i) = t /\ i <= n
    BY <1>1, <1>2, <2>1, <2>2, SlotInChunk
  <2> QED
    BY <1>1, <1>2, <2>1, <2>2, <2>3
<1>5. CASE ~(r # 0 /\ First(t) = n - r)
  <2>1. CopySize(t) = ChunkSize
    BY <1>5 DEF CopySize, r
  <2>2. t - 1 < q \/ (r # 0 /\ t - 1 = q)
    <3>1. t - 1 <= q
      BY <1>1, <1>2, DivIs DEF q, First
    <3>2. t - 1 = q => (t - 1) * ChunkSize = q * ChunkSize
      OBVIOUS
    <3>3. t - 1 = q => r # 0
      BY <1>1, <1>2, <1>3, <3>2 DEF First
    <3> QED
      BY <1>1, <1>3, <3>1, <3>3
  <2>3. t - 1 # q \/ r = 0
    <3>1. t - 1 = q => First(t) = q * ChunkSize
      BY DEF First
    <3> QED
      BY <1>1, <1>2, <1>3, <1>5, <3>1
  <2>4. t <= q
    BY <1>1, <1>3, <2>2, <2>3
  <2>5. t * ChunkSize <= n
    BY <1>1, <2>4, DivIs DEF q
  <2>6. ASSUME NEW i \in Slots
        PROVE  i - First(t) \in 1 .. CopySize(t) <=> ChunkOf(i) = t /\ i <= n
    BY <1>1, <1>2, <2>1, <2>5, SlotInChunk
  <2> QED
    BY <1>1, <1>2, <2>1, <2>5, <2>6
<1> QED
  BY <1>4, <1>5

\* What a task delivers are elements, and they fit.
LEMMA DecodedFits ==
  ASSUME n \in 0 .. MaxElements, NEW t \in Tasks, First(t) < n
  PROVE  /\ Decoded(t) \in Seq(1 .. Garbage)
         /\ DOMAIN Decoded(t) = 1 .. CopySize(t)
         /\ Len(Decoded(t)) <= n - First(t)
<1> USE ReadAssumption
<1>1. /\ CopySize(t) \in 1 .. ChunkSize /\ First(t) \in Nat
      /\ First(t) + CopySize(t) <= n /\ n \in Nat /\ n <= MaxElements
  BY CopyCovers
<1>2. \A i \in 1 .. CopySize(t) :
         (IF t \in fetched THEN First(t) + i ELSE Garbage) \in 1 .. Garbage
  BY <1>1 DEF Garbage
<1>3. Decoded(t) \in [1 .. CopySize(t) -> 1 .. Garbage]
  BY <1>2 DEF Decoded
<1>4. CopySize(t) \in Nat
  BY <1>1
<1>5. Decoded(t) \in Seq(1 .. Garbage)
  BY <1>3, <1>4, SeqDef
<1>6. Len(Decoded(t)) = CopySize(t)
  <2>1. Len(Decoded(t)) \in Nat /\ 1 .. Len(Decoded(t)) = 1 .. CopySize(t)
    BY <1>3, <1>5, LenProperties
  <2> QED
    BY <1>4, <2>1
<1> QED
  BY <1>1, <1>3, <1>5, <1>6

-----------------------------------------------------------------------------
(* The counters, and the two ends of the deque. *)

\* The counters are natural numbers, and what was handed over is in the read.
LEMMA Counters ==
  ASSUME TypeOK, Position, DequeInOrder
  PROVE  /\ n \in Nat /\ j \in Nat /\ Len(inFlight) \in Nat
         /\ Sent \in Nat /\ Delivered \in Nat /\ Delivered <= Sent
         /\ \A t \in Tasks : t <= Sent => First(t) < n
<1> USE ReadAssumption
<1>1. ChunksOf(MaxElements) \in Int
  BY DivMod DEF ChunksOf
<1>2. n \in Nat /\ j \in Nat /\ Len(inFlight) \in Nat
  BY <1>1 DEF TypeOK
<1>3. Sent \in Int
  BY <1>2, DivMod DEF Sent
<1>4. 0 <= Sent
  BY <1>2, DivIs DEF Sent
<1>5. ASSUME NEW t \in Tasks, t <= Sent PROVE First(t) < n
  <2>1. t \in Nat \ {0} /\ Sent > 0
    BY <1>1, <1>3, <1>5 DEF Tasks
  <2>2. (t - 1) * ChunkSize <= (Sent - 1) * ChunkSize
    BY <1>3, <1>5, <2>1, TimesMonotone
  <2>3. First(t) \in Int /\ First(Sent) \in Int
    BY <1>3, <2>1 DEF First
  <2> QED
    BY <1>2, <2>1, <2>2, <2>3 DEF Position, First
<1> QED
  BY <1>2, <1>3, <1>4, <1>5 DEF DequeInOrder, Delivered

\* The deque holds numbers of tasks.
LEMMA DequeOfTasks ==
  ASSUME TypeOK
  PROVE  inFlight \in Seq(Tasks) /\ inFlight \in Seq(Nat)
<1>1. Tasks \subseteq Nat
  BY ReadAssumption, DivMod DEF Tasks, ChunksOf
<1> QED
  BY <1>1, SeqMonotonic DEF TypeOK

\* A future joins the deque at the back, and the loop goes on by a chunk.
LEMMA Push ==
  ASSUME IInv, More, j' = j + ChunkSize, n' = n, inFlight' = Append(inFlight, Sent + 1)
  PROVE  /\ Sent' = Sent + 1
         /\ Delivered' = Delivered
         /\ Sent + 1 \in Tasks
         /\ j' \in 0 .. (ChunksOf(MaxElements) * ChunkSize)
         /\ inFlight' \in Seq(Tasks)
         /\ Len(inFlight') = Len(inFlight) + 1
         /\ Position' /\ DequeInOrder'
<1> USE ReadAssumption
<1>1. /\ n \in Nat /\ j \in Nat /\ Len(inFlight) \in Nat /\ n \in 0 .. MaxElements
      /\ Sent \in Nat /\ Delivered \in Nat /\ j = Sent * ChunkSize
  BY Counters DEF IInv, Position, TypeOK
<1>2. First(Sent + 1) = j
  BY <1>1 DEF First
<1>3. Sent + 1 \in Tasks /\ (Sent + 1) * ChunkSize <= ChunksOf(MaxElements) * ChunkSize
  <2>1. Sent + 1 \in Nat \ {0} /\ First(Sent + 1) < n
    BY <1>1, <1>2 DEF More
  <2> QED
    BY <1>1, <2>1, ChunkInRange
<1>4. j' = (Sent + 1) * ChunkSize /\ j' \in Nat
  BY <1>1
<1>5. Sent' = Sent + 1
  <2> DEFINE q == Sent + 1
  <2>1. q \in Int /\ q * ChunkSize <= j' /\ j' < (q + 1) * ChunkSize /\ j' \in Int
    BY <1>1, <1>4
  <2> HIDE DEF q
  <2>2. j' \div ChunkSize = q
    BY <2>1, DivIs
  <2> QED
    BY <2>2 DEF Sent, q
<1>6. inFlight \in Seq(Tasks) /\ inFlight \in Seq(Nat)
  BY DequeOfTasks DEF IInv
<1>7. /\ inFlight' \in Seq(Tasks)
      /\ Len(inFlight') = Len(inFlight) + 1
      /\ \A i \in 1 .. Len(inFlight) : inFlight'[i] = inFlight[i]
      /\ inFlight'[Len(inFlight) + 1] = Sent + 1
      /\ DOMAIN inFlight' = 1 .. (Len(inFlight) + 1)
      /\ DOMAIN inFlight = 1 .. Len(inFlight)
  BY <1>3, <1>6
<1>8. Delivered' = Delivered
  BY <1>1, <1>5, <1>7 DEF Delivered
<1>9. ASSUME NEW i \in DOMAIN inFlight' PROVE inFlight'[i] = Delivered + i
  <2>1. CASE i \in 1 .. Len(inFlight)
    BY <1>7, <2>1 DEF IInv, DequeInOrder
  <2>2. CASE i = Len(inFlight) + 1
    BY <1>1, <1>7, <2>2 DEF Delivered
  <2> QED
    BY <1>1, <1>7, <2>1, <2>2
<1>10. Position'
  <2>1. First(Sent)' = j
    BY <1>1, <1>5 DEF First
  <2> QED
    BY <1>1, <1>4, <1>5, <2>1 DEF Position, More
<1>11. DequeInOrder'
  BY <1>1, <1>5, <1>7, <1>8, <1>9 DEF IInv, DequeInOrder
<1> QED
  BY <1>1, <1>3, <1>4, <1>5, <1>7, <1>8, <1>10, <1>11

\* The front future leaves the deque: it is the one of task Delivered + 1.
LEMMA Pop ==
  ASSUME IInv, inFlight # <<>>
  PROVE  /\ Head(inFlight) = Delivered + 1
         /\ Head(inFlight) \in Tasks
         /\ Head(inFlight) <= Sent
         /\ inFlight' = Tail(inFlight) /\ j' = j =>
              /\ DequeInOrder'
              /\ inFlight' \in Seq(Tasks)
              /\ Sent' = Sent
              /\ Delivered' = Delivered + 1
              /\ Len(inFlight') = Len(inFlight) - 1
<1> USE ReadAssumption
<1>1. Len(inFlight) \in Nat /\ Sent \in Nat /\ Delivered \in Nat
  BY Counters DEF IInv
<1>2. inFlight \in Seq(Tasks) /\ inFlight \in Seq(Nat)
  BY DequeOfTasks DEF IInv
<1>3. /\ Len(inFlight) >= 1 /\ Head(inFlight) = inFlight[1]
      /\ 1 \in DOMAIN inFlight /\ Head(inFlight) \in Tasks
  BY <1>2
<1>4. Head(inFlight) = Delivered + 1 /\ Head(inFlight) <= Sent
  BY <1>1, <1>3 DEF IInv, DequeInOrder, Delivered
<1>5. ASSUME inFlight' = Tail(inFlight), j' = j
      PROVE  /\ DequeInOrder'
             /\ inFlight' \in Seq(Tasks)
             /\ Sent' = Sent
             /\ Delivered' = Delivered + 1
             /\ Len(inFlight') = Len(inFlight) - 1
  <2>1. /\ Len(inFlight') = Len(inFlight) - 1
        /\ inFlight' \in Seq(Tasks)
        /\ DOMAIN inFlight' = 1 .. (Len(inFlight) - 1)
        /\ DOMAIN inFlight = 1 .. Len(inFlight)
        /\ \A i \in 1 .. (Len(inFlight) - 1) : inFlight'[i] = inFlight[i + 1]
    BY <1>2, <1>3, <1>5
  <2>2. Sent' = Sent /\ Delivered' = Delivered + 1
    BY <1>1, <1>5, <2>1 DEF Sent, Delivered
  <2>3. ASSUME NEW i \in DOMAIN inFlight' PROVE inFlight'[i] = Delivered' + i
    <3>1. i + 1 \in DOMAIN inFlight /\ i \in Nat
      BY <1>1, <2>1
    <3>2. inFlight[i + 1] = Delivered + (i + 1)
      BY <3>1 DEF IInv, DequeInOrder
    <3> QED
      BY <1>1, <2>1, <2>2, <3>1, <3>2
  <2> QED
    BY <1>1, <2>1, <2>2, <2>3 DEF IInv, DequeInOrder
<1> QED
  BY <1>3, <1>4, <1>5

-----------------------------------------------------------------------------
(* The inductive invariant. *)

LEMMA InitIInv == Init => IInv
<1> SUFFICES ASSUME Init PROVE IInv
  OBVIOUS
<1> USE ReadAssumption
<1>1. Len(inFlight) = 0 /\ DOMAIN inFlight = {} /\ inFlight \in Seq(Tasks) /\ <<>> \in Seq(1 .. Garbage)
  BY DEF Init
<1>2. Sent = 0 /\ Delivered = 0
  <2>1. j = 0 /\ 0 \div ChunkSize = 0
    BY DivIs DEF Init
  <2> QED
    BY <1>1, <2>1 DEF Sent, Delivered
<1>3. ChunksOf(MaxElements) \in Nat
  <2>1. ChunksOf(MaxElements) \in Int /\ 0 <= ChunksOf(MaxElements)
    BY DivMod, DivIs DEF ChunksOf
  <2> QED
    BY <2>1
<1>4. 0 \in 0 .. (ChunksOf(MaxElements) * ChunkSize)
  <2>1. 0 * ChunkSize <= ChunksOf(MaxElements) * ChunkSize
    BY <1>3, TimesMonotone
  <2> QED
    BY <1>3, <2>1
<1>5. TypeOK
  <2>1. \A t \in Tasks : result[t] = <<>>
    BY DEF Init
  <2>2. dst \in [Slots -> 0 .. Garbage]
    BY DEF Init, Untouched, Garbage
  <2>3. Pool!ExecTypeOK
    BY DEF Init, Pool!ExecInit, Pool!ExecTypeOK
  <2>4. /\ n \in 0 .. MaxElements /\ fetched = {} /\ failed = {} /\ base = FALSE
        /\ j = 0 /\ pc = "idle"
    BY DEF Init
  <2> QED
    BY <1>1, <1>4, <2>1, <2>2, <2>3, <2>4 DEF TypeOK
<1>6. Position /\ DequeInOrder
  BY <1>1, <1>2 DEF Init, Position, DequeInOrder
<1>7. TaskState
  BY <1>1, <1>2, <1>3 DEF Init, TaskState, Tasks, Pool!ExecInit
<1>8. DstInOrder
  <2>1. ASSUME NEW i \in Slots PROVE ~(ChunkOf(i) <= Delivered)
    BY <1>2, <1>3, SlotInChunk DEF Tasks
  <2> QED
    BY <2>1 DEF Init, DstInOrder
<1>9. CallState /\ Bounded
  BY <1>1 DEF Init, CallState, Bounded, Pool!ExecInit
<1> QED
  BY <1>5, <1>6, <1>7, <1>8, <1>9 DEF IInv

\* Steps of the calling thread that move no future and no element.
LEMMA CallStep ==
  ASSUME IInv, UNCHANGED <<n, j, fetched, poolVars, inFlight, dst>>,
         base' \in BOOLEAN,
         pc' \in {"idle", "loop", "poll", "cap", "rest", "returned",
                  "raised", "gone", "threw", "terminated"},
         CallState', Bounded'
  PROVE  IInv'
<1> USE DEF IInv, poolVars
<1>1. TypeOK'
  BY DEF TypeOK, First, Pool!ExecTypeOK
<1>2. Sent' = Sent /\ Delivered' = Delivered
  BY DEF Sent, Delivered
<1>3. Position' /\ DequeInOrder'
  BY <1>2 DEF Position, DequeInOrder, First
<1>4. \A t \in Tasks : Decoded(t)' = Decoded(t)
  BY DEF Decoded, CopySize, First
<1>5. TaskState'
  BY <1>2, <1>4 DEF TaskState
<1>6. DstInOrder'
  BY <1>2 DEF DstInOrder, Value, ChunkOf
<1> QED
  BY <1>1, <1>3, <1>5, <1>6

LEMMA BeginKeeps == IInv /\ Begin => IInv'
<1> SUFFICES ASSUME IInv, Begin PROVE IInv'
  OBVIOUS
<1>1. CallState' /\ Bounded'
  BY DEF IInv, Begin, CallState, Bounded, poolVars
<1> QED
  BY <1>1, CallStep DEF Begin

LEMMA FetchThrowsKeeps == IInv /\ FetchThrows => IInv'
<1> SUFFICES ASSUME IInv, FetchThrows PROVE IInv'
  OBVIOUS
<1>1. CallState' /\ Bounded'
  BY DEF IInv, FetchThrows, CallState, Bounded, poolVars
<1> QED
  BY <1>1, CallStep DEF FetchThrows, IInv, TypeOK

\* The future that threw stays at the front.
LEMMA FrontThrowsKeeps == IInv /\ FrontThrows => IInv'
<1> SUFFICES ASSUME IInv, FrontThrows PROVE IInv'
  OBVIOUS
<1>1. CallState' /\ Bounded'
  BY DEF IInv, FrontThrows, Draining, CallState, Bounded, poolVars, FrontReady
<1>2. pc' \in {"terminated", "raised"}
  BY DEF FrontThrows
<1> QED
  BY <1>1, <1>2, CallStep DEF FrontThrows, IInv, TypeOK

LEMMA PollDoneKeeps == IInv /\ PollDone => IInv'
<1> SUFFICES ASSUME IInv, PollDone PROVE IInv'
  OBVIOUS
<1>1. CallState' /\ Bounded'
  BY DEF IInv, PollDone, CallState, Bounded, poolVars
<1> QED
  BY <1>1, CallStep DEF PollDone, IInv, TypeOK

LEMMA CapDoneKeeps == IInv /\ CapDone => IInv'
<1> SUFFICES ASSUME IInv, CapDone PROVE IInv'
  OBVIOUS
<1>1. Len(inFlight) < Cap
  BY ReadAssumption, Counters DEF IInv, CapDone, CapReached
<1>2. CallState' /\ Bounded'
  BY <1>1 DEF IInv, CapDone, CallState, Bounded, poolVars
<1> QED
  BY <1>2, CallStep DEF CapDone, IInv, TypeOK

LEMMA LoopDoneKeeps == IInv /\ LoopDone => IInv'
<1> SUFFICES ASSUME IInv, LoopDone PROVE IInv'
  OBVIOUS
<1>1. j >= n
  BY Counters DEF IInv, LoopDone, More
<1>2. CallState' /\ Bounded'
  BY <1>1 DEF IInv, LoopDone, CallState, Bounded, poolVars
<1> QED
  BY <1>2, CallStep DEF LoopDone, IInv, TypeOK

LEMMA ReadReturnsKeeps == IInv /\ ReadReturns => IInv'
<1> SUFFICES ASSUME IInv, ReadReturns PROVE IInv'
  OBVIOUS
<1>1. CallState' /\ Bounded'
  BY DEF IInv, ReadReturns, CallState, Bounded, poolVars
<1> QED
  BY <1>1, CallStep DEF ReadReturns, IInv, TypeOK

LEMMA DestroyedKeeps == IInv /\ Destroyed => IInv'
<1> SUFFICES ASSUME IInv, Destroyed PROVE IInv'
  OBVIOUS
<1>1. pc' \in {"gone", "threw"}
  BY DEF Destroyed
<1>2. CallState' /\ Bounded'
  BY <1>1 DEF IInv, Destroyed, CallState, Bounded, poolVars
<1> QED
  BY <1>1, <1>2, CallStep DEF Destroyed, IInv, TypeOK

\* One pass of the loop: the chunk at j is fetched and handed to the pool.
LEMMA FetchKeeps == IInv /\ Fetch => IInv'
<1> SUFFICES ASSUME IInv, Fetch PROVE IInv'
  OBVIOUS
<1> USE ReadAssumption DEF IInv
<1> DEFINE t == Sent + 1
<1>1. /\ n \in Nat /\ j \in Nat /\ Len(inFlight) \in Nat
      /\ Sent \in Nat /\ Delivered \in Nat /\ Delivered <= Sent
  BY Counters
<1>2. /\ pc = "loop" /\ More /\ pc' = "poll" /\ j' = j + ChunkSize
      /\ inFlight' = Append(inFlight, t)
      /\ fetched' = fetched \cup {t} \/ fetched' = fetched
      /\ UNCHANGED <<n, result, failed, base, dst>>
      /\ ~closed /\ closed' = closed
      /\ phase[t] = "new" /\ phase' = [phase EXCEPT ![t] = "accepted"]
  BY DEF Fetch, Sent, Pool!Accept
<1>3. /\ Sent' = t /\ Delivered' = Delivered /\ t \in Tasks
      /\ j' \in 0 .. (ChunksOf(MaxElements) * ChunkSize)
      /\ inFlight' \in Seq(Tasks) /\ Len(inFlight') = Len(inFlight) + 1
      /\ Position' /\ DequeInOrder'
  BY <1>2, Push
<1> HIDE DEF t
<1>4. phase \in [Tasks -> {"new", "accepted", "done"}] /\ t \notin fetched /\ Tasks \subseteq Nat
  BY <1>1, DivMod DEF TypeOK, Pool!ExecTypeOK, TaskState, t, Tasks, ChunksOf
<1>5. Pool!ExecTypeOK'
  BY <1>2, <1>4 DEF TypeOK, Pool!ExecTypeOK
<1>6. TypeOK'
  <2>1. \A u \in Tasks : First(u)' = First(u)
    BY DEF First
  <2>2. fetched' \in SUBSET Tasks
    BY <1>2, <1>3 DEF TypeOK
  <2>3. pc' \in {"idle", "loop", "poll", "cap", "rest", "returned",
                 "raised", "gone", "threw", "terminated"}
    BY <1>2
  <2> QED
    BY <1>2, <1>3, <1>5, <2>1, <2>2, <2>3 DEF TypeOK
<1>7. \A u \in Tasks : u # t => Decoded(u)' = Decoded(u)
  BY <1>2 DEF Decoded, CopySize, First
<1>8. TaskState'
  <2>1. ASSUME NEW u \in Tasks PROVE u > t \/ u <= Sent \/ u = t
    BY <1>1, <1>4 DEF t
  <2>2. t > Sent /\ ~(t <= Delivered) /\ \A u \in Tasks : u > t => u > Sent
    BY <1>1, <1>4 DEF t
  <2>3. \A u \in Tasks : phase'[u] = IF u = t THEN "accepted" ELSE phase[u]
    BY <1>2, <1>4
  <2>4. \A u \in Tasks : u > t => ~(u <= Sent) /\ u # t
    BY <1>1, <1>4 DEF t
  <2>5. \A u \in Tasks : u > t => phase'[u] = "new"
    BY <2>2, <2>3, <2>4 DEF TaskState
  <2>6. \A u \in Tasks : u <= t => phase'[u] # "new"
    <3>1. ASSUME NEW u \in Tasks, u <= t PROVE u = t \/ u <= Sent
      BY <1>1, <1>4, <3>1 DEF t
    <3> QED
      BY <2>3, <3>1 DEF TaskState
  <2>7. \A u \in Tasks : u <= Delivered => phase'[u] = "done" /\ u \notin failed'
    BY <1>2, <2>2, <2>3 DEF TaskState
  <2>8. \A u \in Tasks : u \notin failed' /\ phase'[u] = "done" => result'[u] = Decoded(u)'
    BY <1>2, <1>7, <2>3 DEF TaskState
  <2>9. \A u \in Tasks : phase'[u] # "done" => result'[u] = <<>> /\ u \notin failed'
    BY <1>2, <2>3 DEF TaskState
  <2>10. \A u \in fetched' : u <= t
    <3>1. \A u \in fetched : u \in Tasks /\ u <= Sent
      BY DEF TypeOK, TaskState
    <3>2. \A u \in fetched : u <= t
      BY <1>1, <1>4, <3>1 DEF t
    <3> QED
      BY <1>2, <1>3, <1>4, <3>2
  <2> QED
    BY <1>2, <1>3, <2>5, <2>6, <2>7, <2>8, <2>9, <2>10 DEF TaskState
<1>9. DstInOrder'
  <2>1. ASSUME NEW i \in Slots, ChunkOf(i) <= Delivered PROVE ChunkOf(i) # t
    BY <1>1, <1>4, <2>1, SlotInChunk DEF t
  <2>2. \A i \in Slots : ChunkOf(i)' = ChunkOf(i)
    BY DEF ChunkOf
  <2> QED
    BY <1>2, <1>3, <2>1, <2>2 DEF DstInOrder, Value
<1>10. CallState'
  BY <1>2 DEF CallState
<1>11. Bounded'
  BY <1>1, <1>2, <1>3 DEF Bounded
<1> QED
  BY <1>3, <1>6, <1>8, <1>9, <1>10, <1>11

\* The front future is ready, and its elements go to where they belong.
LEMMA TakeFrontKeeps == IInv /\ TakeFront => IInv'
<1> SUFFICES ASSUME IInv, TakeFront PROVE IInv'
  OBVIOUS
<1> USE ReadAssumption DEF IInv
<1> DEFINE t == Head(inFlight)
<1>1. /\ n \in Nat /\ j \in Nat /\ Len(inFlight) \in Nat
      /\ Sent \in Nat /\ Delivered \in Nat /\ Delivered <= Sent
      /\ \A u \in Tasks : u <= Sent => First(u) < n
  BY Counters
<1>2. /\ inFlight # <<>> /\ inFlight' = Tail(inFlight) /\ base
      /\ phase[t] = "done" /\ t \notin failed
      /\ dst' = [i \in Slots |->
                   IF i - First(t) \in DOMAIN result[t] THEN result[t][i - First(t)] ELSE dst[i]]
      /\ UNCHANGED <<n, j, fetched, result, failed, phase, closed, base, pc>>
  BY DEF TakeFront, FrontReady, poolVars
<1>3. /\ t = Delivered + 1 /\ t \in Tasks /\ t <= Sent
      /\ DequeInOrder' /\ inFlight' \in Seq(Tasks)
      /\ Sent' = Sent /\ Delivered' = Delivered + 1
      /\ Len(inFlight') = Len(inFlight) - 1
  BY <1>2, Pop
<1> HIDE DEF t
<1>4. n \in 0 .. MaxElements /\ First(t) < n /\ Tasks \subseteq Nat
  <2>1. Tasks \subseteq Nat
    BY DivMod DEF Tasks, ChunksOf
  <2> QED
    BY <1>1, <1>3, <2>1 DEF TypeOK
<1>5. result[t] = Decoded(t) /\ DOMAIN result[t] = 1 .. CopySize(t)
  BY <1>2, <1>3, <1>4, DecodedFits DEF TaskState
<1>6. ASSUME NEW i \in Slots
      PROVE  dst'[i] = IF ChunkOf(i) = t /\ i <= n THEN Value(i) ELSE dst[i]
  <2>1. i - First(t) \in 1 .. CopySize(t) <=> ChunkOf(i) = t /\ i <= n
    BY <1>3, <1>4, CopyCovers
  <2>2. First(t) \in Nat /\ i \in Nat
    BY <1>3, <1>4, CopyCovers, SlotInChunk
  <2>3. i - First(t) \in 1 .. CopySize(t) => Decoded(t)[i - First(t)] = Value(i)
    BY <2>1, <2>2 DEF Decoded, Value
  <2> QED
    BY <1>2, <1>5, <2>1, <2>3
<1>7. \A i \in Slots : i <= n => Value(i) \in 0 .. Garbage
  BY <1>1, <1>4, SlotInChunk DEF Value, Garbage
<1>8. TypeOK'
  <2>1. \A i \in Slots : dst'[i] \in 0 .. Garbage
    BY <1>6, <1>7 DEF TypeOK
  <2>2. dst' \in [Slots -> 0 .. Garbage]
    BY <1>2, <2>1
  <2>3. \A u \in Tasks : First(u)' = First(u)
    BY DEF First
  <2> QED
    BY <1>2, <1>3, <2>2, <2>3 DEF TypeOK, Pool!ExecTypeOK
<1>9. Position'
  BY <1>2, <1>3 DEF Position, First
<1>10. TaskState'
  <2>1. \A u \in Tasks : Decoded(u)' = Decoded(u)
    BY <1>2 DEF Decoded, CopySize, First
  <2>2. \A u \in Tasks : u <= Delivered + 1 => u <= Delivered \/ u = t
    BY <1>1, <1>3, <1>4
  <2> QED
    BY <1>2, <1>3, <2>1, <2>2 DEF TaskState
<1>11. DstInOrder'
  <2>1. ASSUME NEW i \in Slots
        PROVE  ChunkOf(i) <= Delivered + 1 <=> ChunkOf(i) <= Delivered \/ ChunkOf(i) = t
    <3>1. ChunkOf(i) \in Nat
      BY <1>4, SlotInChunk
    <3> QED
      BY <1>1, <1>3, <3>1
  <2>2. ASSUME NEW i \in Slots PROVE ChunkOf(i)' = ChunkOf(i) /\ Value(i)' = Value(i)
    BY <1>2 DEF ChunkOf, Value
  <2> QED
    BY <1>2, <1>3, <1>6, <2>1, <2>2 DEF DstInOrder
<1>12. CallState'
  BY <1>2 DEF CallState
<1>13. Bounded'
  BY <1>1, <1>2, <1>3 DEF Bounded
<1> QED
  BY <1>3, <1>8, <1>9, <1>10, <1>11, <1>12, <1>13

\* A task ends, with its elements or with an exception.
LEMMA DecodeTaskKeeps ==
  ASSUME IInv, NEW t \in Tasks, DecodeTask(t)
  PROVE  IInv'
<1> USE ReadAssumption DEF IInv
<1>1. /\ n \in Nat /\ Sent \in Nat /\ Delivered \in Nat /\ Delivered <= Sent
      /\ n \in 0 .. MaxElements
      /\ \A u \in Tasks : u <= Sent => First(u) < n
  BY Counters DEF TypeOK
<1>2. /\ phase[t] = "accepted" /\ phase' = [phase EXCEPT ![t] = "done"]
      /\ \/ result' = [result EXCEPT ![t] = Decoded(t)] /\ failed' = failed
         \/ result' = result /\ failed' = failed \cup {t}
      /\ UNCHANGED <<n, j, fetched, closed, inFlight, base, dst, pc>>
  BY DEF DecodeTask, Pool!Finish
<1>3. phase \in [Tasks -> {"new", "accepted", "done"}] /\ Tasks \subseteq Nat
  BY DivMod DEF TypeOK, Pool!ExecTypeOK, Tasks, ChunksOf
<1>4. First(t) < n /\ ~(t <= Delivered) /\ result[t] = <<>> /\ t \notin failed
  BY <1>1, <1>2, <1>3 DEF TaskState
<1>5. Decoded(t) \in Seq(1 .. Garbage) /\ Len(Decoded(t)) <= n - First(t)
  BY <1>1, <1>4, DecodedFits
<1>6. Sent' = Sent /\ Delivered' = Delivered
  BY <1>2 DEF Sent, Delivered
<1>7. \A u \in Tasks : Decoded(u)' = Decoded(u) /\ First(u)' = First(u)
  BY <1>2 DEF Decoded, CopySize, First
<1>8. \A u \in Tasks : phase'[u] = IF u = t THEN "done" ELSE phase[u]
  BY <1>2, <1>3
<1>9. result \in [Tasks -> Seq(1 .. Garbage)]
  BY DEF TaskState
<1>10. /\ \A u \in Tasks : u # t => result'[u] = result[u]
       /\ result'[t] = (IF failed' = failed THEN Decoded(t) ELSE <<>>)
       /\ result' \in [Tasks -> Seq(1 .. Garbage)]
  <2>1. CASE result' = [result EXCEPT ![t] = Decoded(t)] /\ failed' = failed
    BY <1>5, <1>9, <2>1
  <2>2. CASE result' = result /\ failed' = failed \cup {t}
    BY <1>4, <1>9, <2>2
  <2> QED
    BY <1>2, <2>1, <2>2
<1>11. TypeOK'
  <2>1. ASSUME NEW u \in Tasks
        PROVE  /\ result'[u] \in Seq(1 .. Garbage)
               /\ Len(result'[u]) <= n - First(u) \/ result'[u] = <<>>
    BY <1>5, <1>10 DEF TypeOK
  <2>2. Pool!ExecTypeOK'
    BY <1>2, <1>3 DEF TypeOK, Pool!ExecTypeOK
  <2>3. failed' \in SUBSET Tasks
    BY <1>2 DEF TypeOK
  <2> QED
    BY <1>2, <1>7, <2>1, <2>2, <2>3 DEF TypeOK
<1>12. Position' /\ DequeInOrder'
  BY <1>2, <1>6 DEF Position, DequeInOrder, First
<1>13. TaskState'
  <2>1. \A u \in Tasks : u \notin failed' => u \notin failed
    BY <1>2
  <2>2. \A u \in Tasks : u # t => (u \in failed' <=> u \in failed)
    BY <1>2
  <2>3. \A u \in Tasks : u \notin failed' /\ phase'[u] = "done" => result'[u] = Decoded(u)'
    BY <1>2, <1>4, <1>7, <1>8, <1>10, <2>1 DEF TaskState
  <2>4. \A u \in Tasks : u <= Delivered => phase'[u] = "done" /\ u \notin failed'
    BY <1>4, <1>8, <2>2 DEF TaskState
  <2>5. \A u \in Tasks : phase'[u] # "done" => result'[u] = <<>> /\ u \notin failed'
    BY <1>8, <1>10, <2>2 DEF TaskState
  <2>6. \A u \in failed' : result'[u] = <<>>
    BY <1>2, <1>4, <1>10 DEF TypeOK, TaskState
  <2>7. (\A u \in Tasks : u > Sent => phase'[u] = "new")
        /\ (\A u \in Tasks : u <= Sent => phase'[u] # "new")
    BY <1>2, <1>8 DEF TaskState
  <2> QED
    BY <1>2, <1>6, <1>10, <2>3, <2>4, <2>5, <2>6, <2>7 DEF TaskState
<1>14. DstInOrder'
  BY <1>2, <1>6 DEF DstInOrder, Value, ChunkOf
<1>15. CallState' /\ Bounded'
  BY <1>2 DEF CallState, Bounded
<1> QED
  BY <1>11, <1>12, <1>13, <1>14, <1>15

\* The pool closes behind the pipeline.
LEMMA PoolClosesKeeps == IInv /\ PoolCloses => IInv'
<1> SUFFICES ASSUME IInv, PoolCloses PROVE IInv'
  OBVIOUS
<1> USE DEF IInv
<1>1. /\ pc \in {"gone", "threw"} /\ closed' = TRUE
      /\ UNCHANGED <<n, j, fetched, result, failed, phase, inFlight, base, dst, pc>>
  BY DEF PoolCloses, Pool!Close
<1>2. TypeOK'
  BY <1>1 DEF TypeOK, First, Pool!ExecTypeOK
<1>3. Sent' = Sent /\ Delivered' = Delivered
  BY <1>1 DEF Sent, Delivered
<1>4. Position' /\ DequeInOrder' /\ DstInOrder'
  BY <1>1, <1>3 DEF Position, DequeInOrder, First, DstInOrder, Value, ChunkOf
<1>5. \A t \in Tasks : Decoded(t)' = Decoded(t)
  BY <1>1 DEF Decoded, CopySize, First
<1>6. TaskState'
  BY <1>1, <1>3, <1>5 DEF TaskState
<1>7. CallState' /\ Bounded'
  BY <1>1 DEF CallState, Bounded
<1> QED
  BY <1>2, <1>4, <1>6, <1>7

LEMMA StutterKeeps == IInv /\ UNCHANGED vars => IInv'
<1> SUFFICES ASSUME IInv, UNCHANGED vars PROVE IInv'
  OBVIOUS
<1>1. CallState' /\ Bounded'
  BY DEF IInv, vars, poolVars, CallState, Bounded
<1> QED
  BY <1>1, CallStep DEF IInv, TypeOK, vars

LEMMA NextIInv == IInv /\ [Next]_vars => IInv'
<1> SUFFICES ASSUME IInv, [Next]_vars PROVE IInv'
  OBVIOUS
<1>1. CASE Proceed
  BY <1>1, BeginKeeps, FetchKeeps, FetchThrowsKeeps, TakeFrontKeeps, FrontThrowsKeeps,
     PollDoneKeeps, CapDoneKeeps, LoopDoneKeeps, ReadReturnsKeeps, DestroyedKeeps DEF Proceed
<1>2. CASE PoolCloses
  BY <1>2, PoolClosesKeeps
<1>3. CASE \E t \in Tasks : DecodeTask(t)
  BY <1>3, DecodeTaskKeeps
<1>4. CASE Ended \/ UNCHANGED vars
  BY <1>4, StutterKeeps DEF Ended
<1> QED
  BY <1>1, <1>2, <1>3, <1>4 DEF Next

LEMMA SpecIInv == Spec => []IInv
<1> QED
  BY InitIInv, NextIInv, PTL DEF Spec

-----------------------------------------------------------------------------
(* The results. *)

\* The variables have their types, the elements a task delivers fit into the
\* caller's memory among them, and the memory is written inside its bounds.
THEOREM TypeCorrect == Spec => []TypeOK
<1>1. IInv => TypeOK
  BY DEF IInv
<1> QED
  BY <1>1, SpecIInv, PTL

\* Whatever the chunk size, the cap and the order in which the tasks end, each
\* element the caller gets is in its place, nothing behind the read is written,
\* and a read that returns has delivered every element.
THEOREM ReadDelivers == Spec => []ReadIsExact
<1>1. IInv => ReadIsExact
  <2> SUFFICES ASSUME IInv, NEW i \in Slots
               PROVE  /\ i > n => dst[i] = Untouched
                      /\ dst[i] \in {Untouched, Value(i)}
                      /\ pc \in {"returned", "gone"} /\ i <= n => dst[i] # Untouched
    BY DEF ReadIsExact, Value, ChunkOf
  <2> USE ReadAssumption DEF IInv
  <2>1. /\ n \in Nat /\ j \in Nat /\ Sent \in Nat /\ Delivered \in Nat
        /\ j = Sent * ChunkSize
    BY Counters DEF Position
  <2>2. dst[i] = IF ChunkOf(i) <= Delivered /\ i <= n THEN Value(i) ELSE Untouched
    BY DEF DstInOrder
  <2>3. i \in Nat \ {0} /\ Value(i) # Untouched
    BY SlotInChunk DEF Value, Untouched, Garbage, TypeOK
  <2>4. i > n => dst[i] = Untouched
    BY <2>1, <2>2, <2>3
  <2>5. ASSUME pc \in {"returned", "gone"}, i <= n PROVE ChunkOf(i) <= Delivered
    <3>1. inFlight = <<>> /\ j >= n
      BY <2>5 DEF CallState
    <3>2. Delivered = Sent
      BY <2>1, <3>1 DEF Delivered
    <3>3. i - 1 \in Int /\ i - 1 < Sent * ChunkSize
      BY <2>1, <2>3, <2>5, <3>1
    <3> DEFINE d == (i - 1) \div ChunkSize
    <3>4. d \in Int /\ d * ChunkSize <= i - 1
      <4> DEFINE a == i - 1
      <4>1. a \in Int /\ ChunkSize \in Nat \ {0}
        BY <3>3
      <4> HIDE DEF a
      <4>2. a \div ChunkSize \in Int /\ (a \div ChunkSize) * ChunkSize <= a
        BY <4>1, DivIs, DivMod
      <4> QED
        BY <4>2 DEF a
    <3> HIDE DEF d
    <3>5. d + 1 <= Sent
      <4>1. Sent <= d => Sent * ChunkSize <= d * ChunkSize
        BY <2>1, <3>4, TimesMonotone
      <4>2. ~(Sent <= d)
        <5> DEFINE a == Sent * ChunkSize
                   b == d * ChunkSize
        <5>1. a \in Int /\ b \in Int /\ b <= i - 1 /\ i - 1 < a /\ i - 1 \in Int
          BY <2>1, <3>3, <3>4
        <5>2. Sent <= d => a <= b
          BY <4>1
        <5> HIDE DEF a, b
        <5> QED
          BY <5>1, <5>2
      <4> QED
        BY <2>1, <3>4, <4>2
    <3> USE DEF d
    <3> QED
      BY <2>1, <3>2, <3>5 DEF ChunkOf
  <2> QED
    BY <2>2, <2>3, <2>4, <2>5
<1> QED
  BY <1>1, SpecIInv, PTL

\* At most cap_ chunks are held, and none when there is nowhere to copy it, so
\* that the destructor never spins on one.
THEOREM MemoryIsBounded == Spec => []BoundedInFlight
<1>1. IInv => BoundedInFlight
  BY DEF IInv, Bounded, CallState, BoundedInFlight
<1> QED
  BY <1>1, SpecIInv, PTL

=============================================================================
