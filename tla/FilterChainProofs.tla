------------------------- MODULE FilterChainProofs -------------------------
(***************************************************************************)
(* What the direct-chunk path is built from, for every block, chunk,       *)
(* element size and order of filters.                                      *)
(*                                                                         *)
(* First the index arithmetic of split_to_chunk_write and                  *)
(* split_to_chunk_read: the chunks tile the block, the rows of the loops   *)
(* are the rows of the block, and a gather puts, a scatter finds, each     *)
(* element at the place its row and column say.                            *)
(*                                                                         *)
(* Then the filter chain: no chunk outgrows the buffers, and what has been *)
(* applied, skipped or masked on the way out is reversed on the way back.  *)
(*                                                                         *)
(* Induction goes through least elements (LeastNatural).                   *)
(***************************************************************************)
EXTENDS FilterChain, SequenceTheorems, WellFoundedInduction, TLAPS

-----------------------------------------------------------------------------
(* Induction. *)

\* A set of natural numbers that is not empty has a least element.
LEMMA LeastNatural ==
    ASSUME NEW S \in SUBSET Nat, S # {}
    PROVE  \E n \in S : \A m \in S : n <= m
<1> DEFINE Less == {ss \in Nat \X Nat : ss[1] < ss[2]}
<1>1. IsWellFoundedOn(Less, Nat)
    BY NatLessThanWellFounded, Zenon DEF OpToRel
<1> HIDE DEF Less
<1>2. PICK n \in S : \A m \in S : <<m, n>> \notin Less
    BY <1>1, WFMin
<1>3. ASSUME NEW m \in S PROVE n <= m
  <2>1. <<m, n>> \notin Less
      BY <1>2
  <2>2. ~(m < n)
      BY <2>1 DEF Less
  <2> QED
      BY <2>2
<1> QED
    BY <1>3

\* What holds of 0, and of n + 1 when it holds of n, holds up to any bound.
LEMMA InductionUpTo ==
    ASSUME NEW N \in Nat, NEW S, 0 \in S, \A n \in 0 .. N - 1 : n \in S => n + 1 \in S
    PROVE  0 .. N \subseteq S
<1> DEFINE Bad == {n \in 0 .. N : n \notin S}
<1> SUFFICES ASSUME Bad # {} PROVE FALSE
    OBVIOUS
<1>0. Bad \in SUBSET Nat
    OBVIOUS
<1> HIDE DEF Bad
<1>1. PICK n \in Bad : \A m \in Bad : n <= m
    BY <1>0, LeastNatural
<1> USE DEF Bad
<1>2. n # 0 /\ n - 1 \in 0 .. N - 1
    BY <1>1
<1>3. n - 1 \in S
    BY <1>1, <1>2
<1> QED
    BY <1>1, <1>2, <1>3

-----------------------------------------------------------------------------
(* Division. *)

LEMMA DivMod ==
    ASSUME NEW a \in Int, NEW b \in Nat \ {0}
    PROVE  /\ a \div b \in Int /\ a % b \in 0 .. b - 1
           /\ a = (a \div b) * b + (a % b)
OBVIOUS

LEMMA DivModOf ==
    ASSUME NEW q \in Int, NEW b \in Nat \ {0}, NEW r \in 0 .. b - 1
    PROVE  (q * b + r) \div b = q /\ (q * b + r) % b = r
OBVIOUS

LEMMA MulMono ==
    ASSUME NEW x \in Int, NEW y \in Int, NEW b \in Nat, x <= y
    PROVE  x * b <= y * b
OBVIOUS

LEMMA MulNat ==
    ASSUME NEW x \in Nat, NEW y \in Nat
    PROVE  x * y \in Nat
OBVIOUS

\* Quotient and remainder determine a number: the rows of a block do not overlap.
LEMMA DivModUnique ==
    ASSUME NEW q \in Int, NEW p \in Int, NEW b \in Nat \ {0}, NEW r \in 0 .. b - 1, NEW t \in 0 .. b - 1,
           q * b + r = p * b + t
    PROVE  q = p /\ r = t
BY DivModOf

LEMMA DivNat ==
    ASSUME NEW a \in Nat, NEW b \in Nat \ {0}
    PROVE  a \div b \in Nat /\ (a \div b) * b <= a /\ a < (a \div b) * b + b
BY DivMod

LEMMA QuotientIs ==
    ASSUME NEW x \in Int, NEW q \in Int, NEW b \in Nat \ {0}, x - q * b \in 0 .. b - 1
    PROVE  x \div b = q
<1>1. (q * b + (x - q * b)) \div b = q
    BY DivModOf
<1> QED
    BY <1>1

LEMMA DivBound ==
    ASSUME NEW a \in Nat, NEW b \in Nat \ {0}, NEW c \in Nat, a < c * b
    PROVE  a \div b \in 0 .. c - 1
<1>1. a \div b \in Nat /\ (a \div b) * b <= a
    BY DivNat
<1>2. ASSUME c <= a \div b PROVE FALSE
    BY <1>1, <1>2, MulMono
<1> QED
    BY <1>1, <1>2

LEMMA CeilNat ==
    ASSUME NEW n \in Nat, NEW b \in Nat \ {0}
    PROVE  Ceil(n, b) \in Nat
BY DivNat DEF Ceil

\* The chunks that begin in a line of n are the first Ceil(n, b).
LEMMA CeilBound ==
    ASSUME NEW n \in Nat, NEW b \in Nat \ {0}, NEW q \in Nat
    PROVE  q < Ceil(n, b) <=> q * b < n
<1> DEFINE c == Ceil(n, b)
<1>1. c \in Nat /\ c * b <= n + b - 1 /\ n + b - 1 < c * b + b
    BY DivNat DEF Ceil
<1> HIDE DEF c
<1>2. ASSUME q < c PROVE q * b < n
  <2>1. (q + 1) * b <= c * b
      BY <1>1, <1>2, MulMono
  <2>2. (q + 1) * b = q * b + b
      OBVIOUS
  <2> QED
      BY <1>1, <2>1, <2>2, MulNat
<1>3. ASSUME ~(q < c) PROVE ~(q * b < n)
  <2>1. c * b <= q * b
      BY <1>1, <1>3, MulMono
  <2> QED
      BY <1>1, <2>1, MulNat
<1> QED
    BY <1>2, <1>3 DEF c

LEMMA CeilMono ==
    ASSUME NEW n \in Nat, NEW m \in Nat, NEW b \in Nat \ {0}, n <= m
    PROVE  Ceil(n, b) <= Ceil(m, b)
<1>1. ASSUME Ceil(m, b) < Ceil(n, b) PROVE FALSE
  <2>1. Ceil(m, b) * b < n /\ ~(Ceil(m, b) * b < m)
      BY <1>1, CeilNat, CeilBound
  <2> QED
      BY <2>1, CeilNat, MulNat
<1> QED
    BY <1>1, CeilNat

-----------------------------------------------------------------------------
(* Splits. *)

IsSplit(s) ==
    /\ s.rank \in 1 .. MaxRank /\ s.size \in Nat \ {0}
    /\ s.n \in Nat \X Nat \X Nat /\ s.b \in Nat \X Nat \X Nat
    /\ \A d \in 1 .. MaxRank :
          /\ s.b[d] > 0 /\ s.b[d] < Word /\ s.n[d] < Word
          /\ d > s.rank => s.b[d] = 1 /\ s.n[d] = 1

\* The corner of the chunk that is q[d] chunks away from the first in dimension d.
CornerAt(s, q) == <<q[1] * s.b[1], q[2] * s.b[2], q[3] * s.b[3]>>

\* The chunks of a split, by their numbers in each dimension.
Grid(s) == (0 .. Ceil(s.n[1], s.b[1]) - 1) \X (0 .. Ceil(s.n[2], s.b[2]) - 1)
               \X (0 .. Ceil(s.n[3], s.b[3]) - 1)

LEMMA SplitTypes ==
    ASSUME NEW s, IsSplit(s)
    PROVE  /\ s.size \in Nat \ {0}
           /\ s.n[1] \in Nat /\ s.n[2] \in Nat /\ s.n[3] \in Nat
           /\ s.b[1] \in Nat \ {0} /\ s.b[2] \in Nat \ {0} /\ s.b[3] \in Nat \ {0}
           /\ s.n[1] < Word /\ s.b[1] < Word
           /\ s.rank \in {1, 2, 3}
           /\ s.rank = 1 => s.n[2] = 1 /\ s.n[3] = 1 /\ s.b[2] = 1 /\ s.b[3] = 1
BY DEF IsSplit, MaxRank

\* Volume and Linear stay within the block, and tell its elements apart.
LEMMA VolumeNat ==
    ASSUME NEW n \in Nat \X Nat \X Nat
    PROVE  Volume(n) \in Nat
<1>1. n[1] * n[2] \in Nat
    BY MulNat
<1> QED
    BY <1>1, MulNat DEF Volume

LEMMA LinearBelow ==
    ASSUME NEW n \in Nat \X Nat \X Nat, NEW x \in Box(n)
    PROVE  Linear(x, n) \in 0 .. Volume(n) - 1
<1>1. /\ n[1] \in Nat /\ n[2] \in Nat /\ n[3] \in Nat
      /\ x[1] \in 0 .. n[1] - 1 /\ x[2] \in 0 .. n[2] - 1 /\ x[3] \in 0 .. n[3] - 1
    BY DEF Box
<1> DEFINE row == x[3] * n[2] + x[2]
<1>2. row \in Nat /\ row < n[3] * n[2]
  <2>1. (x[3] + 1) * n[2] <= n[3] * n[2]
      BY <1>1, MulMono
  <2>2. (x[3] + 1) * n[2] = x[3] * n[2] + n[2]
      BY <1>1
  <2> QED
      BY <1>1, <2>1, <2>2, MulNat
<1> HIDE DEF row
<1>3. (row + 1) * n[1] <= (n[3] * n[2]) * n[1]
  <2>1. n[3] * n[2] \in Nat
      BY <1>1, MulNat
  <2> QED
      BY <1>1, <1>2, <2>1, MulMono
<1>4. (row + 1) * n[1] = row * n[1] + n[1]
    BY <1>1, <1>2
<1>5. (n[3] * n[2]) * n[1] = n[1] * n[2] * n[3]
    BY <1>1
<1>6. row * n[1] \in Nat
    BY <1>1, <1>2, MulNat
<1>7. Linear(x, n) = row * n[1] + x[1] /\ Volume(n) = n[1] * n[2] * n[3]
    BY DEF Linear, Volume, row
<1> QED
    BY <1>1, <1>3, <1>4, <1>5, <1>6, <1>7

LEMMA LinearInjective ==
    ASSUME NEW n \in Nat \X Nat \X Nat, NEW x \in Box(n), NEW y \in Box(n), Linear(x, n) = Linear(y, n)
    PROVE  x = y
<1>1. /\ n[1] \in Nat \ {0} /\ n[2] \in Nat \ {0} /\ n[3] \in Nat
      /\ x[1] \in 0 .. n[1] - 1 /\ x[2] \in 0 .. n[2] - 1 /\ x[3] \in 0 .. n[3] - 1
      /\ y[1] \in 0 .. n[1] - 1 /\ y[2] \in 0 .. n[2] - 1 /\ y[3] \in 0 .. n[3] - 1
    BY DEF Box
<1> DEFINE p == x[3] * n[2] + x[2]
           q == y[3] * n[2] + y[2]
<1>2. p \in Int /\ q \in Int
    BY <1>1
<1>3. p * n[1] + x[1] = q * n[1] + y[1]
    BY DEF Linear
<1> HIDE DEF p, q
<1>4. p = q /\ x[1] = y[1]
  <2>1. (p * n[1] + x[1]) \div n[1] = p /\ (p * n[1] + x[1]) % n[1] = x[1]
      BY <1>1, <1>2, DivModOf
  <2>2. (q * n[1] + y[1]) \div n[1] = q /\ (q * n[1] + y[1]) % n[1] = y[1]
      BY <1>1, <1>2, DivModOf
  <2> QED
      BY <1>3, <2>1, <2>2
<1>5. x[3] = y[3] /\ x[2] = y[2]
  <2>1. x[3] * n[2] + x[2] = y[3] * n[2] + y[2]
      BY <1>4 DEF p, q
  <2>0. /\ x[3] \in Int /\ y[3] \in Int
        /\ n[2] \in Nat \ {0} /\ x[2] \in 0 .. n[2] - 1 /\ y[2] \in 0 .. n[2] - 1
      BY <1>1
  <2>2. (x[3] * n[2] + x[2]) \div n[2] = x[3] /\ (x[3] * n[2] + x[2]) % n[2] = x[2]
      BY <2>0, DivModOf
  <2>3. (y[3] * n[2] + y[2]) \div n[2] = y[3] /\ (y[3] * n[2] + y[2]) % n[2] = y[2]
      BY <2>0, DivModOf
  <2> QED
      BY <2>1, <2>2, <2>3
<1> QED
    BY <1>4, <1>5 DEF Box

\* One dimension: the chunk an element lies in, and its place there.
LEMMA Along ==
    ASSUME NEW n \in Nat, NEW b \in Nat \ {0}, NEW x \in 0 .. n - 1
    PROVE  /\ x \div b \in 0 .. Ceil(n, b) - 1
           /\ (x \div b) * b \in Nat /\ (x \div b) * b <= x /\ x < (x \div b) * b + b
           /\ x % b \in 0 .. b - 1 /\ x % b = x - (x \div b) * b
<1>1. x \div b \in Nat /\ (x \div b) * b <= x /\ x < (x \div b) * b + b
    BY DivNat
<1>2. x \div b < Ceil(n, b)
    BY <1>1, CeilBound, MulNat
<1>3. x \in Int /\ Ceil(n, b) \in Nat
    BY CeilNat
<1>4. x % b \in 0 .. b - 1 /\ x = (x \div b) * b + (x % b)
    BY <1>3, DivMod
<1>5. (x \div b) * b \in Nat
    BY <1>1, MulNat
<1> QED
    BY <1>1, <1>2, <1>3, <1>4, <1>5

\* Where a chunk begins, and how much of it is in the block.
LEMMA ChunkAlong ==
    ASSUME NEW n \in Nat, NEW b \in Nat \ {0}, NEW q \in 0 .. Ceil(n, b) - 1
    PROVE  /\ q * b \in 0 .. n - 1
           /\ LessOf(b, n - q * b) \in 1 .. b
           /\ LessOf(b, n - q * b) <= n - q * b
           /\ n % b = 0 => LessOf(b, n - q * b) = b
<1>1. q \in Nat /\ q * b < n /\ q * b \in Nat
    BY CeilNat, CeilBound, MulNat
<1>2. ASSUME n % b = 0 PROVE b <= n - q * b
  <2>1. n \div b \in Nat /\ n = (n \div b) * b
    <3>1. n \in Int /\ n \div b \in Nat
        BY DivNat
    <3>2. n = (n \div b) * b + (n % b)
        BY <3>1, DivMod
    <3>3. (n \div b) * b \in Nat
        BY <3>1, MulNat
    <3> QED
        BY <1>2, <3>1, <3>2, <3>3
  <2>2. ASSUME n \div b <= q PROVE FALSE
    <3>1. (n \div b) * b <= q * b
        BY <1>1, <2>1, <2>2, MulMono
    <3> QED
        BY <1>1, <2>1, <3>1
  <2>3. (q + 1) * b <= (n \div b) * b
      BY <1>1, <2>1, <2>2, MulMono
  <2>4. (q + 1) * b = q * b + b
      BY <1>1
  <2> QED
      BY <1>1, <2>1, <2>3, <2>4
<1> QED
    BY <1>1, <1>2 DEF LessOf

LEMMA CeilsNat ==
    ASSUME NEW s, IsSplit(s)
    PROVE  /\ Ceil(s.n[1], s.b[1]) \in Nat
           /\ Ceil(s.n[2], s.b[2]) \in Nat
           /\ Ceil(s.n[3], s.b[3]) \in Nat
BY SplitTypes, CeilNat

\* The loops come to every chunk of the grid, and to nothing else.
LEMMA GridIsReached ==
    ASSUME NEW s, IsSplit(s), NEW q \in Grid(s)
    PROVE  \E k \in 0 .. ChunkCount(s) - 1 : Corner(s, k) = CornerAt(s, q)
<1> DEFINE k1 == Ceil(s.n[1], s.b[1])
           k2 == Ceil(s.n[2], s.b[2])
           k3 == Ceil(s.n[3], s.b[3])
           low == q[2] * k1 + q[1]
           k == (q[3] * k2 + q[2]) * k1 + q[1]
<1>1. /\ q[1] \in 0 .. k1 - 1 /\ q[2] \in 0 .. k2 - 1 /\ q[3] \in 0 .. k3 - 1
      /\ ChunkCount(s) = k1 * k2 * k3
    BY DEF Grid, ChunkCount
<1>2. /\ k1 \in Nat \ {0} /\ k2 \in Nat \ {0} /\ k3 \in Nat \ {0}
      /\ q[1] \in Nat /\ q[2] \in Nat /\ q[3] \in Nat
    BY <1>1, CeilsNat
<1>3. Corner(s, k) = <<(k % k1) * s.b[1], ((k \div k1) % k2) * s.b[2], (k \div (k1 * k2)) * s.b[3]>>
    BY DEF Corner
<1> HIDE DEF k1, k2, k3
<1>4. /\ k % k1 = q[1] /\ k \div k1 = q[3] * k2 + q[2]
      /\ (q[3] * k2 + q[2]) % k2 = q[2]
  <2> DEFINE high == q[3] * k2 + q[2]
  <2>1. high \in Int /\ q[3] \in Int
      BY <1>2
  <2>2. high % k2 = q[2]
    <3>1. k2 \in Nat \ {0} /\ q[2] \in 0 .. k2 - 1 /\ q[3] \in Int
        BY <1>1, <1>2
    <3> QED
        BY <3>1, DivModOf
  <2> HIDE DEF high
  <2>3. (high * k1 + q[1]) % k1 = q[1] /\ (high * k1 + q[1]) \div k1 = high
    <3>1. k1 \in Nat \ {0} /\ q[1] \in 0 .. k1 - 1
        BY <1>1, <1>2
    <3> QED
        BY <2>1, <3>1, DivModOf
  <2> QED
      BY <2>2, <2>3 DEF high
<1>5. k1 * k2 \in Nat \ {0} /\ low \in 0 .. k1 * k2 - 1
  <2>1. (q[2] + 1) * k1 <= k2 * k1
      BY <1>1, <1>2, MulMono
  <2>2. (q[2] + 1) * k1 = q[2] * k1 + k1
      BY <1>2
  <2> QED
      BY <1>1, <1>2, <2>1, <2>2, MulNat
<1>6. k = q[3] * (k1 * k2) + low
    BY <1>2
<1>7. k \div (k1 * k2) = q[3]
  <2> HIDE DEF low, k
  <2> QED
      BY <1>2, <1>5, <1>6, DivModOf
<1>8. k \in 0 .. ChunkCount(s) - 1
  <2>1. (q[3] + 1) * (k1 * k2) <= k3 * (k1 * k2)
      BY <1>1, <1>2, <1>5, MulMono
  <2>2. (q[3] + 1) * (k1 * k2) = q[3] * (k1 * k2) + k1 * k2 /\ k3 * (k1 * k2) = k1 * k2 * k3
      BY <1>2
  <2>3. q[3] * (k1 * k2) \in Nat
      BY <1>2, <1>5, MulNat
  <2>4. ChunkCount(s) = k1 * k2 * k3 /\ k1 * k2 * k3 \in Nat
      BY <1>1, <1>2, <1>5, MulNat
  <2> HIDE DEF low, k
  <2> QED
      BY <1>5, <1>6, <2>1, <2>2, <2>3, <2>4
<1>9. Corner(s, k) = CornerAt(s, q)
    BY <1>3, <1>4, <1>7 DEF CornerAt
<1> QED
    BY <1>8, <1>9

LEMMA ReachedIsGrid ==
    ASSUME NEW s, IsSplit(s), NEW k \in 0 .. ChunkCount(s) - 1
    PROVE  \E q \in Grid(s) : Corner(s, k) = CornerAt(s, q)
<1> DEFINE k1 == Ceil(s.n[1], s.b[1])
           k2 == Ceil(s.n[2], s.b[2])
           k3 == Ceil(s.n[3], s.b[3])
           q == <<k % k1, (k \div k1) % k2, k \div (k1 * k2)>>
<1>1. k1 \in Nat /\ k2 \in Nat /\ k3 \in Nat /\ ChunkCount(s) = k1 * k2 * k3 /\ k \in Nat
    BY CeilsNat DEF ChunkCount
<1>2. Corner(s, k) = CornerAt(s, q)
    BY DEF Corner, CornerAt
<1>3. Grid(s) = (0 .. k1 - 1) \X (0 .. k2 - 1) \X (0 .. k3 - 1)
    BY DEF Grid
<1> HIDE DEF k1, k2, k3
<1>4. k < k1 * k2 * k3
    BY <1>1
<1>5. k1 # 0 /\ k2 # 0
    BY <1>1, <1>4
<1>6. k % k1 \in 0 .. k1 - 1 /\ k \div k1 \in Int
    BY <1>1, <1>5, DivMod
<1>7. (k \div k1) % k2 \in 0 .. k2 - 1
    BY <1>1, <1>5, <1>6, DivMod
<1>8. k \div (k1 * k2) \in 0 .. k3 - 1
  <2>1. k1 * k2 \in Nat \ {0} /\ k1 * k2 * k3 = k3 * (k1 * k2)
      BY <1>1, <1>5
  <2> QED
      BY <1>1, <1>4, <2>1, DivBound
<1> QED
    BY <1>2, <1>3, <1>6, <1>7, <1>8

\* Every element of the block lies in a chunk the loops come to.
LEMMA CornerOfIs ==
    ASSUME NEW s, IsSplit(s), NEW x \in Box(s.n)
    PROVE  LET q == <<x[1] \div s.b[1], x[2] \div s.b[2], x[3] \div s.b[3]>> IN
           q \in Grid(s) /\ CornerOf(s, x) = CornerAt(s, q)
<1> DEFINE q == <<x[1] \div s.b[1], x[2] \div s.b[2], x[3] \div s.b[3]>>
<1>1. x[1] \in 0 .. s.n[1] - 1 /\ x[2] \in 0 .. s.n[2] - 1 /\ x[3] \in 0 .. s.n[3] - 1
    BY DEF Box
<1>2. q \in Grid(s)
    BY <1>1, SplitTypes, Along DEF Grid
<1>3. CornerOf(s, x) = CornerAt(s, q)
    BY DEF CornerOf, CornerAt, MaxRank
<1> QED
    BY <1>2, <1>3

-----------------------------------------------------------------------------
(* Rows. *)

\* j is the corner of a chunk of the split.
IsCorner(s, j) == \E q \in Grid(s) : j = CornerAt(s, q)

\* The row of the loops that element x is in, and its place in the chunk.
RowOf(s, j, x) == (x[3] - j[3]) * Height(s, j, 2) + (x[2] - j[2])

Slot(s, j, x) == RowPlace(s, RowOf(s, j, x)) + (x[1] - j[1])

\* A chunk along dimension d.
LEMMA HeightAlong ==
    ASSUME NEW s, NEW j, NEW d, NEW q, s.n[d] \in Nat, s.b[d] \in Nat \ {0},
           q \in 0 .. Ceil(s.n[d], s.b[d]) - 1, j[d] = q * s.b[d]
    PROVE  /\ j[d] \in 0 .. s.n[d] - 1
           /\ Height(s, j, d) \in 1 .. s.b[d] /\ Height(s, j, d) <= s.n[d] - j[d]
           /\ s.n[d] % s.b[d] = 0 => Height(s, j, d) = s.b[d]
<1> DEFINE n == s.n[d]
           b == s.b[d]
<1>1. Height(s, j, d) = LessOf(b, n - q * b) /\ j[d] = q * b
    BY DEF Height
<1>2. n \in Nat /\ b \in Nat \ {0} /\ q \in 0 .. Ceil(n, b) - 1
    OBVIOUS
<1> HIDE DEF n, b
<1>3. /\ q * b \in 0 .. n - 1 /\ LessOf(b, n - q * b) \in 1 .. b
      /\ LessOf(b, n - q * b) <= n - q * b
      /\ n % b = 0 => LessOf(b, n - q * b) = b
    BY <1>2, ChunkAlong
<1>4. /\ j[d] \in 0 .. n - 1 /\ Height(s, j, d) \in 1 .. b /\ Height(s, j, d) <= n - j[d]
      /\ n % b = 0 => Height(s, j, d) = b
    BY <1>1, <1>3
<1> QED
    BY <1>4 DEF n, b

\* Each chunk has a part of the block, never more than a chunk.
LEMMA CornerHeights ==
    ASSUME NEW s, IsSplit(s), NEW j, IsCorner(s, j)
    PROVE  /\ j[1] \in 0 .. s.n[1] - 1 /\ j[2] \in 0 .. s.n[2] - 1 /\ j[3] \in 0 .. s.n[3] - 1
           /\ Height(s, j, 1) \in 1 .. s.b[1] /\ Height(s, j, 1) <= s.n[1] - j[1]
           /\ Height(s, j, 2) \in 1 .. s.b[2] /\ Height(s, j, 2) <= s.n[2] - j[2]
           /\ Height(s, j, 3) \in 1 .. s.b[3] /\ Height(s, j, 3) <= s.n[3] - j[3]
           /\ s.n[2] % s.b[2] = 0 => Height(s, j, 2) = s.b[2]
           /\ RowCount(s, j) \in Nat
<1>1. PICK q \in Grid(s) : j = CornerAt(s, q)
    BY DEF IsCorner
<1>2. /\ q[1] \in 0 .. Ceil(s.n[1], s.b[1]) - 1
      /\ q[2] \in 0 .. Ceil(s.n[2], s.b[2]) - 1
      /\ q[3] \in 0 .. Ceil(s.n[3], s.b[3]) - 1
    BY DEF Grid
<1>3. j[1] = q[1] * s.b[1] /\ j[2] = q[2] * s.b[2] /\ j[3] = q[3] * s.b[3]
    BY <1>1 DEF CornerAt
<1>4. /\ j[1] \in 0 .. s.n[1] - 1 /\ Height(s, j, 1) \in 1 .. s.b[1]
      /\ Height(s, j, 1) <= s.n[1] - j[1]
  <2>1. s.n[1] \in Nat /\ s.b[1] \in Nat \ {0}
      BY SplitTypes
  <2> QED
      BY <1>2, <1>3, <2>1, HeightAlong
<1>5. /\ j[2] \in 0 .. s.n[2] - 1 /\ Height(s, j, 2) \in 1 .. s.b[2]
      /\ Height(s, j, 2) <= s.n[2] - j[2]
      /\ s.n[2] % s.b[2] = 0 => Height(s, j, 2) = s.b[2]
  <2>1. s.n[2] \in Nat /\ s.b[2] \in Nat \ {0}
      BY SplitTypes
  <2> QED
      BY <1>2, <1>3, <2>1, HeightAlong
<1>6. /\ j[3] \in 0 .. s.n[3] - 1 /\ Height(s, j, 3) \in 1 .. s.b[3]
      /\ Height(s, j, 3) <= s.n[3] - j[3]
  <2>1. s.n[3] \in Nat /\ s.b[3] \in Nat \ {0}
      BY SplitTypes
  <2> QED
      BY <1>2, <1>3, <2>1, HeightAlong
<1>7. RowCount(s, j) \in Nat
  <2>1. Height(s, j, 2) \in Nat /\ Height(s, j, 3) \in Nat
      BY <1>5, <1>6, SplitTypes
  <2> QED
      BY <2>1, MulNat DEF RowCount
<1> QED
    BY <1>4, <1>5, <1>6, <1>7

\* An element lies in its chunk, before the end of the block.
LEMMA InChunk ==
    ASSUME NEW s, IsSplit(s), NEW x \in Box(s.n), NEW j, j = CornerOf(s, x)
    PROVE  /\ IsCorner(s, j)
           /\ x[1] - j[1] \in 0 .. Height(s, j, 1) - 1 /\ x[1] % s.b[1] = x[1] - j[1]
           /\ x[2] - j[2] \in 0 .. Height(s, j, 2) - 1 /\ x[2] % s.b[2] = x[2] - j[2]
           /\ x[3] - j[3] \in 0 .. Height(s, j, 3) - 1 /\ x[3] % s.b[3] = x[3] - j[3]
<1> DEFINE q == <<x[1] \div s.b[1], x[2] \div s.b[2], x[3] \div s.b[3]>>
<1>1. q \in Grid(s) /\ j = CornerAt(s, q)
    BY CornerOfIs
<1>2. IsCorner(s, j)
    BY <1>1 DEF IsCorner
<1>3. /\ j[1] = (x[1] \div s.b[1]) * s.b[1]
      /\ j[2] = (x[2] \div s.b[2]) * s.b[2]
      /\ j[3] = (x[3] \div s.b[3]) * s.b[3]
    BY <1>1 DEF CornerAt
<1> HIDE DEF q
<1>4. x[1] \in 0 .. s.n[1] - 1 /\ x[2] \in 0 .. s.n[2] - 1 /\ x[3] \in 0 .. s.n[3] - 1
    BY DEF Box
<1>5. j[1] \in Nat /\ j[1] <= x[1] /\ x[1] < j[1] + s.b[1] /\ x[1] % s.b[1] = x[1] - j[1]
  <2>1. s.n[1] \in Nat /\ s.b[1] \in Nat \ {0}
      BY SplitTypes
  <2> DEFINE c == (x[1] \div s.b[1]) * s.b[1]
  <2>2. c \in Nat /\ c <= x[1] /\ x[1] < c + s.b[1] /\ x[1] % s.b[1] = x[1] - c
      BY <1>4, <2>1, Along
  <2>3. j[1] = c
      BY <1>3
  <2> HIDE DEF c
  <2> QED
      BY <2>2, <2>3
<1>6. j[2] \in Nat /\ j[2] <= x[2] /\ x[2] < j[2] + s.b[2] /\ x[2] % s.b[2] = x[2] - j[2]
  <2>1. s.n[2] \in Nat /\ s.b[2] \in Nat \ {0}
      BY SplitTypes
  <2> DEFINE c == (x[2] \div s.b[2]) * s.b[2]
  <2>2. c \in Nat /\ c <= x[2] /\ x[2] < c + s.b[2] /\ x[2] % s.b[2] = x[2] - c
      BY <1>4, <2>1, Along
  <2>3. j[2] = c
      BY <1>3
  <2> HIDE DEF c
  <2> QED
      BY <2>2, <2>3
<1>7. j[3] \in Nat /\ j[3] <= x[3] /\ x[3] < j[3] + s.b[3] /\ x[3] % s.b[3] = x[3] - j[3]
  <2>1. s.n[3] \in Nat /\ s.b[3] \in Nat \ {0}
      BY SplitTypes
  <2> DEFINE c == (x[3] \div s.b[3]) * s.b[3]
  <2>2. c \in Nat /\ c <= x[3] /\ x[3] < c + s.b[3] /\ x[3] % s.b[3] = x[3] - c
      BY <1>4, <2>1, Along
  <2>3. j[3] = c
      BY <1>3
  <2> HIDE DEF c
  <2> QED
      BY <2>2, <2>3
<1> QED
    BY <1>2, <1>4, <1>5, <1>6, <1>7, SplitTypes DEF Height, LessOf

\* The converse: what lies between the corner and the height is in the chunk.
LEMMA CornerOfPart ==
    ASSUME NEW s, IsSplit(s), NEW j, IsCorner(s, j), NEW x \in Box(s.n),
           x[1] - j[1] \in 0 .. s.b[1] - 1, x[2] - j[2] \in 0 .. s.b[2] - 1, x[3] - j[3] \in 0 .. s.b[3] - 1
    PROVE  CornerOf(s, x) = j
<1>1. PICK q \in Grid(s) : j = CornerAt(s, q)
    BY DEF IsCorner
<1>2. j = <<q[1] * s.b[1], q[2] * s.b[2], q[3] * s.b[3]>>
    BY <1>1 DEF CornerAt
<1>3. q[1] \in Int /\ q[2] \in Int /\ q[3] \in Int
    BY CeilsNat DEF Grid
<1>4. x[1] \in Int /\ x[2] \in Int /\ x[3] \in Int
    BY DEF Box
<1>5. x[1] \div s.b[1] = q[1]
  <2>1. x[1] - q[1] * s.b[1] \in 0 .. s.b[1] - 1 /\ s.b[1] \in Nat \ {0}
      BY <1>2, SplitTypes
  <2> QED
      BY <1>3, <1>4, <2>1, QuotientIs
<1>6. x[2] \div s.b[2] = q[2]
  <2>1. x[2] - q[2] * s.b[2] \in 0 .. s.b[2] - 1 /\ s.b[2] \in Nat \ {0}
      BY <1>2, SplitTypes
  <2> QED
      BY <1>3, <1>4, <2>1, QuotientIs
<1>7. x[3] \div s.b[3] = q[3]
  <2>1. x[3] - q[3] * s.b[3] \in 0 .. s.b[3] - 1 /\ s.b[3] \in Nat \ {0}
      BY <1>2, SplitTypes
  <2> QED
      BY <1>3, <1>4, <2>1, QuotientIs
<1> QED
    BY <1>2, <1>5, <1>6, <1>7 DEF CornerOf, MaxRank

\* A place in a row: r and c from r * w + c.
LEMMA PlaceBelow ==
    ASSUME NEW r \in Nat, NEW m \in Nat, NEW w \in Nat, NEW c \in Nat, r < m, c < w
    PROVE  r * w + c < m * w /\ r * w + c \in Nat
<1>1. (r + 1) * w <= m * w
    BY MulMono
<1>2. (r + 1) * w = r * w + w
    OBVIOUS
<1>3. r * w \in Nat /\ m * w \in Nat
    BY MulNat
<1> QED
    BY <1>1, <1>2, <1>3

\* The loops come to the row an element is in, and find its place in the block.
LEMMA RowIsReached ==
    ASSUME NEW s, IsSplit(s), NEW x \in Box(s.n), NEW j, j = CornerOf(s, x)
    PROVE  /\ RowOf(s, j, x) \in 0 .. RowCount(s, j) - 1
           /\ RowOf(s, j, x) < s.b[2] * s.b[3]
           /\ RowStart(s, j, RowOf(s, j, x)) + (x[1] - j[1]) = Linear(x, s.n)
<1> DEFINE h == Height(s, j, 2)
           y2 == x[2] - j[2]
           y3 == x[3] - j[3]
           r == y3 * h + y2
<1>1. /\ IsCorner(s, j) /\ y2 \in 0 .. h - 1 /\ y3 \in 0 .. Height(s, j, 3) - 1
    BY InChunk
<1>2. h \in 1 .. s.b[2] /\ Height(s, j, 3) \in 1 .. s.b[3] /\ s.b[2] \in Nat /\ s.b[3] \in Nat
    BY <1>1, CornerHeights, SplitTypes
<1>3. RowOf(s, j, x) = r
    BY DEF RowOf
<1>4. r \in Nat /\ r < Height(s, j, 3) * h
  <2> HIDE DEF h, y2, y3
  <2> QED
      BY <1>1, <1>2, PlaceBelow
<1>5. RowCount(s, j) = Height(s, j, 3) * h
    BY <1>2 DEF RowCount
<1>6. Height(s, j, 3) * h <= s.b[2] * s.b[3]
  <2> HIDE DEF h
  <2>1. Height(s, j, 3) * h <= s.b[3] * h /\ h * s.b[3] <= s.b[2] * s.b[3]
      BY <1>2, MulMono
  <2> QED
      BY <1>2, <2>1
<1>7. r % h = y2 /\ r \div h = y3
  <2>1. y3 \in Int /\ h \in Nat \ {0}
      BY <1>1, <1>2
  <2> HIDE DEF h, y2, y3
  <2> QED
      BY <1>1, <2>1, DivModOf
<1>8. x[1] \in Int /\ x[2] \in Int /\ x[3] \in Int /\ j[1] \in Int /\ j[2] \in Int /\ j[3] \in Int
    BY <1>1, CornerHeights DEF Box
<1>9. RowStart(s, j, r) = Linear(<<j[1], x[2], x[3]>>, s.n)
  <2>1. j[2] + (r % h) = x[2] /\ j[3] + (r \div h) = x[3]
      BY <1>7, <1>8
  <2>2. RowStart(s, j, r) = Linear(<<j[1], j[2] + (r % h), j[3] + (r \div h)>>, s.n)
      BY DEF RowStart
  <2> QED
      BY <2>1, <2>2
<1>10. Linear(<<j[1], x[2], x[3]>>, s.n) + (x[1] - j[1]) = Linear(x, s.n)
  <2>1. s.n[1] \in Nat /\ s.n[2] \in Nat
      BY SplitTypes
  <2>2. ((x[3] * s.n[2]) + x[2]) * s.n[1] \in Int
      BY <1>8, <2>1
  <2> QED
      BY <1>8, <2>2 DEF Linear
<1> QED
    BY <1>2, <1>3, <1>4, <1>5, <1>6, <1>9, <1>10, MulNat

\* What a row of the loops is in the block.
RowHead(s, j, r) == <<j[1], j[2] + (r % Height(s, j, 2)), j[3] + (r \div Height(s, j, 2))>>

LEMMA RowHeadIn ==
    ASSUME NEW s, IsSplit(s), NEW j, IsCorner(s, j), NEW r \in 0 .. RowCount(s, j) - 1
    PROVE  /\ RowHead(s, j, r) \in Box(s.n)
           /\ RowStart(s, j, r) = Linear(RowHead(s, j, r), s.n)
           /\ r % Height(s, j, 2) \in 0 .. Height(s, j, 2) - 1
           /\ r \div Height(s, j, 2) \in 0 .. Height(s, j, 3) - 1
           /\ r = (r \div Height(s, j, 2)) * Height(s, j, 2) + (r % Height(s, j, 2))
<1> DEFINE h == Height(s, j, 2)
<1>1. /\ j[1] \in 0 .. s.n[1] - 1 /\ j[2] \in 0 .. s.n[2] - 1 /\ j[3] \in 0 .. s.n[3] - 1
      /\ h \in Nat \ {0} /\ h <= s.n[2] - j[2]
      /\ Height(s, j, 3) \in Nat \ {0} /\ Height(s, j, 3) <= s.n[3] - j[3]
      /\ RowCount(s, j) \in Nat /\ s.n[2] \in Nat /\ s.n[3] \in Nat
    BY CornerHeights, SplitTypes
<1>2. RowCount(s, j) = Height(s, j, 3) * h
    BY <1>1 DEF RowCount
<1>3. RowStart(s, j, r) = Linear(RowHead(s, j, r), s.n)
    BY DEF RowStart, RowHead
<1> HIDE DEF h
<1>4. r \in Nat /\ r < Height(s, j, 3) * h
    BY <1>1, <1>2
<1>5. r % h \in 0 .. h - 1 /\ r = (r \div h) * h + (r % h)
  <2>1. r \in Int
      OBVIOUS
  <2> QED
      BY <1>1, <2>1, DivMod
<1>6. r \div h \in 0 .. Height(s, j, 3) - 1
    BY <1>1, <1>4, DivBound
<1>7. RowHead(s, j, r) = <<j[1], j[2] + (r % h), j[3] + (r \div h)>>
    BY DEF RowHead, h
<1>8. j[2] + (r % h) \in 0 .. s.n[2] - 1 /\ j[3] + (r \div h) \in 0 .. s.n[3] - 1
    BY <1>1, <1>5, <1>6
<1>9. RowHead(s, j, r) \in Box(s.n)
    BY <1>1, <1>7, <1>8 DEF Box
<1> QED
    BY <1>3, <1>5, <1>6, <1>9 DEF h

\* The part of a row that is in the block does not reach the next row.
LEMMA RowEnds ==
    ASSUME NEW n \in Nat \X Nat \X Nat, NEW x \in Box(n), NEW l \in Nat, l <= n[1] - x[1]
    PROVE  Linear(x, n) + l <= Volume(n)
<1>1. /\ n[1] \in Nat \ {0} /\ n[2] \in Nat /\ n[3] \in Nat
      /\ x[1] \in 0 .. n[1] - 1 /\ x[2] \in 0 .. n[2] - 1 /\ x[3] \in 0 .. n[3] - 1
    BY DEF Box
<1> DEFINE last == <<n[1] - 1, x[2], x[3]>>
<1>2. last \in Box(n)
    BY <1>1 DEF Box
<1>3. Linear(last, n) < Volume(n)
    BY <1>2, LinearBelow, VolumeNat
<1>4. ((x[3] * n[2]) + x[2]) * n[1] \in Int
    BY <1>1
<1>5. Linear(last, n) = Linear(x, n) + (n[1] - 1 - x[1])
    BY <1>1, <1>4 DEF Linear
<1> QED
    BY <1>1, <1>3, <1>5, LinearBelow, VolumeNat

\* A row of another chunk, or another row of the same one, has no element of this one.
LEMMA RowHits ==
    ASSUME NEW s, IsSplit(s), NEW j, IsCorner(s, j), NEW r \in 0 .. RowCount(s, j) - 1,
           NEW x \in Box(s.n), RowStart(s, j, r) <= Linear(x, s.n),
           Linear(x, s.n) < RowStart(s, j, r) + Height(s, j, 1)
    PROVE  CornerOf(s, x) = j /\ RowOf(s, j, x) = r
<1> DEFINE y == RowHead(s, j, r)
           c == Linear(x, s.n) - RowStart(s, j, r)
           z == <<j[1] + c, y[2], y[3]>>
<1>1. y \in Box(s.n) /\ RowStart(s, j, r) = Linear(y, s.n) /\ y[1] = j[1]
    BY RowHeadIn DEF RowHead
<1>2. /\ j[1] \in 0 .. s.n[1] - 1 /\ Height(s, j, 1) \in 1 .. s.b[1] /\ Height(s, j, 1) <= s.n[1] - j[1]
      /\ s.n \in Nat \X Nat \X Nat
    BY CornerHeights DEF IsSplit
<1>3. c \in 0 .. Height(s, j, 1) - 1
    BY <1>1, <1>2, LinearBelow, VolumeNat
<1> HIDE DEF c, y
<1>4. z \in Box(s.n)
    BY <1>1, <1>2, <1>3, SplitTypes DEF Box
<1>5. Linear(z, s.n) = Linear(y, s.n) + c
  <2>1. y[2] \in Int /\ y[3] \in Int /\ s.n[1] \in Int /\ s.n[2] \in Int /\ c \in Int /\ j[1] \in Int
      BY <1>1, <1>2, <1>3, SplitTypes DEF Box
  <2>2. ((y[3] * s.n[2]) + y[2]) * s.n[1] \in Int
      BY <2>1
  <2> QED
      BY <1>1, <2>1, <2>2 DEF Linear
<1>6. Linear(z, s.n) = Linear(x, s.n)
  <2>1. Linear(x, s.n) \in Int /\ Linear(y, s.n) \in Int
      BY <1>1, <1>2, LinearBelow, VolumeNat
  <2> QED
      BY <1>1, <1>5, <2>1 DEF c
<1>7. x = z
    BY <1>2, <1>4, <1>6, LinearInjective
<1> DEFINE h == Height(s, j, 2)
<1>8. /\ y[2] = j[2] + (r % h) /\ y[3] = j[3] + (r \div h)
      /\ r % h \in 0 .. h - 1 /\ r \div h \in 0 .. Height(s, j, 3) - 1 /\ r = (r \div h) * h + (r % h)
    BY RowHeadIn DEF RowHead, y
<1>9. /\ j[2] \in Int /\ j[3] \in Int /\ h \in 1 .. s.b[2] /\ Height(s, j, 3) \in 1 .. s.b[3]
      /\ s.b[1] \in Int /\ s.b[2] \in Int /\ s.b[3] \in Int
    BY CornerHeights, SplitTypes
<1> HIDE DEF h
<1>10. x[1] - j[1] = c /\ x[2] - j[2] = r % h /\ x[3] - j[3] = r \div h
    BY <1>2, <1>3, <1>7, <1>8, <1>9
<1>11. CornerOf(s, x) = j
  <2>1. /\ x[1] - j[1] \in 0 .. s.b[1] - 1
        /\ x[2] - j[2] \in 0 .. s.b[2] - 1
        /\ x[3] - j[3] \in 0 .. s.b[3] - 1
      BY <1>2, <1>3, <1>8, <1>9, <1>10
  <2> QED
      BY <2>1, CornerOfPart
<1>12. RowOf(s, j, x) = r
    BY <1>8, <1>10 DEF RowOf, h
<1> QED
    BY <1>11, <1>12

-----------------------------------------------------------------------------
(* Buffers. *)

\* c is a sequence of n bytes.
IsBuffer(c, n) == c = [k \in 1 .. n |-> c[k]]

LEMMA BufferLen ==
    ASSUME NEW n \in Nat, NEW c, IsBuffer(c, n)
    PROVE  Len(c) = n /\ DOMAIN c = 1 .. n /\ c \in Seq({c[k] : k \in 1 .. n})
BY DEF IsBuffer

\* Buffers with the same bytes are the same.
LEMMA BufferEqual ==
    ASSUME NEW n \in Nat, NEW c, NEW d, IsBuffer(c, n), IsBuffer(d, n), \A k \in 1 .. n : c[k] = d[k]
    PROVE  c = d
<1>1. [k \in 1 .. n |-> c[k]] = [k \in 1 .. n |-> d[k]]
    OBVIOUS
<1> QED
    BY <1>1 DEF IsBuffer

\* A name for the provers, which take c \o d apart otherwise.
Joined(c, d) == c \o d

LEMMA JoinedIs ==
    ASSUME NEW m \in Nat, NEW l \in Nat, NEW c, NEW d, IsBuffer(c, m), IsBuffer(d, l)
    PROVE  /\ IsBuffer(Joined(c, d), m + l)
           /\ \A k \in 1 .. m : Joined(c, d)[k] = c[k]
           /\ \A k \in 1 .. l : Joined(c, d)[m + k] = d[k]
<1> DEFINE S == {c[k] : k \in 1 .. m} \cup {d[k] : k \in 1 .. l}
<1>1. Len(c) = m /\ Len(d) = l /\ c \in Seq(S) /\ d \in Seq(S)
  <2>1. c \in [1 .. m -> S] /\ d \in [1 .. l -> S]
      BY DEF IsBuffer
  <2> HIDE DEF S
  <2> QED
      BY <2>1, BufferLen, IsASeq
<1> HIDE DEF S
<1>2. /\ Joined(c, d) \in Seq(S) /\ Len(Joined(c, d)) = m + l
      /\ \A k \in 1 .. m + l : Joined(c, d)[k] = IF k <= m THEN c[k] ELSE d[k - m]
    BY <1>1, ConcatProperties DEF Joined
<1>3. Joined(c, d) \in [1 .. m + l -> S]
    BY <1>2, LenProperties
<1>4. ASSUME NEW k \in 1 .. l PROVE Joined(c, d)[m + k] = d[k]
  <2>1. m + k \in 1 .. m + l /\ ~(m + k <= m) /\ (m + k) - m = k
      OBVIOUS
  <2> QED
      BY <1>2, <2>1
<1>5. \A k \in 1 .. m : Joined(c, d)[k] = c[k]
    BY <1>2
<1>6. IsBuffer(Joined(c, d), m + l)
    BY <1>3 DEF IsBuffer
<1> QED
    BY <1>4, <1>5, <1>6

\* What a copy to the front of a buffer leaves behind it.
LEMMA PutIs ==
    ASSUME NEW n \in Nat, NEW m \in Nat, m <= n, NEW c, NEW d, IsBuffer(c, n), IsBuffer(d, m)
    PROVE  /\ IsBuffer(Put(c, d), n)
           /\ \A k \in 1 .. m : Put(c, d)[k] = d[k]
           /\ \A k \in m + 1 .. n : Put(c, d)[k] = c[k]
<1>1. Len(c) = n /\ Len(d) = m
    BY BufferLen
<1> DEFINE rest == SubSeq(c, m + 1, n)
           l == n - m
<1>2. rest = [k \in 1 .. l |-> c[k + m]]
    OBVIOUS
<1>3. Put(c, d) = Joined(d, rest)
    BY <1>1 DEF Put, Joined
<1>4. l \in Nat /\ m + l = n
    OBVIOUS
<1>5. IsBuffer(rest, l) /\ \A k \in 1 .. l : rest[k] = c[k + m]
    BY <1>2 DEF IsBuffer
<1> HIDE DEF rest, l
<1>6. /\ IsBuffer(Joined(d, rest), m + l)
      /\ \A k \in 1 .. m : Joined(d, rest)[k] = d[k]
      /\ \A k \in 1 .. l : Joined(d, rest)[m + k] = rest[k]
    BY <1>4, <1>5, JoinedIs
<1>7. ASSUME NEW k \in m + 1 .. n PROVE Put(c, d)[k] = c[k]
  <2>1. k - m \in 1 .. l /\ m + (k - m) = k /\ (k - m) + m = k
      BY <1>4
  <2> QED
      BY <1>3, <1>5, <1>6, <2>1
<1> QED
    BY <1>3, <1>4, <1>6, <1>7

LEMMA SubSeqIs ==
    ASSUME NEW c, NEW i \in Int, NEW k \in Int
    PROVE  SubSeq(c, i, k) = [l \in 1 .. k - i + 1 |-> c[l + i - 1]]
OBVIOUS

LEMMA BufferDomain ==
    ASSUME NEW n \in Nat, NEW c, IsBuffer(c, n)
    PROVE  DOMAIN c = 1 .. n
BY DEF IsBuffer

-----------------------------------------------------------------------------
(* The lengths of the rows. *)

\* N % B is the part of a chunk's rows that is in the block, for every chunk.
LEMMA ReadRow ==
    ASSUME NEW s, IsSplit(s), NEW j, IsCorner(s, j)
    PROVE  RowLength(s, j, ReadEdge(s)) = Height(s, j, 1)
<1>1. PICK q \in Grid(s) : j = CornerAt(s, q)
    BY DEF IsCorner
<1> DEFINE n == s.n[1]
           b == s.b[1]
           p == q[1]
<1>2. n \in Nat /\ b \in Nat \ {0} /\ p \in 0 .. Ceil(n, b) - 1 /\ j[1] = p * b
    BY <1>1, SplitTypes DEF Grid, CornerAt
<1>3. /\ RowLength(s, j, ReadEdge(s)) = IF p * b # n - (n % b) THEN b ELSE n % b
      /\ Height(s, j, 1) = IF b < n - p * b THEN b ELSE n - p * b
    BY <1>2 DEF RowLength, ReadEdge, Height, LessOf
<1> HIDE DEF n, b, p
<1>4. /\ n \in Int /\ n \div b \in Nat /\ n % b \in 0 .. b - 1 /\ n = (n \div b) * b + (n % b)
      /\ p * b \in 0 .. n - 1 /\ p \in Nat
  <2>1. n \in Int /\ n \div b \in Nat
      BY <1>2, DivNat
  <2>2. n % b \in 0 .. b - 1 /\ n = (n \div b) * b + (n % b)
      BY <1>2, <2>1, DivMod
  <2>3. p \in Nat
      BY <1>2, CeilNat
  <2> QED
      BY <1>2, <2>1, <2>2, <2>3, ChunkAlong
<1>5. CASE p = n \div b
  <2>1. p * b = n - (n % b)
      BY <1>2, <1>4, <1>5
  <2> QED
      BY <1>2, <1>3, <1>4, <2>1
<1>6. CASE p < n \div b
  <2>1. (p + 1) * b <= (n \div b) * b
      BY <1>2, <1>4, <1>6, MulMono
  <2>2. (p + 1) * b = p * b + b
      BY <1>2, <1>4
  <2>3. (n \div b) * b \in Nat
      BY <1>2, <1>4, MulNat
  <2>4. b <= n - p * b /\ p * b # n - (n % b)
      BY <1>2, <1>4, <2>1, <2>2, <2>3
  <2> QED
      BY <1>2, <1>3, <1>4, <2>4
<1>7. ~(n \div b < p)
  <2> SUFFICES ASSUME n \div b < p PROVE FALSE
      OBVIOUS
  <2>1. ((n \div b) + 1) * b <= p * b
      BY <1>2, <1>4, MulMono
  <2>2. ((n \div b) + 1) * b = (n \div b) * b + b
      BY <1>2, <1>4
  <2>3. (n \div b) * b \in Nat
      BY <1>2, <1>4, MulNat
  <2> QED
      BY <1>2, <1>4, <2>1, <2>2, <2>3
<1> QED
    BY <1>4, <1>5, <1>6, <1>7

\* (N - Rx) % B is as much, or a whole chunk where N - Rx wraps.
LEMMA WriteRow ==
    ASSUME NEW s, IsSplit(s), NEW j, IsCorner(s, j)
    PROVE  /\ RowLength(s, j, WriteEdge(s)) \in Height(s, j, 1) .. s.b[1]
           /\ s.rank > 1 /\ ~Wraps(s) => RowLength(s, j, WriteEdge(s)) = Height(s, j, 1)
<1>0. /\ s.n[1] \in Nat /\ s.b[1] \in Nat \ {0} /\ s.n[1] < Word /\ s.b[1] < Word /\ Word \in Nat
      /\ s.rank \in {1, 2, 3}
    BY SplitTypes, WordAssumption
<1>1. /\ j[1] \in 0 .. s.n[1] - 1 /\ Height(s, j, 1) \in 1 .. s.b[1] /\ Height(s, j, 1) <= s.n[1] - j[1]
    BY CornerHeights
<1>2. CASE s.b[1] <= s.n[1]
  <2>1. (s.n[1] + Word - s.b[1]) % Word = s.n[1] - s.b[1]
    <3>1. 1 * Word + (s.n[1] - s.b[1]) = s.n[1] + Word - s.b[1]
        BY <1>0
    <3>2. s.n[1] - s.b[1] \in 0 .. Word - 1 /\ Word \in Nat \ {0} /\ 1 \in Int
        BY <1>0, <1>2
    <3>3. (1 * Word + (s.n[1] - s.b[1])) % Word = s.n[1] - s.b[1]
        BY <3>2, DivModOf
    <3> QED
        BY <3>1, <3>3
  <2>2. (s.n[1] - s.b[1]) % s.b[1] = s.n[1] % s.b[1]
    <3> DEFINE n == s.n[1]
               b == s.b[1]
    <3>1. n \in Int /\ b \in Nat \ {0} /\ n - b \in Int
        BY <1>0
    <3> HIDE DEF n, b
    <3>2. n \div b \in Int /\ n % b \in 0 .. b - 1 /\ n = (n \div b) * b + (n % b)
        BY <3>1, DivMod
    <3>3. ((n \div b) - 1) * b + (n % b) = n - b
        BY <3>1, <3>2
    <3>4. (((n \div b) - 1) * b + (n % b)) % b = n % b
      <4>1. (n \div b) - 1 \in Int
          BY <3>2
      <4> QED
          BY <3>1, <3>2, <4>1, DivModOf
    <3> QED
        BY <3>3, <3>4 DEF n, b
  <2>3. WriteEdge(s) = ReadEdge(s)
      BY <2>1, <2>2 DEF WriteEdge, ReadEdge
  <2> QED
      BY <1>0, <1>1, <2>3, ReadRow
<1>3. CASE s.n[1] < s.b[1]
  <2>1. j[1] = 0 /\ Height(s, j, 1) = s.n[1]
    <3>1. PICK q \in Grid(s) : j = CornerAt(s, q)
        BY DEF IsCorner
    <3>2. q[1] \in Nat /\ j[1] = q[1] * s.b[1]
        BY <3>1, CeilsNat DEF Grid, CornerAt
    <3>3. ASSUME 1 <= q[1] PROVE FALSE
      <4>1. 1 * s.b[1] <= q[1] * s.b[1]
          BY <1>0, <3>2, <3>3, MulMono
      <4> QED
          BY <1>0, <1>1, <1>3, <3>2, <4>1
    <3>4. j[1] = 0
        BY <1>0, <3>2, <3>3
    <3> QED
        BY <1>0, <1>3, <3>4 DEF Height, LessOf
  <2>2. WriteEdge(s) \in 0 .. s.b[1] - 1
    <3> DEFINE w == (s.n[1] + Word - s.b[1]) % Word
    <3>1. w \in Int
        BY <1>0
    <3> HIDE DEF w
    <3>2. w % s.b[1] \in 0 .. s.b[1] - 1
        BY <1>0, <3>1, DivMod
    <3> QED
        BY <3>2 DEF WriteEdge, w
  <2>3. RowLength(s, j, WriteEdge(s)) = IF WriteEdge(s) = s.n[1] THEN s.n[1] ELSE s.b[1]
      BY <1>0, <2>1, <2>2 DEF RowLength
  <2>4. s.rank > 1 /\ ~Wraps(s) => WriteEdge(s) = s.n[1]
      BY <1>3 DEF Wraps
  <2> QED
      BY <1>0, <1>1, <1>3, <2>1, <2>3, <2>4
<1> QED
    BY <1>0, <1>2, <1>3

-----------------------------------------------------------------------------
(* Gathering. *)

\* Byte i of the element in column c of row r, when a row has b elements.
LEMMA BytePlace ==
    ASSUME NEW r \in Nat, NEW c \in Nat, NEW b \in Nat \ {0}, NEW size \in Nat \ {0}, NEW i \in 1 .. size,
           c < b
    PROVE  /\ ((r * b + c) * size + i - 1) \div (b * size) = r
           /\ ((r * b + c) * size + i - 1) % (b * size) = c * size + i - 1
           /\ c * size + i - 1 \in 0 .. b * size - 1
<1> DEFINE row == b * size
           col == c * size + i - 1
<1>1. row \in Nat \ {0}
    BY MulNat
<1>2. (r * b + c) * size + i - 1 = r * row + col
    OBVIOUS
<1>3. col \in 0 .. row - 1
  <2>1. i - 1 \in Nat /\ i - 1 < size
      OBVIOUS
  <2> DEFINE e == i - 1
  <2> HIDE DEF e
  <2>2. c * size + e < b * size /\ c * size + e \in Nat
      BY <2>1, PlaceBelow DEF e
  <2> QED
      BY <2>2 DEF e
<1> HIDE DEF row, col
<1>4. (r * row + col) \div row = r /\ (r * row + col) % row = col
    BY <1>1, <1>3, DivModOf
<1> QED
    BY <1>2, <1>3, <1>4 DEF row, col

\* Byte i of the element at place p, among m elements.
LEMMA ByteBelow ==
    ASSUME NEW p \in Nat, NEW m \in Nat, NEW size \in Nat \ {0}, NEW i \in 1 .. size, p < m
    PROVE  p * size + i \in 1 .. m * size
<1> DEFINE e == i - 1
<1>1. e \in Nat /\ e < size
    OBVIOUS
<1> HIDE DEF e
<1>2. p * size + e < m * size /\ p * size + e \in Nat
    BY <1>1, PlaceBelow
<1>3. m * size \in Nat
    BY MulNat
<1> QED
    BY <1>2, <1>3 DEF e

\* The slot of an element is one of the chunk.
LEMMA SlotBelow ==
    ASSUME NEW s, IsSplit(s), NEW x \in Box(s.n), NEW j, j = CornerOf(s, x)
    PROVE  /\ Slot(s, j, x) = RowOf(s, j, x) * s.b[1] + (x[1] - j[1])
           /\ Slot(s, j, x) \in 0 .. Volume(s.b) - 1
<1> DEFINE r == RowOf(s, j, x)
           c == x[1] - j[1]
           m == s.b[2] * s.b[3]
<1>1. /\ IsCorner(s, j) /\ c \in 0 .. Height(s, j, 1) - 1
      /\ r \in 0 .. RowCount(s, j) - 1 /\ r < m
    BY InChunk, RowIsReached
<1>2. Height(s, j, 1) \in 1 .. s.b[1] /\ s.b[1] \in Nat /\ s.b[2] \in Nat /\ s.b[3] \in Nat /\ RowCount(s, j) \in Nat
    BY <1>1, CornerHeights, SplitTypes
<1>3. m \in Nat /\ Volume(s.b) = m * s.b[1]
    BY <1>2, MulNat DEF Volume
<1>4. Slot(s, j, x) = r * s.b[1] + c
    BY DEF Slot, RowPlace
<1> HIDE DEF r, c, m
<1>5. r * s.b[1] + c < m * s.b[1] /\ r * s.b[1] + c \in Nat
    BY <1>1, <1>2, <1>3, PlaceBelow
<1>6. m * s.b[1] \in Nat
    BY <1>2, <1>3, MulNat
<1> QED
    BY <1>3, <1>4, <1>5, <1>6 DEF r, c

\* A chunk's bytes before they are put into the buffer.
RowsGathered(s, j, chunk) ==
    LET row == s.b[1] * s.size
        length == RowLength(s, j, WriteEdge(s)) * s.size IN
    [k \in 1 .. BlockBytes(s) |->
        LET r == (k - 1) \div row
            col == (k - 1) % row IN
        IF r < RowCount(s, j) /\ col < length
        THEN Source(s, RowStart(s, j, r) * s.size + col)
        ELSE IF OverTheEdge(s, j) THEN Zero ELSE chunk[k]]

LineGathered(s, j) ==
    LET length == LessOf(s.b[1], s.n[1] - j[1]) * s.size IN
    [k \in 1 .. BlockBytes(s) |-> IF k <= length THEN Source(s, j[1] * s.size + k - 1) ELSE Zero]

SameBytes(c, d, n) == \A k \in 1 .. n : c[k] = d[k]

LEMMA GatherIs ==
    ASSUME NEW s, IsSplit(s), NEW j, NEW n \in Nat, BlockBytes(s) <= n, NEW chunk, IsBuffer(chunk, n)
    PROVE  /\ IsBuffer(Gather(s, j, chunk), n)
           /\ s.rank = 1 => SameBytes(Gather(s, j, chunk), LineGathered(s, j), BlockBytes(s))
           /\ s.rank # 1 => SameBytes(Gather(s, j, chunk), RowsGathered(s, j, chunk), BlockBytes(s))
<1>1. BlockBytes(s) \in Nat
    BY VolumeNat, SplitTypes, MulNat DEF BlockBytes, IsSplit
<1>2. CASE s.rank = 1
  <2>1. IsBuffer(LineGathered(s, j), BlockBytes(s))
      BY DEF LineGathered, IsBuffer
  <2>2. Gather(s, j, chunk) = Put(chunk, LineGathered(s, j))
      BY <1>2 DEF Gather, GatherLine, LineGathered
  <2> QED
      BY <1>1, <1>2, <2>1, <2>2, PutIs DEF SameBytes
<1>3. CASE s.rank # 1
  <2>1. IsBuffer(RowsGathered(s, j, chunk), BlockBytes(s))
      BY DEF RowsGathered, IsBuffer
  <2>2. Gather(s, j, chunk) = Put(chunk, RowsGathered(s, j, chunk))
      BY <1>3 DEF Gather, GatherRows, RowsGathered
  <2> QED
      BY <1>1, <1>3, <2>1, <2>2, PutIs DEF SameBytes
<1> QED
    BY <1>2, <1>3

\* Every element of the block is in its slot of its chunk.
LEMMA GatherFinds ==
    ASSUME NEW s, IsSplit(s), NEW x \in Box(s.n), NEW j, j = CornerOf(s, x),
           NEW n \in Nat, BlockBytes(s) <= n, NEW chunk, IsBuffer(chunk, n), NEW i \in 1 .. s.size
    PROVE  /\ Slot(s, j, x) * s.size + i \in 1 .. BlockBytes(s)
           /\ Gather(s, j, chunk)[Slot(s, j, x) * s.size + i] = Byte(Linear(x, s.n) * s.size + i)
<1> DEFINE r == RowOf(s, j, x)
           c == x[1] - j[1]
           k == Slot(s, j, x) * s.size + i
           col == c * s.size + i - 1
           place == Linear(x, s.n) * s.size + i - 1
<1>0. /\ s.size \in Nat \ {0} /\ s.b[1] \in Nat \ {0} /\ s.n \in Nat \X Nat \X Nat /\ s.b \in Nat \X Nat \X Nat
    BY SplitTypes DEF IsSplit
<1>1. /\ IsCorner(s, j) /\ c \in 0 .. Height(s, j, 1) - 1
      /\ r \in 0 .. RowCount(s, j) - 1
      /\ RowStart(s, j, r) + c = Linear(x, s.n)
      /\ Slot(s, j, x) = r * s.b[1] + c
      /\ Slot(s, j, x) \in Nat /\ Slot(s, j, x) < Volume(s.b)
  <2>1. Volume(s.b) \in Nat
      BY <1>0, VolumeNat
  <2> QED
      BY <2>1, InChunk, RowIsReached, SlotBelow
<1>2. /\ Height(s, j, 1) \in 1 .. s.b[1] /\ RowCount(s, j) \in Nat
      /\ j[1] \in Nat
    BY <1>1, CornerHeights
<1>3. k \in 1 .. BlockBytes(s)
    BY <1>0, <1>1, VolumeNat, ByteBelow DEF BlockBytes
<1>4. place < Volume(s.n) * s.size /\ place \in Nat
  <2>1. Linear(x, s.n) \in Nat /\ Linear(x, s.n) < Volume(s.n) /\ Volume(s.n) \in Nat
      BY <1>0, LinearBelow, VolumeNat
  <2>2. Linear(x, s.n) * s.size + i \in 1 .. Volume(s.n) * s.size
      BY <1>0, <2>1, ByteBelow
  <2>3. Volume(s.n) * s.size \in Nat /\ Linear(x, s.n) * s.size \in Nat
      BY <1>0, <2>1, MulNat
  <2> QED
      BY <2>2, <2>3
<1>5. Source(s, place) = Byte(Linear(x, s.n) * s.size + i)
  <2>1. place + 1 = Linear(x, s.n) * s.size + i
      BY <1>0, <1>4, LinearBelow, VolumeNat, MulNat
  <2> QED
      BY <1>4, <2>1 DEF Source
<1>6. CASE s.rank = 1
  <2>1. s.b[2] = 1 /\ s.b[3] = 1 /\ s.n[2] = 1 /\ s.n[3] = 1
      BY <1>6, SplitTypes
  <2>2. r = 0
      BY <1>1, <1>2, <2>1, RowIsReached
  <2>3. Linear(x, s.n) = x[1] /\ x[1] \in Nat
    <3>1. x[1] \in Nat /\ x[2] = 0 /\ x[3] = 0
        BY <1>0, <2>1 DEF Box
    <3>2. Linear(x, s.n) = ((0 * s.n[2]) + 0) * s.n[1] + x[1] /\ s.n[1] \in Nat /\ s.n[2] \in Nat
        BY <1>0, <3>1 DEF Linear
    <3> QED
        BY <3>1, <3>2
  <2>4. Slot(s, j, x) = c
      BY <1>0, <1>1, <1>2, <2>2
  <2>5. c \in Nat /\ c < Height(s, j, 1) /\ Height(s, j, 1) \in Nat
      BY <1>1, <1>2
  <2>6. c * s.size + i \in 1 .. Height(s, j, 1) * s.size
    <3> HIDE DEF c
    <3> QED
        BY <1>0, <2>5, ByteBelow
  <2>7. k <= Height(s, j, 1) * s.size
      BY <2>4, <2>6
  <2>8. j[1] * s.size + k - 1 = place
    <3>1. x[1] = j[1] + c /\ c \in Nat
        BY <1>2, <2>3, <2>5
    <3>2. (j[1] + c) * s.size = j[1] * s.size + c * s.size /\ j[1] * s.size \in Nat /\ c * s.size \in Nat
        BY <1>0, <1>2, <2>5, MulNat
    <3>3. place = x[1] * s.size + i - 1 /\ k = c * s.size + i
        BY <2>3, <2>4
    <3> HIDE DEF c, place, k
    <3> QED
        BY <3>1, <3>2, <3>3
  <2>9. LineGathered(s, j)[k] = Source(s, j[1] * s.size + k - 1)
      BY <1>3, <2>7 DEF LineGathered, Height
  <2>10. SameBytes(Gather(s, j, chunk), LineGathered(s, j), BlockBytes(s))
      BY <1>6, GatherIs
  <2> HIDE DEF k, place
  <2> QED
      BY <1>3, <1>5, <2>8, <2>9, <2>10 DEF SameBytes, k
<1>7. CASE s.rank # 1
  <2>1. /\ (k - 1) \div (s.b[1] * s.size) = r
        /\ (k - 1) % (s.b[1] * s.size) = col
        /\ col \in Nat
    <3>1. r \in Nat /\ c \in Nat /\ c < s.b[1]
        BY <1>0, <1>1, <1>2
    <3>2. Slot(s, j, x) = r * s.b[1] + c
        BY <1>1
    <3> HIDE DEF r, c
    <3>4. Slot(s, j, x) * s.size \in Nat
        BY <1>0, <1>1, MulNat
    <3>3. k - 1 = (r * s.b[1] + c) * s.size + i - 1
        BY <3>2, <3>4
    <3> HIDE DEF k
    <3> QED
        BY <1>0, <3>1, <3>3, BytePlace
  <2>2. col < RowLength(s, j, WriteEdge(s)) * s.size
    <3>1. RowLength(s, j, WriteEdge(s)) \in Nat /\ c < RowLength(s, j, WriteEdge(s)) /\ c \in Nat
        BY <1>0, <1>1, <1>2, WriteRow
    <3> HIDE DEF c
    <3>2. c * s.size + i \in 1 .. RowLength(s, j, WriteEdge(s)) * s.size
        BY <1>0, <3>1, ByteBelow
    <3>3. RowLength(s, j, WriteEdge(s)) * s.size \in Nat
        BY <1>0, <3>1, MulNat
    <3> QED
        BY <1>0, <3>1, <3>2, <3>3, MulNat
  <2>3. RowStart(s, j, r) * s.size + col = place
    <3>1. RowStart(s, j, r) \in Int
        BY <1>1, LinearBelow, VolumeNat, RowHeadIn DEF IsSplit
    <3>2. (RowStart(s, j, r) + c) * s.size = RowStart(s, j, r) * s.size + c * s.size
        BY <1>0, <1>1, <1>2, <3>1
    <3>3. RowStart(s, j, r) * s.size \in Int /\ c * s.size \in Int
        BY <1>0, <1>1, <1>2, <3>1
    <3> QED
        BY <1>1, <3>2, <3>3
  <2>4. RowsGathered(s, j, chunk)[k] = Source(s, RowStart(s, j, r) * s.size + col)
    <3>1. r < RowCount(s, j)
        BY <1>1, <1>2
    <3> HIDE DEF r, col, k
    <3> QED
        BY <1>3, <2>1, <2>2, <3>1 DEF RowsGathered
  <2>6. SameBytes(Gather(s, j, chunk), RowsGathered(s, j, chunk), BlockBytes(s))
      BY <1>7, GatherIs
  <2>5. Gather(s, j, chunk)[k] = RowsGathered(s, j, chunk)[k]
    <3> HIDE DEF k
    <3> QED
      BY <1>3, <2>6 DEF SameBytes
  <2> HIDE DEF place, col, r
  <2> QED
      BY <1>3, <1>5, <2>3, <2>4, <2>5
<1> QED
    BY <1>3, <1>6, <1>7

-----------------------------------------------------------------------------
(* The order of a chunk. *)

LEMMA PlaceInChunk ==
    ASSUME NEW s, IsSplit(s), NEW y \in Box(s.b)
    PROVE  PlaceOf(s, y) = Linear(y, s.b)
<1>1. /\ s.b[1] \in Nat \ {0} /\ s.b[2] \in Nat \ {0} /\ s.b[3] \in Nat \ {0}
      /\ y[1] \in 0 .. s.b[1] - 1 /\ y[2] \in 0 .. s.b[2] - 1 /\ y[3] \in 0 .. s.b[3] - 1
    BY SplitTypes DEF Box
<1>2. ASSUME NEW b \in Nat \ {0}, NEW c \in 0 .. b - 1 PROVE c % b = c
  <2>1. (0 * b + c) % b = c
      BY DivModOf
  <2> QED
      BY <2>1
<1>3. y[1] % s.b[1] = y[1]
    BY <1>1, <1>2
<1>4. y[2] % s.b[2] = y[2]
    BY <1>1, <1>2
<1>5. y[3] % s.b[3] = y[3]
    BY <1>1, <1>2
<1> QED
    BY <1>3, <1>4, <1>5 DEF PlaceOf, Linear, MaxRank

\* Rows that are not packed lie where the chunk has them.
LEMMA SlotIsPlace ==
    ASSUME NEW s, IsSplit(s), NEW x \in Box(s.n), NEW j, j = CornerOf(s, x), ~Packed(s)
    PROVE  Slot(s, j, x) = PlaceOf(s, x)
<1> DEFINE c1 == x[1] - j[1]
           c2 == x[2] - j[2]
           c3 == x[3] - j[3]
           h == Height(s, j, 2)
<1>1. /\ IsCorner(s, j)
      /\ x[1] % s.b[1] = c1 /\ x[2] % s.b[2] = c2 /\ x[3] % s.b[3] = c3
      /\ c3 \in 0 .. Height(s, j, 3) - 1
    BY InChunk
<1>2. /\ Slot(s, j, x) = (c3 * h + c2) * s.b[1] + c1
      /\ PlaceOf(s, x) = (c3 * s.b[2] + c2) * s.b[1] + c1
    BY <1>1 DEF Slot, RowPlace, RowOf, PlaceOf, Linear, MaxRank
<1>3. h = s.b[2] \/ Height(s, j, 3) = 1
  <2>1. CASE s.n[2] % s.b[2] = 0
      BY <1>1, <2>1, CornerHeights
  <2>2. CASE ~(LessOf(s.b[3], s.n[3]) > 1)
      BY <1>1, <2>2, CornerHeights, SplitTypes DEF LessOf
  <2> QED
      BY <2>1, <2>2 DEF Packed
<1>4. h \in Nat /\ s.b[2] \in Nat
    BY <1>1, CornerHeights, SplitTypes
<1> HIDE DEF c1, c2, h
<1>5. CASE h = s.b[2]
    BY <1>2, <1>5
<1>6. CASE Height(s, j, 3) = 1
  <2>1. c3 = 0
      BY <1>1, <1>6
  <2> HIDE DEF c3
  <2> QED
      BY <1>2, <1>4, <2>1
<1> QED
    BY <1>3, <1>5, <1>6

\* The place y of the chunk at j is not in the block.
Outside(s, j, y) == \E d \in 1 .. MaxRank : j[d] + y[d] >= s.n[d]

\* What lies beyond the block is padded, where N - Rx does not wrap and the
\* rows are not packed.
LEMMA GatherPads ==
    ASSUME NEW s, IsSplit(s), NEW j, IsCorner(s, j), ~Packed(s), ~Wraps(s),
           NEW y \in Box(s.b), Outside(s, j, y),
           NEW n \in Nat, BlockBytes(s) <= n, NEW chunk, IsBuffer(chunk, n), NEW i \in 1 .. s.size
    PROVE  /\ Linear(y, s.b) * s.size + i \in 1 .. BlockBytes(s)
           /\ Gather(s, j, chunk)[Linear(y, s.b) * s.size + i] = Zero
<1> DEFINE r == y[3] * s.b[2] + y[2]
           c == y[1]
           k == Linear(y, s.b) * s.size + i
<1>0. /\ s.size \in Nat \ {0} /\ s.n \in Nat \X Nat \X Nat /\ s.b \in Nat \X Nat \X Nat
      /\ s.b[1] \in Nat \ {0} /\ s.b[2] \in Nat \ {0} /\ s.b[3] \in Nat \ {0}
      /\ s.n[1] \in Nat /\ s.n[2] \in Nat /\ s.n[3] \in Nat /\ s.rank \in {1, 2, 3}
    BY SplitTypes DEF IsSplit
<1>1. /\ c \in Nat /\ y[2] \in Nat /\ y[3] \in Nat
      /\ c < s.b[1] /\ y[2] < s.b[2] /\ y[3] < s.b[3]
    BY <1>0 DEF Box
<1>2. /\ j[1] \in Nat /\ j[2] \in Nat /\ j[3] \in Nat
      /\ j[1] < s.n[1] /\ j[2] < s.n[2] /\ j[3] < s.n[3]
      /\ Height(s, j, 1) \in 1 .. s.b[1] /\ Height(s, j, 2) \in 1 .. s.b[2] /\ Height(s, j, 3) \in 1 .. s.b[3]
      /\ s.n[2] % s.b[2] = 0 => Height(s, j, 2) = s.b[2]
      /\ RowCount(s, j) \in Nat
    BY <1>0, CornerHeights
<1>3. k \in 1 .. BlockBytes(s)
  <2>1. Linear(y, s.b) \in Nat /\ Linear(y, s.b) < Volume(s.b) /\ Volume(s.b) \in Nat
      BY <1>0, LinearBelow, VolumeNat
  <2> QED
      BY <1>0, <2>1, ByteBelow DEF BlockBytes
<1>4. j[1] + y[1] >= s.n[1] \/ j[2] + y[2] >= s.n[2] \/ j[3] + y[3] >= s.n[3]
  <2>1. PICK d \in 1 .. 3 : j[d] + y[d] >= s.n[d]
      BY DEF Outside, MaxRank
  <2>2. d = 1 \/ d = 2 \/ d = 3
      OBVIOUS
  <2> QED
      BY <2>1, <2>2
<1>5. /\ j[1] + y[1] >= s.n[1] => Height(s, j, 1) <= c
      /\ j[2] + y[2] >= s.n[2] => Height(s, j, 2) <= y[2]
      /\ j[3] + y[3] >= s.n[3] => Height(s, j, 3) <= y[3]
    BY <1>0, <1>1, <1>2 DEF Height, LessOf
<1>6. CASE s.rank = 1
  <2>1. s.b[2] = 1 /\ s.b[3] = 1 /\ s.n[2] = 1 /\ s.n[3] = 1
      BY <1>6, SplitTypes
  <2>2. y[2] = 0 /\ y[3] = 0 /\ j[2] = 0 /\ j[3] = 0
      BY <1>1, <1>2, <2>1
  <2>3. Height(s, j, 1) <= c
      BY <1>4, <1>5, <2>1, <2>2
  <2>4. Linear(y, s.b) = c
    <3>1. Linear(y, s.b) = ((0 * s.b[2]) + 0) * s.b[1] + c
        BY <2>2 DEF Linear
    <3> QED
        BY <1>0, <1>1, <3>1
  <2>5. ~(k <= Height(s, j, 1) * s.size)
    <3>1. Height(s, j, 1) * s.size <= c * s.size
        BY <1>0, <1>1, <1>2, <2>3, MulMono
    <3>2. c * s.size \in Nat /\ Height(s, j, 1) * s.size \in Nat
        BY <1>0, <1>1, <1>2, MulNat
    <3> HIDE DEF c
    <3> QED
        BY <2>4, <3>1, <3>2
  <2>6. LineGathered(s, j)[k] = Zero
      BY <1>3, <2>5 DEF LineGathered, Height
  <2>7. SameBytes(Gather(s, j, chunk), LineGathered(s, j), BlockBytes(s))
      BY <1>6, GatherIs
  <2> HIDE DEF k
  <2>8. Gather(s, j, chunk)[k] = Zero
      BY <1>3, <2>6, <2>7 DEF SameBytes
  <2> QED
      BY <1>3, <2>8 DEF k
<1>7. CASE s.rank # 1
  <2>1. r \in Nat /\ Linear(y, s.b) = r * s.b[1] + c
    <3>1. y[3] * s.b[2] \in Nat
        BY <1>0, <1>1, MulNat
    <3> QED
        BY <1>1, <3>1 DEF Linear
  <2>2. r < RowCount(s, j) => y[2] < Height(s, j, 2) /\ y[3] < Height(s, j, 3)
    <3> DEFINE h2 == Height(s, j, 2)
               h3 == Height(s, j, 3)
    <3>1. RowCount(s, j) = h3 * h2 /\ h2 \in Nat /\ h3 \in Nat /\ h2 >= 1 /\ h3 >= 1 /\ h2 <= s.b[2]
        BY <1>0, <1>2 DEF RowCount
    <3>2. h2 = s.b[2] \/ h3 = 1
      <4>1. CASE s.n[2] % s.b[2] = 0
          BY <1>2, <4>1
      <4>2. CASE ~(LessOf(s.b[3], s.n[3]) > 1)
          BY <1>0, <1>2, <4>2 DEF LessOf, Height
      <4> QED
          BY <4>1, <4>2 DEF Packed
    <3> HIDE DEF h2, h3
    <3>3. CASE h2 = s.b[2]
      <4>1. ASSUME h3 <= y[3] PROVE h3 * h2 <= r
        <5>1. h3 * s.b[2] <= y[3] * s.b[2] /\ h3 * s.b[2] \in Nat /\ y[3] * s.b[2] \in Nat
            BY <1>0, <1>1, <3>1, <4>1, MulMono, MulNat
        <5> QED
            BY <1>1, <3>3, <5>1
      <4>2. h3 * h2 \in Nat
          BY <3>1, MulNat
      <4> QED
          BY <1>1, <2>1, <3>1, <3>3, <4>1, <4>2 DEF h2, h3
    <3>4. CASE h3 = 1
      <4>1. RowCount(s, j) = h2
          BY <3>1, <3>4
      <4>2. ASSUME 1 <= y[3] PROVE h2 <= r
        <5>1. 1 * s.b[2] <= y[3] * s.b[2]
          <6>1. 1 \in Int /\ y[3] \in Int /\ s.b[2] \in Nat
              BY <1>0, <1>1
          <6> QED
              BY <4>2, <6>1, MulMono
        <5>2. y[3] * s.b[2] \in Nat
            BY <1>0, <1>1, MulNat
        <5> QED
            BY <1>0, <1>1, <3>1, <5>1, <5>2
      <4>3. ASSUME y[3] = 0 PROVE r = y[2]
          BY <1>0, <1>1, <4>3
      <4> QED
          BY <1>1, <2>1, <3>1, <3>4, <4>1, <4>2, <4>3 DEF h2, h3
    <3> QED
        BY <3>2, <3>3, <3>4
  <2>3. /\ (k - 1) \div (s.b[1] * s.size) = r
        /\ (k - 1) % (s.b[1] * s.size) = c * s.size + i - 1
        /\ c * s.size + i - 1 \in Nat
    <3> HIDE DEF r, c
    <3>1. (r * s.b[1] + c) * s.size \in Nat
        BY <1>0, <1>1, <2>1, MulNat
    <3>2. k - 1 = (r * s.b[1] + c) * s.size + i - 1
        BY <2>1, <3>1
    <3>3. r \in Nat /\ c \in Nat /\ c < s.b[1] /\ s.b[1] \in Nat \ {0} /\ s.size \in Nat \ {0}
        BY <1>0, <1>1, <2>1
    <3> HIDE DEF k
    <3>4. /\ ((r * s.b[1] + c) * s.size + i - 1) \div (s.b[1] * s.size) = r
          /\ ((r * s.b[1] + c) * s.size + i - 1) % (s.b[1] * s.size) = c * s.size + i - 1
          /\ c * s.size + i - 1 \in 0 .. s.b[1] * s.size - 1
        BY <3>3, BytePlace
    <3> QED
        BY <3>2, <3>4
  <2>4. RowLength(s, j, WriteEdge(s)) = Height(s, j, 1)
      BY <1>0, <1>7, WriteRow
  <2>5. ASSUME Height(s, j, 1) <= c PROVE ~(c * s.size + i - 1 < Height(s, j, 1) * s.size)
    <3>1. Height(s, j, 1) * s.size <= c * s.size
        BY <1>0, <1>1, <1>2, <2>5, MulMono
    <3>2. c * s.size \in Nat /\ Height(s, j, 1) * s.size \in Nat
        BY <1>0, <1>1, <1>2, MulNat
    <3> HIDE DEF c
    <3> QED
        BY <3>1, <3>2
  <2>6. ~(r < RowCount(s, j) /\ c * s.size + i - 1 < RowLength(s, j, WriteEdge(s)) * s.size)
    <3>1. CASE j[1] + y[1] >= s.n[1]
        BY <1>5, <2>4, <2>5, <3>1
    <3>2. CASE j[2] + y[2] >= s.n[2]
        BY <1>1, <1>2, <1>5, <2>2, <3>2
    <3>3. CASE j[3] + y[3] >= s.n[3]
        BY <1>1, <1>2, <1>5, <2>2, <3>3
    <3> QED
        BY <1>4, <3>1, <3>2, <3>3
  <2>7. OverTheEdge(s, j)
    <3>1. \E d \in {1, 2, 3} : j[d] + s.b[d] > s.n[d]
        BY <1>0, <1>1, <1>2, <1>4
    <3> QED
        BY <3>1 DEF OverTheEdge, MaxRank
  <2>8. RowsGathered(s, j, chunk)[k] = Zero
    <3> HIDE DEF r, c, k
    <3> QED
        BY <1>3, <2>3, <2>6, <2>7 DEF RowsGathered
  <2>9. Gather(s, j, chunk)[k] = RowsGathered(s, j, chunk)[k]
    <3>1. SameBytes(Gather(s, j, chunk), RowsGathered(s, j, chunk), BlockBytes(s))
        BY <1>7, GatherIs
    <3> HIDE DEF k
    <3> QED
        BY <1>3, <3>1 DEF SameBytes
  <2> QED
      BY <1>3, <2>8, <2>9
<1> QED
    BY <1>6, <1>7

-----------------------------------------------------------------------------
(* Scattering. *)

TargetBytes(s) == (Volume(s.n) + s.b[1]) * s.size

LEMMA TargetSize ==
    ASSUME NEW s, IsSplit(s)
    PROVE  /\ TargetBytes(s) \in Nat /\ Volume(s.n) * s.size \in Nat
           /\ Volume(s.n) * s.size <= TargetBytes(s)
           /\ IsBuffer(Target(s), TargetBytes(s))
           /\ \A k \in 1 .. TargetBytes(s) : Target(s)[k] = Untouched
<1>1. s.size \in Nat /\ s.b[1] \in Nat /\ Volume(s.n) \in Nat
    BY SplitTypes, VolumeNat DEF IsSplit
<1>2. Volume(s.n) + s.b[1] \in Nat
    BY <1>1
<1>3. TargetBytes(s) \in Nat /\ Volume(s.n) * s.size \in Nat /\ Volume(s.n) * s.size <= TargetBytes(s)
    BY <1>1, <1>2, MulNat, MulMono DEF TargetBytes
<1>4. Target(s) = [k \in 1 .. TargetBytes(s) |-> Untouched]
    BY DEF Target, TargetBytes
<1> QED
    BY <1>3, <1>4 DEF IsBuffer

\* Where byte i of an element is in the caller's memory.
LEMMA BlockByte ==
    ASSUME NEW s, IsSplit(s), NEW x \in Box(s.n), NEW i \in 1 .. s.size
    PROVE  /\ Linear(x, s.n) * s.size + i \in 1 .. Volume(s.n) * s.size
           /\ Linear(x, s.n) * s.size + i \in 1 .. TargetBytes(s)
<1>1. Linear(x, s.n) \in Nat /\ Linear(x, s.n) < Volume(s.n) /\ Volume(s.n) \in Nat /\ s.size \in Nat \ {0}
    BY LinearBelow, VolumeNat, SplitTypes DEF IsSplit
<1>2. Linear(x, s.n) * s.size + i \in 1 .. Volume(s.n) * s.size
    BY <1>1, ByteBelow
<1> QED
    BY <1>2, TargetSize

\* m is the caller's memory after the rows below r of the chunk at j.
Scattered(s, j, chunk, memory, r, m) ==
    /\ IsBuffer(m, TargetBytes(s))
    /\ \A x \in Box(s.n) : \A i \in 1 .. s.size :
          m[Linear(x, s.n) * s.size + i] =
              IF CornerOf(s, x) = j /\ RowOf(s, j, x) < r THEN chunk[Slot(s, j, x) * s.size + i]
              ELSE memory[Linear(x, s.n) * s.size + i]
    /\ \A k \in 1 .. TargetBytes(s) : k > Volume(s.n) * s.size => m[k] = memory[k]

\* Byte i of element l is in a run of h elements from start on.
LEMMA InRun ==
    ASSUME NEW l \in Nat, NEW start \in Nat, NEW h \in Nat, NEW size \in Nat \ {0}, NEW i \in 1 .. size
    PROVE  l * size + i > start * size /\ l * size + i <= start * size + h * size
               <=> start <= l /\ l < start + h
<1>1. l * size \in Nat /\ start * size \in Nat /\ h * size \in Nat
    BY MulNat
<1>2. ASSUME start <= l PROVE l * size + i > start * size
  <2>1. start * size <= l * size
      BY <1>2, MulMono
  <2> QED
      BY <1>1, <2>1
<1>3. ASSUME l < start PROVE ~(l * size + i > start * size)
  <2>1. (l + 1) * size <= start * size
      BY <1>3, MulMono
  <2>2. (l + 1) * size = l * size + size
      OBVIOUS
  <2> QED
      BY <1>1, <2>1, <2>2
<1>4. ASSUME l < start + h PROVE l * size + i <= start * size + h * size
  <2>1. (l + 1) * size <= (start + h) * size
      BY <1>4, MulMono
  <2>2. (l + 1) * size = l * size + size /\ (start + h) * size = start * size + h * size
      OBVIOUS
  <2> QED
      BY <1>1, <2>1, <2>2
<1>5. ASSUME start + h <= l PROVE ~(l * size + i <= start * size + h * size)
  <2>1. (start + h) * size <= l * size
      BY <1>5, MulMono
  <2>2. (start + h) * size = start * size + h * size
      OBVIOUS
  <2> QED
      BY <1>1, <2>1, <2>2
<1> QED
    BY <1>2, <1>3, <1>4, <1>5

\* One row changes its elements and no other byte.
LEMMA RowScatters ==
    ASSUME NEW s, IsSplit(s), NEW j, IsCorner(s, j), NEW chunk, NEW memory,
           NEW r \in 0 .. RowCount(s, j) - 1, NEW m, Scattered(s, j, chunk, memory, r, m)
    PROVE  Scattered(s, j, chunk, memory, r + 1, CopyRow(s, j, chunk, m, r))
<1> DEFINE start == RowStart(s, j, r)
           h == Height(s, j, 1)
           p == RowPlace(s, r)
           D == TargetBytes(s)
           copy == CopyRow(s, j, chunk, m, r)
<1>0. /\ s.size \in Nat \ {0} /\ s.b[1] \in Nat \ {0} /\ s.n \in Nat \X Nat \X Nat
      /\ s.n[1] \in Nat /\ Volume(s.n) \in Nat /\ D \in Nat /\ Volume(s.n) * s.size \in Nat
    BY SplitTypes, TargetSize, VolumeNat DEF IsSplit
<1>1. /\ j[1] \in Nat /\ h \in 1 .. s.b[1] /\ h <= s.n[1] - j[1] /\ RowCount(s, j) \in Nat
    BY CornerHeights
<1>2. start \in Nat /\ start + h <= Volume(s.n)
  <2>1. RowHead(s, j, r) \in Box(s.n) /\ start = Linear(RowHead(s, j, r), s.n) /\ RowHead(s, j, r)[1] = j[1]
      BY RowHeadIn DEF RowHead
  <2>2. start \in Nat
      BY <1>0, <2>1, LinearBelow
  <2>3. h \in Nat
      BY <1>0, <1>1
  <2>4. Linear(RowHead(s, j, r), s.n) + h <= Volume(s.n)
      BY <1>0, <1>1, <2>1, <2>3, RowEnds
  <2> QED
      BY <2>1, <2>2, <2>4
<1>3. IsBuffer(m, D) /\ DOMAIN m = 1 .. D
    BY <1>0, BufferDomain DEF Scattered
<1>4. copy = [k \in 1 .. D |-> IF k > start * s.size /\ k <= start * s.size + h * s.size
                               THEN chunk[p * s.size + k - start * s.size] ELSE m[k]]
    BY <1>3, ReadRow DEF CopyRow
<1> HIDE DEF copy, start, h, D, p
<1>5. IsBuffer(copy, D)
    BY <1>4 DEF IsBuffer
<1>6. ASSUME NEW x \in Box(s.n), NEW i \in 1 .. s.size
      PROVE  copy[Linear(x, s.n) * s.size + i] =
                 IF CornerOf(s, x) = j /\ RowOf(s, j, x) < r + 1 THEN chunk[Slot(s, j, x) * s.size + i]
                 ELSE memory[Linear(x, s.n) * s.size + i]
  <2> DEFINE l == Linear(x, s.n)
             k == l * s.size + i
  <2>1. l \in Nat /\ k \in 1 .. D /\ l * s.size \in Nat
    <3>1. k \in 1 .. D
        BY BlockByte DEF D
    <3>2. l \in Nat
        BY <1>0, LinearBelow
    <3> HIDE DEF l
    <3> QED
        BY <1>0, <3>1, <3>2, MulNat
  <2> SUFFICES copy[k] = IF CornerOf(s, x) = j /\ RowOf(s, j, x) < r + 1
                         THEN chunk[Slot(s, j, x) * s.size + i] ELSE memory[k]
      OBVIOUS
  <2>2. m[k] = IF CornerOf(s, x) = j /\ RowOf(s, j, x) < r THEN chunk[Slot(s, j, x) * s.size + i]
               ELSE memory[k]
      BY DEF Scattered
  <2>3. k > start * s.size /\ k <= start * s.size + h * s.size <=> start <= l /\ l < start + h
    <3> HIDE DEF l
    <3>1. h \in Nat
        BY <1>0, <1>1
    <3> QED
        BY <1>0, <1>2, <2>1, <3>1, InRun
  <2>4. CASE start <= l /\ l < start + h
    <3>1. CornerOf(s, x) = j /\ RowOf(s, j, x) = r
        BY <2>4, RowHits DEF start, h
    <3>2. Slot(s, j, x) = p + (l - start)
      <4>1. start + (x[1] - j[1]) = l /\ x[1] - j[1] \in Int
          BY <1>1, <3>1, RowIsReached, InChunk DEF start, h
      <4>2. Slot(s, j, x) = p + (x[1] - j[1])
          BY <3>1 DEF Slot, p
      <4> HIDE DEF l
      <4> QED
          BY <1>2, <2>1, <4>1, <4>2
    <3>3. p \in Nat
        BY <1>0, MulNat DEF p, RowPlace
    <3>4. Slot(s, j, x) * s.size + i = p * s.size + k - start * s.size
      <4> HIDE DEF l
      <4>1. (p + (l - start)) * s.size = p * s.size + l * s.size - start * s.size
          BY <1>0, <1>2, <2>1, <3>3
      <4>2. p * s.size \in Nat /\ start * s.size \in Nat
          BY <1>0, <1>2, <3>3, MulNat
      <4> QED
          BY <2>1, <3>2, <4>1, <4>2
    <3>5. copy[k] = chunk[p * s.size + k - start * s.size]
      <4> HIDE DEF k
      <4> QED
          BY <1>4, <2>1, <2>3, <2>4
    <3>6. RowOf(s, j, x) < r + 1
        BY <3>1
    <3> HIDE DEF k
    <3> QED
        BY <3>1, <3>4, <3>5, <3>6
  <2>5. CASE ~(start <= l /\ l < start + h)
    <3>1. copy[k] = m[k]
      <4> HIDE DEF k
      <4> QED
          BY <1>4, <2>1, <2>3, <2>5
    <3>2. CornerOf(s, x) = j => RowOf(s, j, x) # r /\ RowOf(s, j, x) \in Int
      <4> SUFFICES ASSUME CornerOf(s, x) = j PROVE RowOf(s, j, x) # r /\ RowOf(s, j, x) \in Int
          OBVIOUS
      <4>1. /\ RowOf(s, j, x) \in Int
            /\ RowStart(s, j, RowOf(s, j, x)) + (x[1] - j[1]) = l
            /\ x[1] - j[1] \in 0 .. h - 1
          BY <1>1, RowIsReached, InChunk DEF h
      <4>2. ASSUME RowOf(s, j, x) = r PROVE FALSE
        <5>1. start + (x[1] - j[1]) = l
            BY <4>1, <4>2 DEF start
        <5> HIDE DEF l
        <5> QED
            BY <1>1, <1>2, <2>5, <4>1, <5>1
      <4> QED
          BY <4>1, <4>2
    <3>3. CornerOf(s, x) = j => (RowOf(s, j, x) < r <=> RowOf(s, j, x) < r + 1)
        BY <3>2
    <3> HIDE DEF k
    <3> QED
        BY <2>2, <3>1, <3>3
  <2> QED
      BY <2>4, <2>5
<1>7. ASSUME NEW k \in 1 .. D, k > Volume(s.n) * s.size PROVE copy[k] = memory[k]
  <2>1. (start + h) * s.size <= Volume(s.n) * s.size
      BY <1>0, <1>1, <1>2, MulMono
  <2>2. (start + h) * s.size = start * s.size + h * s.size
      BY <1>0, <1>1, <1>2
  <2>3. start * s.size \in Nat /\ h * s.size \in Nat
      BY <1>0, <1>1, <1>2, MulNat
  <2>4. ~(k <= start * s.size + h * s.size)
      BY <1>0, <1>7, <2>1, <2>2, <2>3
  <2>5. copy[k] = m[k]
      BY <1>4, <2>4
  <2>6. m[k] = memory[k]
      BY <1>7 DEF Scattered, D
  <2> QED
      BY <2>5, <2>6
<1> QED
    BY <1>5, <1>6, <1>7 DEF Scattered, D, copy

\* f gives the caller's memory after each of the first n rows.
IsRows(s, j, chunk, memory, f, n) ==
    f = [r \in 0 .. n |-> IF r = 0 THEN memory ELSE CopyRow(s, j, chunk, f[r - 1], r - 1)]

LEMMA RowsExist ==
    ASSUME NEW s, NEW j, NEW chunk, NEW memory, NEW n \in Nat
    PROVE  \E f : IsRows(s, j, chunk, memory, f, n)
<1> DEFINE S == {k \in 0 .. n : \E f : IsRows(s, j, chunk, memory, f, k)}
<1>1. 0 \in S
  <2>1. IsRows(s, j, chunk, memory, [r \in 0 .. 0 |-> memory], 0)
      BY DEF IsRows
  <2> QED
      BY <2>1
<1>2. ASSUME NEW k \in 0 .. n - 1, k \in S PROVE k + 1 \in S
  <2>1. PICK f : IsRows(s, j, chunk, memory, f, k)
      BY <1>2
  <2> DEFINE g == [r \in 0 .. k + 1 |-> IF r = 0 THEN memory ELSE CopyRow(s, j, chunk, f[r - 1], r - 1)]
  <2>2. ASSUME NEW r \in 0 .. k PROVE g[r] = f[r]
      BY <2>1 DEF IsRows
  <2>3. g = [r \in 0 .. k + 1 |-> IF r = 0 THEN memory ELSE CopyRow(s, j, chunk, g[r - 1], r - 1)]
    <3>1. ASSUME NEW r \in 0 .. k + 1, r # 0 PROVE g[r - 1] = f[r - 1]
      <4>1. r - 1 \in 0 .. k
          BY <3>1
      <4> QED
          BY <2>2, <4>1
    <3> QED
        BY <3>1
  <2>4. IsRows(s, j, chunk, memory, g, k + 1)
      BY <2>3 DEF IsRows
  <2> QED
      BY <2>4
<1> HIDE DEF S
<1>3. 0 .. n \subseteq S
    BY <1>1, <1>2, InductionUpTo
<1> QED
    BY <1>3 DEF S

\* split_to_chunk_read delivers the elements of the chunk and nothing else.
LEMMA ScatterIs ==
    ASSUME NEW s, IsSplit(s), NEW j, IsCorner(s, j), NEW chunk, NEW memory, IsBuffer(memory, TargetBytes(s))
    PROVE  Scattered(s, j, chunk, memory, RowCount(s, j), Scatter(s, j, chunk, memory))
<1> DEFINE N == RowCount(s, j)
           f == RowsCopied(s, j, chunk, memory)
<1>1. N \in Nat
    BY CornerHeights
<1>2. IsRows(s, j, chunk, memory, f, N)
  <2>1. \E g : IsRows(s, j, chunk, memory, g, N)
      BY <1>1, RowsExist
  <2> QED
      BY <2>1, Zenon DEF IsRows, RowsCopied
<1> HIDE DEF f
<1>3. /\ f[0] = memory
      /\ \A r \in 0 .. N - 1 : f[r + 1] = CopyRow(s, j, chunk, f[r], r)
  <2>1. f[0] = memory
      BY <1>1, <1>2 DEF IsRows
  <2>2. ASSUME NEW r \in 0 .. N - 1 PROVE f[r + 1] = CopyRow(s, j, chunk, f[r], r)
    <3>1. r + 1 \in 0 .. N /\ r + 1 # 0 /\ (r + 1) - 1 = r
        BY <1>1
    <3> HIDE DEF N
    <3>2. f[r + 1] = CopyRow(s, j, chunk, f[(r + 1) - 1], (r + 1) - 1)
        BY <1>2, <3>1 DEF IsRows
    <3> QED
        BY <3>1, <3>2
  <2> QED
      BY <2>1, <2>2
<1> DEFINE S == {r \in 0 .. N : Scattered(s, j, chunk, memory, r, f[r])}
<1>4. 0 \in S
  <2>1. ASSUME NEW x \in Box(s.n), CornerOf(s, x) = j PROVE ~(RowOf(s, j, x) < 0)
      BY <1>1, <2>1, RowIsReached
  <2>2. Scattered(s, j, chunk, memory, 0, memory)
      BY <2>1 DEF Scattered
  <2> QED
      BY <1>1, <1>3, <2>2
<1>5. ASSUME NEW r \in 0 .. N - 1, r \in S PROVE r + 1 \in S
  <2>1. Scattered(s, j, chunk, memory, r, f[r])
      BY <1>5
  <2>2. Scattered(s, j, chunk, memory, r + 1, CopyRow(s, j, chunk, f[r], r))
      BY <2>1, RowScatters
  <2> QED
      BY <1>1, <1>3, <2>2
<1> HIDE DEF S
<1>6. 0 .. N \subseteq S
    BY <1>1, <1>4, <1>5, InductionUpTo
<1>7. Scattered(s, j, chunk, memory, N, f[N])
    BY <1>1, <1>6 DEF S
<1> QED
    BY <1>7 DEF f, Scatter

-----------------------------------------------------------------------------
(* Lengths. *)

IsPipe(p) ==
    /\ p.chain \in Seq(Filters)
    /\ p.size \in Nat \ {0}
    /\ p.block \in Nat
    /\ \E e \in Nat : p.block = e * p.size
    /\ p.hdf5 \in {1, 2}
    /\ \A i, k \in Positions(p, "fletcher32") : i = k

\* The longest the data can be behind filter i.
Room(p, i) == IF \E k \in 1 .. i : p.chain[k] = "fletcher32" THEN p.block + 4 ELSE p.block

AllShuffles(p, i) == \A k \in 1 .. i : p.chain[k] = "shuffle"

\* n is a length of the data behind filter i.
Fits(p, i, n) == n \in Nat /\ n <= Room(p, i) /\ (AllShuffles(p, i) => n = p.block)

LEMMA PipeTypes ==
    ASSUME NEW p, IsPipe(p)
    PROVE  /\ Len(p.chain) \in Nat /\ DOMAIN p.chain = 1 .. Len(p.chain)
           /\ \A i \in 1 .. Len(p.chain) : p.chain[i] \in Filters
           /\ ScratchBound(p.block) \in Nat /\ p.block \in Nat /\ p.block <= ScratchBound(p.block)
           /\ ScratchBound(p.block) = p.block + 4
BY DEF IsPipe, ScratchBound

LEMMA FitsBound ==
    ASSUME NEW p, IsPipe(p), NEW i, NEW n, Fits(p, i, n)
    PROVE  n \in Nat /\ n <= ScratchBound(p.block)
BY PipeTypes DEF Fits, Room

LEMMA FitsStart ==
    ASSUME NEW p, IsPipe(p)
    PROVE  Fits(p, 0, p.block)
BY PipeTypes DEF Fits, Room

\* What a filter does to the length.
LEMMA FitsNext ==
    ASSUME NEW p, IsPipe(p), NEW i \in 1 .. Len(p.chain), NEW n, Fits(p, i - 1, n), NEW l \in Nat,
           \/ l = n
           \/ l <= n /\ p.chain[i] # "shuffle"
           \/ l = n + 4 /\ p.chain[i] = "fletcher32"
    PROVE  Fits(p, i, l)
<1>0. i \in Nat /\ i - 1 \in Nat /\ 1 .. i - 1 \subseteq 1 .. i /\ i \in 1 .. i
    BY PipeTypes
<1>1. AllShuffles(p, i) => AllShuffles(p, i - 1) /\ p.chain[i] = "shuffle"
    BY <1>0 DEF AllShuffles
<1>2. Room(p, i - 1) <= Room(p, i)
    BY <1>0, PipeTypes DEF Room
<1>3. p.chain[i] = "fletcher32" => Room(p, i - 1) = p.block /\ Room(p, i) = p.block + 4
  <2>1. ASSUME p.chain[i] = "fletcher32", NEW k \in 1 .. i - 1, p.chain[k] = "fletcher32" PROVE FALSE
    <3>1. k \in Positions(p, "fletcher32") /\ i \in Positions(p, "fletcher32")
        BY <2>1, PipeTypes DEF Positions
    <3> QED
        BY <3>1 DEF IsPipe
  <2> QED
      BY <1>0, <2>1 DEF Room
<1>4. n \in Nat /\ n <= Room(p, i - 1) /\ (AllShuffles(p, i - 1) => n = p.block)
    BY DEF Fits
<1>5. Room(p, i - 1) \in Nat /\ Room(p, i) \in Nat
    BY PipeTypes DEF Room
<1>6. l <= Room(p, i)
  <2>1. CASE l <= n
      BY <1>2, <1>4, <1>5, <2>1
  <2>2. CASE l = n + 4 /\ p.chain[i] = "fletcher32"
      BY <1>3, <1>4, <2>2, PipeTypes
  <2> QED
      BY <1>4, <2>1, <2>2
<1>7. AllShuffles(p, i) => l = p.block
    BY <1>1, <1>4
<1> QED
    BY <1>6, <1>7 DEF Fits

-----------------------------------------------------------------------------
(* Bytes. *)

LEMMA PrefixIs ==
    ASSUME NEW c, NEW n \in Nat
    PROVE  IsBuffer(Prefix(c, n), n) /\ Len(Prefix(c, n)) = n /\ SameBytes(Prefix(c, n), c, n)
<1>1. Prefix(c, n) = [k \in 1 .. n |-> c[k]]
  <2>1. Prefix(c, n) = [l \in 1 .. n - 1 + 1 |-> c[l + 1 - 1]]
      BY SubSeqIs DEF Prefix
  <2> QED
      BY <2>1
<1>2. IsBuffer(Prefix(c, n), n)
    BY <1>1 DEF IsBuffer
<1> QED
    BY <1>1, <1>2, BufferLen DEF SameBytes

LEMMA SameIsEqual ==
    ASSUME NEW n \in Nat, NEW c, NEW d, IsBuffer(c, n), IsBuffer(d, n), SameBytes(c, d, n)
    PROVE  c = d
BY BufferEqual DEF SameBytes

LEMMA PrefixOfSame ==
    ASSUME NEW n \in Nat, NEW c, NEW d, IsBuffer(d, n), SameBytes(c, d, n)
    PROVE  Prefix(c, n) = d
BY PrefixIs, SameIsEqual DEF SameBytes

LEMMA PutKeeps ==
    ASSUME NEW n \in Nat, NEW m \in Nat, m <= n, NEW c, NEW d, IsBuffer(c, n), IsBuffer(d, m)
    PROVE  IsBuffer(Put(c, d), n) /\ SameBytes(Put(c, d), d, m)
BY PutIs DEF SameBytes

LEMMA SqueezedIs ==
    ASSUME NEW n \in Nat
    PROVE  Squeezed(n) \in Nat /\ (n > 0 => Squeezed(n) > 0) /\ Squeezed(n) <= n
BY DEF Squeezed

LEMMA StreamIs ==
    ASSUME NEW n \in Nat, NEW c, IsBuffer(c, n)
    PROVE  /\ IsBuffer(Stream(c), Squeezed(n)) /\ Len(Stream(c)) = Squeezed(n)
           /\ \A k \in 1 .. Squeezed(n) : Stream(c)[k] = StreamByte(k, n, c)
<1>1. Stream(c) = [k \in 1 .. Squeezed(n) |-> StreamByte(k, n, c)]
    BY BufferLen DEF Stream
<1>2. IsBuffer(Stream(c), Squeezed(n))
    BY <1>1 DEF IsBuffer
<1> QED
    BY <1>1, <1>2, BufferLen, SqueezedIs

LEMMA ChecksumIs ==
    ASSUME NEW c
    PROVE  IsBuffer(Checksum(c), 4) /\ Len(Checksum(c)) = 4
<1>1. IsBuffer(Checksum(c), 4)
    BY DEF Checksum, IsBuffer
<1> QED
    BY <1>1, BufferLen

LEMMA SumIs ==
    ASSUME NEW n \in Nat, NEW c, IsBuffer(c, n)
    PROVE  /\ IsBuffer(c \o Checksum(c), n + 4) /\ Len(c \o Checksum(c)) = n + 4
           /\ SameBytes(c \o Checksum(c), c, n)
           /\ \A k \in 1 .. 4 : (c \o Checksum(c))[n + k] = Checksum(c)[k]
<1> DEFINE d == Joined(c, Checksum(c))
<1>1. IsBuffer(d, n + 4) /\ (\A k \in 1 .. n : d[k] = c[k]) /\ \A k \in 1 .. 4 : d[n + k] = Checksum(c)[k]
    BY ChecksumIs, JoinedIs
<1>3. d = c \o Checksum(c)
    BY DEF Joined
<1> HIDE DEF d
<1>2. Len(d) = n + 4
  <2>1. n + 4 \in Nat
      OBVIOUS
  <2> QED
      BY <1>1, <2>1, BufferLen
<1> QED
    BY <1>1, <1>2, <1>3 DEF SameBytes

LEMMA WholeIs ==
    ASSUME NEW p, IsPipe(p), NEW n \in Nat
    PROVE  Whole(p, n) \in Nat /\ Whole(p, n) <= n
BY DivNat, MulNat DEF Whole, IsPipe

-----------------------------------------------------------------------------
(* What every run of the chain keeps: the lengths of the buffers. *)

\* A buffer for the scratch of p.
Holds(p, c) == IsBuffer(c, ScratchBound(p.block))

LEMMA ResultKeeps ==
    ASSUME NEW p, IsPipe(p), NEW dst, Holds(p, dst), NEW n \in Nat, n <= ScratchBound(p.block),
           NEW c, IsBuffer(c, n)
    PROVE  /\ Holds(p, Result(dst, c).buf) /\ Result(dst, c).len = n
           /\ SameBytes(Result(dst, c).buf, c, n)
<1>1. Len(c) = n
    BY BufferLen
<1>2. Holds(p, Put(dst, c)) /\ SameBytes(Put(dst, c), c, n)
    BY PutKeeps, PipeTypes DEF Holds
<1> QED
    BY <1>1, <1>2 DEF Result

LEMMA ShuffleKeeps ==
    ASSUME NEW p, IsPipe(p), NEW dst, Holds(p, dst), NEW src, NEW n \in Nat, n <= ScratchBound(p.block)
    PROVE  /\ Holds(p, Shuffle(p, dst, src, n).buf) /\ Shuffle(p, dst, src, n).len = n
           /\ Holds(p, Unshuffle(p, dst, src, n).buf) /\ Unshuffle(p, dst, src, n).len = n
           /\ Holds(p, ShuffleInPlace(p, dst, n).buf) /\ ShuffleInPlace(p, dst, n).len = n
<1> DEFINE w == Whole(p, n)
<1>1. w \in Nat /\ w <= ScratchBound(p.block)
    BY WholeIs, PipeTypes
<1>2. ASSUME NEW c, IsBuffer(c, w) PROVE Holds(p, Put(dst, c))
    BY <1>1, <1>2, PutKeeps, PipeTypes DEF Holds
<1>3. Holds(p, Shuffle(p, dst, src, n).buf)
  <2> DEFINE c == [k \in 1 .. w |-> ShuffledByte(p, dst, src, n, k)]
  <2>1. IsBuffer(c, w)
      BY DEF IsBuffer
  <2>2. Shuffle(p, dst, src, n).buf = Put(dst, c)
      BY DEF Shuffle
  <2> QED
      BY <1>2, <2>1, <2>2
<1>4. Holds(p, Unshuffle(p, dst, src, n).buf)
  <2> DEFINE c == [k \in 1 .. w |-> UnshuffledByte(p, src, n, k)]
  <2>1. IsBuffer(c, w)
      BY DEF IsBuffer
  <2>2. Unshuffle(p, dst, src, n).buf = Put(dst, c)
      BY DEF Unshuffle
  <2> QED
      BY <1>2, <2>1, <2>2
<1>5. Holds(p, ShuffleInPlace(p, dst, n).buf)
  <2> DEFINE c == [k \in 1 .. w |-> Overwritten(p, dst, n)[k]]
  <2>1. IsBuffer(c, w)
      BY DEF IsBuffer
  <2>2. ShuffleInPlace(p, dst, n).buf = Put(dst, c)
      BY DEF ShuffleInPlace
  <2> QED
      BY <1>2, <2>1, <2>2
<1> QED
    BY <1>3, <1>4, <1>5 DEF Shuffle, Unshuffle, ShuffleInPlace

\* A filter keeps the buffers, and does to the length what FitsNext allows.
LEMMA ApplyKeeps ==
    ASSUME NEW p, IsPipe(p), NEW i \in 1 .. Len(p.chain), NEW dst, Holds(p, dst), NEW src,
           NEW n, Fits(p, i - 1, n), NEW shrinks
    PROVE  LET r == Apply(p, p.chain[i], dst, src, n, shrinks) IN
           Holds(p, r.buf) /\ (r.len = 0 \/ Fits(p, i, r.len))
<1> DEFINE r == Apply(p, p.chain[i], dst, src, n, shrinks)
<1>0. n \in Nat /\ n <= ScratchBound(p.block)
    BY FitsBound
<1>1. p.chain[i] \in Filters
    BY PipeTypes
<1>2. CASE p.chain[i] = "shuffle"
  <2>1. r = Shuffle(p, dst, src, n)
      BY <1>2 DEF Apply
  <2>2. Holds(p, r.buf) /\ r.len = n
      BY <1>0, <2>1, ShuffleKeeps
  <2> HIDE DEF r
  <2>3. Fits(p, i, r.len)
      BY <1>0, <2>2, FitsNext
  <2> QED
      BY <2>2, <2>3 DEF r
<1>3. CASE p.chain[i] = "deflate"
  <2>1. r = Deflate(p, dst, src, n, shrinks)
      BY <1>3 DEF Apply
  <2>2. CASE r = Refused(dst)
      BY <2>2 DEF Refused
  <2>3. CASE r = Result(dst, Stream(Prefix(src, n)))
    <3>1. IsBuffer(Stream(Prefix(src, n)), Squeezed(n))
        BY <1>0, PrefixIs, StreamIs
    <3>2. Squeezed(n) \in Nat /\ Squeezed(n) <= n /\ Squeezed(n) <= ScratchBound(p.block)
        BY <1>0, SqueezedIs, PipeTypes
    <3>3. Holds(p, r.buf) /\ r.len = Squeezed(n)
        BY <2>3, <3>1, <3>2, ResultKeeps
    <3> HIDE DEF r
    <3>4. Fits(p, i, r.len)
        BY <1>3, <3>2, <3>3, FitsNext
    <3> QED
        BY <3>3, <3>4 DEF r
  <2> QED
      BY <2>1, <2>2, <2>3 DEF Deflate
<1>4. CASE p.chain[i] = "fletcher32"
  <2> DEFINE c == Prefix(src, n)
  <2>1. r = Result(dst, c \o Checksum(c))
      BY <1>4 DEF Apply, Fletcher
  <2>2. IsBuffer(c \o Checksum(c), n + 4)
      BY <1>0, PrefixIs, SumIs
  <2>3. Fits(p, i, n + 4)
    <3>1. n + 4 \in Nat
        BY <1>0
    <3> QED
        BY <1>4, <3>1, FitsNext
  <2>4. n + 4 \in Nat /\ n + 4 <= ScratchBound(p.block)
      BY <2>3, FitsBound
  <2>5. Holds(p, r.buf) /\ r.len = n + 4
    <3> DEFINE m == n + 4
               e == c \o Checksum(c)
    <3>1. m \in Nat /\ m <= ScratchBound(p.block) /\ IsBuffer(e, m) /\ r = Result(dst, e)
        BY <2>1, <2>2, <2>4
    <3> HIDE DEF m, e, r
    <3>2. Holds(p, r.buf) /\ r.len = m
        BY <3>1, ResultKeeps
    <3> QED
        BY <3>2 DEF m
  <2> QED
      BY <2>3, <2>5
<1> QED
    BY <1>1, <1>2, <1>3, <1>4 DEF Filters

-----------------------------------------------------------------------------
(* The runs. *)

IsRunOfPingPongs(p, chunk0, chunk1, shrinks, f, n) ==
    f = [i \in 0 .. n |-> IF i = 0 THEN Begun(p, chunk0, chunk1) ELSE PingPongStep(p, f[i - 1], i, shrinks)]

LEMMA PingPongsIs ==
    ASSUME NEW p, NEW chunk0, NEW chunk1, NEW shrinks, Len(p.chain) \in Nat
    PROVE  /\ PingPongs(p, chunk0, chunk1, shrinks)[0] = Begun(p, chunk0, chunk1)
           /\ \A i \in 1 .. Len(p.chain) :
                 PingPongs(p, chunk0, chunk1, shrinks)[i] = PingPongStep(p, PingPongs(p, chunk0, chunk1, shrinks)[i - 1], i, shrinks)
<1> DEFINE n == Len(p.chain)
           S == {k \in 0 .. n : \E f : IsRunOfPingPongs(p, chunk0, chunk1, shrinks, f, k)}
<1>1. 0 \in S
  <2>1. IsRunOfPingPongs(p, chunk0, chunk1, shrinks, [i \in 0 .. 0 |-> Begun(p, chunk0, chunk1)], 0)
      BY DEF IsRunOfPingPongs
  <2> QED
      BY <2>1
<1>2. ASSUME NEW k \in 0 .. n - 1, k \in S PROVE k + 1 \in S
  <2>1. PICK f : IsRunOfPingPongs(p, chunk0, chunk1, shrinks, f, k)
      BY <1>2
  <2> DEFINE g == [i \in 0 .. k + 1 |-> IF i = 0 THEN Begun(p, chunk0, chunk1) ELSE PingPongStep(p, f[i - 1], i, shrinks)]
  <2>2. ASSUME NEW i \in 0 .. k PROVE g[i] = f[i]
      BY <2>1 DEF IsRunOfPingPongs
  <2>3. g = [i \in 0 .. k + 1 |-> IF i = 0 THEN Begun(p, chunk0, chunk1) ELSE PingPongStep(p, g[i - 1], i, shrinks)]
    <3>1. ASSUME NEW i \in 0 .. k + 1, i # 0 PROVE g[i - 1] = f[i - 1]
      <4>1. i - 1 \in 0 .. k
          BY <3>1
      <4> QED
          BY <2>2, <4>1
    <3> QED
        BY <3>1
  <2>4. IsRunOfPingPongs(p, chunk0, chunk1, shrinks, g, k + 1)
      BY <2>3 DEF IsRunOfPingPongs
  <2> QED
      BY <2>4
<1> HIDE DEF S
<1>3. n \in Nat
    OBVIOUS
<1> HIDE DEF n
<1>4. 0 .. n \subseteq S
    BY <1>1, <1>2, <1>3, InductionUpTo
<1>5. \E f : IsRunOfPingPongs(p, chunk0, chunk1, shrinks, f, n)
    BY <1>3, <1>4 DEF S
<1> DEFINE h == PingPongs(p, chunk0, chunk1, shrinks)
<1>6. IsRunOfPingPongs(p, chunk0, chunk1, shrinks, h, n)
    BY <1>5, Zenon DEF IsRunOfPingPongs, PingPongs, n
<1> HIDE DEF h
<1>7. h[0] = Begun(p, chunk0, chunk1)
    BY <1>3, <1>6 DEF IsRunOfPingPongs
<1>8. ASSUME NEW i \in 1 .. n PROVE h[i] = PingPongStep(p, h[i - 1], i, shrinks)
  <2>1. i \in 0 .. n /\ i # 0
      BY <1>3
  <2> QED
      BY <1>6, <2>1 DEF IsRunOfPingPongs
<1> QED
    BY <1>7, <1>8 DEF h, n

IsRunOfInPlaces(p, chunk0, chunk1, f, n) ==
    f = [i \in 0 .. n |-> IF i = 0 THEN Begun(p, chunk0, chunk1) ELSE InPlaceStep(p, f[i - 1], i)]

LEMMA InPlacesIs ==
    ASSUME NEW p, NEW chunk0, NEW chunk1, Len(p.chain) \in Nat
    PROVE  /\ InPlaces(p, chunk0, chunk1)[0] = Begun(p, chunk0, chunk1)
           /\ \A i \in 1 .. Len(p.chain) :
                 InPlaces(p, chunk0, chunk1)[i] = InPlaceStep(p, InPlaces(p, chunk0, chunk1)[i - 1], i)
<1> DEFINE n == Len(p.chain)
           S == {k \in 0 .. n : \E f : IsRunOfInPlaces(p, chunk0, chunk1, f, k)}
<1>1. 0 \in S
  <2>1. IsRunOfInPlaces(p, chunk0, chunk1, [i \in 0 .. 0 |-> Begun(p, chunk0, chunk1)], 0)
      BY DEF IsRunOfInPlaces
  <2> QED
      BY <2>1
<1>2. ASSUME NEW k \in 0 .. n - 1, k \in S PROVE k + 1 \in S
  <2>1. PICK f : IsRunOfInPlaces(p, chunk0, chunk1, f, k)
      BY <1>2
  <2> DEFINE g == [i \in 0 .. k + 1 |-> IF i = 0 THEN Begun(p, chunk0, chunk1) ELSE InPlaceStep(p, f[i - 1], i)]
  <2>2. ASSUME NEW i \in 0 .. k PROVE g[i] = f[i]
      BY <2>1 DEF IsRunOfInPlaces
  <2>3. g = [i \in 0 .. k + 1 |-> IF i = 0 THEN Begun(p, chunk0, chunk1) ELSE InPlaceStep(p, g[i - 1], i)]
    <3>1. ASSUME NEW i \in 0 .. k + 1, i # 0 PROVE g[i - 1] = f[i - 1]
      <4>1. i - 1 \in 0 .. k
          BY <3>1
      <4> QED
          BY <2>2, <4>1
    <3> QED
        BY <3>1
  <2>4. IsRunOfInPlaces(p, chunk0, chunk1, g, k + 1)
      BY <2>3 DEF IsRunOfInPlaces
  <2> QED
      BY <2>4
<1> HIDE DEF S
<1>3. n \in Nat
    OBVIOUS
<1> HIDE DEF n
<1>4. 0 .. n \subseteq S
    BY <1>1, <1>2, <1>3, InductionUpTo
<1>5. \E f : IsRunOfInPlaces(p, chunk0, chunk1, f, n)
    BY <1>3, <1>4 DEF S
<1> DEFINE h == InPlaces(p, chunk0, chunk1)
<1>6. IsRunOfInPlaces(p, chunk0, chunk1, h, n)
    BY <1>5, Zenon DEF IsRunOfInPlaces, InPlaces, n
<1> HIDE DEF h
<1>7. h[0] = Begun(p, chunk0, chunk1)
    BY <1>3, <1>6 DEF IsRunOfInPlaces
<1>8. ASSUME NEW i \in 1 .. n PROVE h[i] = InPlaceStep(p, h[i - 1], i)
  <2>1. i \in 0 .. n /\ i # 0
      BY <1>3
  <2> QED
      BY <1>6, <2>1 DEF IsRunOfInPlaces
<1> QED
    BY <1>7, <1>8 DEF h, n

IsRunOfDecodes(p, chunk0, chunk1, len, mask, f, n) ==
    f = [i \in 0 .. n |-> IF i = 0 THEN Fetched(p, chunk0, chunk1, len) ELSE Unfilter(p, f[i - 1], Len(p.chain) - i + 1, mask)]

LEMMA DecodesIs ==
    ASSUME NEW p, NEW chunk0, NEW chunk1, NEW len, NEW mask, Len(p.chain) \in Nat
    PROVE  /\ Decodes(p, chunk0, chunk1, len, mask)[0] = Fetched(p, chunk0, chunk1, len)
           /\ \A i \in 1 .. Len(p.chain) :
                 Decodes(p, chunk0, chunk1, len, mask)[i] = Unfilter(p, Decodes(p, chunk0, chunk1, len, mask)[i - 1], Len(p.chain) - i + 1, mask)
<1> DEFINE n == Len(p.chain)
           S == {k \in 0 .. n : \E f : IsRunOfDecodes(p, chunk0, chunk1, len, mask, f, k)}
<1>1. 0 \in S
  <2>1. IsRunOfDecodes(p, chunk0, chunk1, len, mask, [i \in 0 .. 0 |-> Fetched(p, chunk0, chunk1, len)], 0)
      BY DEF IsRunOfDecodes
  <2> QED
      BY <2>1
<1>2. ASSUME NEW k \in 0 .. n - 1, k \in S PROVE k + 1 \in S
  <2>1. PICK f : IsRunOfDecodes(p, chunk0, chunk1, len, mask, f, k)
      BY <1>2
  <2> DEFINE g == [i \in 0 .. k + 1 |-> IF i = 0 THEN Fetched(p, chunk0, chunk1, len) ELSE Unfilter(p, f[i - 1], Len(p.chain) - i + 1, mask)]
  <2>2. ASSUME NEW i \in 0 .. k PROVE g[i] = f[i]
      BY <2>1 DEF IsRunOfDecodes
  <2>3. g = [i \in 0 .. k + 1 |-> IF i = 0 THEN Fetched(p, chunk0, chunk1, len) ELSE Unfilter(p, g[i - 1], Len(p.chain) - i + 1, mask)]
    <3>1. ASSUME NEW i \in 0 .. k + 1, i # 0 PROVE g[i - 1] = f[i - 1]
      <4>1. i - 1 \in 0 .. k
          BY <3>1
      <4> QED
          BY <2>2, <4>1
    <3> QED
        BY <3>1
  <2>4. IsRunOfDecodes(p, chunk0, chunk1, len, mask, g, k + 1)
      BY <2>3 DEF IsRunOfDecodes
  <2> QED
      BY <2>4
<1> HIDE DEF S
<1>3. n \in Nat
    OBVIOUS
<1> HIDE DEF n
<1>4. 0 .. n \subseteq S
    BY <1>1, <1>2, <1>3, InductionUpTo
<1>5. \E f : IsRunOfDecodes(p, chunk0, chunk1, len, mask, f, n)
    BY <1>3, <1>4 DEF S
<1> DEFINE h == Decodes(p, chunk0, chunk1, len, mask)
<1>6. IsRunOfDecodes(p, chunk0, chunk1, len, mask, h, n)
    BY <1>5, Zenon DEF IsRunOfDecodes, Decodes, n
<1> HIDE DEF h
<1>7. h[0] = Fetched(p, chunk0, chunk1, len)
    BY <1>3, <1>6 DEF IsRunOfDecodes
<1>8. ASSUME NEW i \in 1 .. n PROVE h[i] = Unfilter(p, h[i - 1], Len(p.chain) - i + 1, mask)
  <2>1. i \in 0 .. n /\ i # 0
      BY <1>3
  <2> QED
      BY <1>6, <2>1 DEF IsRunOfDecodes
<1> QED
    BY <1>7, <1>8 DEF h, n

IsRunOfHdfDecodes(p, chunk, f, n) ==
    f = [i \in 0 .. n |-> IF i = 0 THEN [buf |-> Put(Fresh(p), chunk.bytes), len |-> Len(chunk.bytes)] ELSE HdfUnfilter(p, f[i - 1], Len(p.chain) - i + 1, chunk.mask)]

LEMMA HdfDecodesIs ==
    ASSUME NEW p, NEW chunk, Len(p.chain) \in Nat
    PROVE  /\ HdfDecodes(p, chunk)[0] = [buf |-> Put(Fresh(p), chunk.bytes), len |-> Len(chunk.bytes)]
           /\ \A i \in 1 .. Len(p.chain) :
                 HdfDecodes(p, chunk)[i] = HdfUnfilter(p, HdfDecodes(p, chunk)[i - 1], Len(p.chain) - i + 1, chunk.mask)
<1> DEFINE n == Len(p.chain)
           S == {k \in 0 .. n : \E f : IsRunOfHdfDecodes(p, chunk, f, k)}
<1>1. 0 \in S
  <2>1. IsRunOfHdfDecodes(p, chunk, [i \in 0 .. 0 |-> [buf |-> Put(Fresh(p), chunk.bytes), len |-> Len(chunk.bytes)]], 0)
      BY DEF IsRunOfHdfDecodes
  <2> QED
      BY <2>1
<1>2. ASSUME NEW k \in 0 .. n - 1, k \in S PROVE k + 1 \in S
  <2>1. PICK f : IsRunOfHdfDecodes(p, chunk, f, k)
      BY <1>2
  <2> DEFINE g == [i \in 0 .. k + 1 |-> IF i = 0 THEN [buf |-> Put(Fresh(p), chunk.bytes), len |-> Len(chunk.bytes)] ELSE HdfUnfilter(p, f[i - 1], Len(p.chain) - i + 1, chunk.mask)]
  <2>2. ASSUME NEW i \in 0 .. k PROVE g[i] = f[i]
      BY <2>1 DEF IsRunOfHdfDecodes
  <2>3. g = [i \in 0 .. k + 1 |-> IF i = 0 THEN [buf |-> Put(Fresh(p), chunk.bytes), len |-> Len(chunk.bytes)] ELSE HdfUnfilter(p, g[i - 1], Len(p.chain) - i + 1, chunk.mask)]
    <3>1. ASSUME NEW i \in 0 .. k + 1, i # 0 PROVE g[i - 1] = f[i - 1]
      <4>1. i - 1 \in 0 .. k
          BY <3>1
      <4> QED
          BY <2>2, <4>1
    <3> QED
        BY <3>1
  <2>4. IsRunOfHdfDecodes(p, chunk, g, k + 1)
      BY <2>3 DEF IsRunOfHdfDecodes
  <2> QED
      BY <2>4
<1> HIDE DEF S
<1>3. n \in Nat
    OBVIOUS
<1> HIDE DEF n
<1>4. 0 .. n \subseteq S
    BY <1>1, <1>2, <1>3, InductionUpTo
<1>5. \E f : IsRunOfHdfDecodes(p, chunk, f, n)
    BY <1>3, <1>4 DEF S
<1> DEFINE h == HdfDecodes(p, chunk)
<1>6. IsRunOfHdfDecodes(p, chunk, h, n)
    BY <1>5, Zenon DEF IsRunOfHdfDecodes, HdfDecodes, n
<1> HIDE DEF h
<1>7. h[0] = [buf |-> Put(Fresh(p), chunk.bytes), len |-> Len(chunk.bytes)]
    BY <1>3, <1>6 DEF IsRunOfHdfDecodes
<1>8. ASSUME NEW i \in 1 .. n PROVE h[i] = HdfUnfilter(p, h[i - 1], Len(p.chain) - i + 1, chunk.mask)
  <2>1. i \in 0 .. n /\ i # 0
      BY <1>3
  <2> QED
      BY <1>6, <2>1 DEF IsRunOfHdfDecodes
<1> QED
    BY <1>7, <1>8 DEF h, n

-----------------------------------------------------------------------------
(* What the runs keep. *)

IsRecord(e) == e = [src |-> e.src, dst |-> e.dst, len |-> e.len, mask |-> e.mask]

\* e is a state of a run that applies the chain, i filters of it.
Applied(p, e, i) == IsRecord(e) /\ Holds(p, e.src) /\ Holds(p, e.dst) /\ Fits(p, i, e.len)

LEMMA BegunApplies ==
    ASSUME NEW p, IsPipe(p), NEW c, NEW d, Holds(p, c), Holds(p, d)
    PROVE  Applied(p, Begun(p, c, d), 0)
BY FitsStart DEF Applied, IsRecord, Begun

LEMMA PingPongStepKeeps ==
    ASSUME NEW p, IsPipe(p), NEW i \in 1 .. Len(p.chain), NEW e, Applied(p, e, i - 1), NEW shrinks
    PROVE  Applied(p, PingPongStep(p, e, i, shrinks), i)
<1> DEFINE r == Apply(p, p.chain[i], e.dst, e.src, e.len, shrinks)
<1>1. Holds(p, r.buf) /\ (r.len = 0 \/ Fits(p, i, r.len))
    BY ApplyKeeps DEF Applied
<1>2. Fits(p, i, e.len)
    BY FitsNext, FitsBound DEF Applied
<1>3. IsRecord(e) /\ Holds(p, e.src) /\ Holds(p, e.dst)
    BY DEF Applied
<1>4. PingPongStep(p, e, i, shrinks) =
          IF r.len = 0 THEN [e EXCEPT !.mask = @ \cup {i}]
          ELSE [src |-> r.buf, dst |-> e.src, len |-> r.len, mask |-> e.mask]
    BY DEF PingPongStep
<1> HIDE DEF r
<1>5. CASE r.len = 0
  <2>1. PingPongStep(p, e, i, shrinks) = [src |-> e.src, dst |-> e.dst, len |-> e.len, mask |-> e.mask \cup {i}]
      BY <1>3, <1>4, <1>5 DEF IsRecord
  <2> QED
      BY <1>2, <1>3, <2>1 DEF Applied, IsRecord
<1>6. CASE r.len # 0
    BY <1>1, <1>3, <1>4, <1>6 DEF Applied, IsRecord
<1> QED
    BY <1>5, <1>6

LEMMA InPlaceStepKeeps ==
    ASSUME NEW p, IsPipe(p), AllInplace(p), NEW i \in 1 .. Len(p.chain), NEW e, Applied(p, e, i - 1)
    PROVE  Applied(p, InPlaceStep(p, e, i), i)
<1> DEFINE r == IF p.chain[i] = "shuffle" THEN ShuffleInPlace(p, e.src, e.len)
                ELSE Fletcher(e.src, e.src, e.len)
<1>0. IsRecord(e) /\ Holds(p, e.src) /\ Holds(p, e.dst) /\ Fits(p, i - 1, e.len)
    BY DEF Applied
<1>1. p.chain[i] \in {"shuffle", "fletcher32"}
    BY PipeTypes DEF AllInplace, Filters
<1>5. e.len \in Nat /\ e.len <= ScratchBound(p.block)
    BY <1>0, FitsBound
<1>2. Holds(p, r.buf) /\ Fits(p, i, r.len)
  <2>1. CASE p.chain[i] = "shuffle"
    <3>1. Holds(p, ShuffleInPlace(p, e.src, e.len).buf) /\ ShuffleInPlace(p, e.src, e.len).len = e.len
        BY <1>0, <1>5, ShuffleKeeps
    <3>2. Fits(p, i, e.len)
        BY <1>0, FitsBound, FitsNext
    <3> QED
        BY <2>1, <3>1, <3>2
  <2>2. CASE p.chain[i] = "fletcher32"
    <3> DEFINE a == Apply(p, p.chain[i], e.src, e.src, e.len, FALSE)
    <3>1. a = Fletcher(e.src, e.src, e.len) /\ r = a
        BY <2>2 DEF Apply
    <3>2. Holds(p, a.buf) /\ (a.len = 0 \/ Fits(p, i, a.len))
        BY <1>0, ApplyKeeps
    <3> HIDE DEF a, r
    <3>3. a.len # 0
      <4>1. Fletcher(e.src, e.src, e.len).len = Len(Prefix(e.src, e.len) \o Checksum(Prefix(e.src, e.len)))
          BY DEF Fletcher, Result
      <4>2. Len(Prefix(e.src, e.len) \o Checksum(Prefix(e.src, e.len))) = e.len + 4
          BY <1>5, PrefixIs, SumIs
      <4> QED
          BY <1>5, <3>1, <4>1, <4>2
    <3> QED
        BY <3>1, <3>2, <3>3
  <2> QED
      BY <1>1, <2>1, <2>2
<1>3. InPlaceStep(p, e, i) = [e EXCEPT !.src = r.buf, !.len = r.len]
    BY DEF InPlaceStep
<1> HIDE DEF r
<1>4. InPlaceStep(p, e, i) = [src |-> r.buf, dst |-> e.dst, len |-> r.len, mask |-> e.mask]
    BY <1>0, <1>3 DEF IsRecord
<1> QED
    BY <1>0, <1>2, <1>4 DEF Applied, IsRecord

LEMMA PingPongKeeps ==
    ASSUME NEW p, IsPipe(p), NEW c, NEW d, Holds(p, c), Holds(p, d), NEW shrinks
    PROVE  Applied(p, PingPong(p, c, d, shrinks), Len(p.chain))
<1> DEFINE n == Len(p.chain)
           f == PingPongs(p, c, d, shrinks)
           S == {i \in 0 .. n : Applied(p, f[i], i)}
<1>1. n \in Nat
    BY PipeTypes
<1>2. f[0] = Begun(p, c, d) /\ \A i \in 1 .. n : f[i] = PingPongStep(p, f[i - 1], i, shrinks)
    BY <1>1, PingPongsIs
<1> HIDE DEF f
<1>3. 0 \in S
    BY <1>1, <1>2, BegunApplies
<1>4. ASSUME NEW i \in 0 .. n - 1, i \in S PROVE i + 1 \in S
  <2>1. i + 1 \in 1 .. n /\ (i + 1) - 1 = i
      BY <1>1
  <2>2. Applied(p, f[i], (i + 1) - 1) /\ f[i + 1] = PingPongStep(p, f[i], i + 1, shrinks)
      BY <1>2, <1>4, <2>1
  <2>3. Applied(p, f[i + 1], i + 1)
      BY <2>1, <2>2, PingPongStepKeeps
  <2> QED
      BY <2>1, <2>3
<1> HIDE DEF S
<1>5. 0 .. n \subseteq S
    BY <1>1, <1>3, <1>4, InductionUpTo
<1>6. Applied(p, f[n], n)
    BY <1>1, <1>5 DEF S
<1> QED
    BY <1>6 DEF PingPong, f

LEMMA InPlaceKeeps ==
    ASSUME NEW p, IsPipe(p), AllInplace(p), NEW c, NEW d, Holds(p, c), Holds(p, d)
    PROVE  Applied(p, InPlace(p, c, d), Len(p.chain))
<1> DEFINE n == Len(p.chain)
           f == InPlaces(p, c, d)
           S == {i \in 0 .. n : Applied(p, f[i], i)}
<1>1. n \in Nat
    BY PipeTypes
<1>2. f[0] = Begun(p, c, d) /\ \A i \in 1 .. n : f[i] = InPlaceStep(p, f[i - 1], i)
    BY <1>1, InPlacesIs
<1> HIDE DEF f
<1>3. 0 \in S
    BY <1>1, <1>2, BegunApplies
<1>4. ASSUME NEW i \in 0 .. n - 1, i \in S PROVE i + 1 \in S
  <2>1. i + 1 \in 1 .. n /\ (i + 1) - 1 = i
      BY <1>1
  <2>2. Applied(p, f[i], (i + 1) - 1) /\ f[i + 1] = InPlaceStep(p, f[i], i + 1)
      BY <1>2, <1>4, <2>1
  <2>3. Applied(p, f[i + 1], i + 1)
      BY <2>1, <2>2, InPlaceStepKeeps
  <2> QED
      BY <2>1, <2>3
<1> HIDE DEF S
<1>5. 0 .. n \subseteq S
    BY <1>1, <1>3, <1>4, InductionUpTo
<1>6. Applied(p, f[n], n)
    BY <1>1, <1>5 DEF S
<1> QED
    BY <1>6 DEF InPlace, f

LEMMA EncodeKeeps ==
    ASSUME NEW p, IsPipe(p), NEW c, NEW d, Holds(p, c), Holds(p, d), NEW shrinks
    PROVE  /\ Applied(p, Encode(p, c, d, shrinks), Len(p.chain))
           /\ Applied(p, EncodeInPool(p, c, shrinks), Len(p.chain))
<1>1. Applied(p, Encode(p, c, d, shrinks), Len(p.chain))
    BY PingPongKeeps, InPlaceKeeps DEF Encode
<1>2. Holds(p, Fresh(p))
    BY DEF Holds, Fresh, IsBuffer
<1>3. Holds(p, Put(Fresh(p), Prefix(c, p.block)))
    BY <1>2, PutKeeps, PrefixIs, PipeTypes DEF Holds
<1>4. Applied(p, EncodeInPool(p, c, shrinks), Len(p.chain))
    BY <1>2, <1>3, PingPongKeeps DEF EncodeInPool
<1> QED
    BY <1>1, <1>4

LEMMA UnapplyKeeps ==
    ASSUME NEW p, IsPipe(p), NEW i \in 1 .. Len(p.chain), NEW dst, Holds(p, dst), NEW src,
           NEW n \in Nat, n <= ScratchBound(p.block), NEW room \in Nat, room <= ScratchBound(p.block)
    PROVE  LET r == Unapply(p, p.chain[i], dst, src, n, room) IN
           Holds(p, r.buf) /\ r.len \in Nat /\ r.len <= ScratchBound(p.block)
<1> DEFINE r == Unapply(p, p.chain[i], dst, src, n, room)
<1>1. p.chain[i] \in Filters
    BY PipeTypes
<1>2. CASE p.chain[i] = "shuffle"
  <2>1. r = Unshuffle(p, dst, src, n)
      BY <1>2 DEF Unapply
  <2> QED
      BY <2>1, ShuffleKeeps
<1>3. CASE p.chain[i] = "deflate"
  <2> DEFINE size == src[1][2]
             data == src[1][3]
  <2>1. r = Inflate(dst, src, n, room)
      BY <1>3 DEF Unapply
  <2>2. \/ r = Refused(dst)
        \/ size \in Nat /\ size <= room /\ r = Result(dst, Prefix(data, size))
        \/ r = Refused(Put(dst, Prefix(data, room)))
      BY <2>1 DEF Inflate, IsStream
  <2>3. CASE r = Refused(dst)
      BY <2>3, PipeTypes DEF Refused
  <2>4. CASE size \in Nat /\ size <= room /\ r = Result(dst, Prefix(data, size))
    <3> HIDE DEF size, data, r
    <3>1. size <= ScratchBound(p.block) /\ IsBuffer(Prefix(data, size), size)
        BY <2>4, PrefixIs, PipeTypes
    <3>2. Holds(p, r.buf) /\ r.len = size
        BY <2>4, <3>1, ResultKeeps
    <3> QED
        BY <2>4, <3>1, <3>2 DEF r
  <2>5. CASE r = Refused(Put(dst, Prefix(data, room)))
    <3>1. Holds(p, Put(dst, Prefix(data, room)))
        BY PutKeeps, PrefixIs, PipeTypes DEF Holds
    <3> QED
        BY <2>5, <3>1, PipeTypes DEF Refused
  <2> HIDE DEF r
  <2> QED
      BY <2>2, <2>3, <2>4, <2>5 DEF r
<1>4. CASE p.chain[i] = "fletcher32"
  <2>1. r = Unfletcher(dst, src, n)
      BY <1>4 DEF Unapply
  <2>2. CASE r = Refused(dst)
      BY <2>2, PipeTypes DEF Refused
  <2>3. CASE n >= 4 /\ r = Result(dst, Prefix(src, n - 4))
    <3> DEFINE m == n - 4
    <3>1. m \in Nat /\ m <= ScratchBound(p.block) /\ r = Result(dst, Prefix(src, m))
        BY <2>3, PipeTypes
    <3> HIDE DEF m, r
    <3>2. Holds(p, r.buf) /\ r.len = m
        BY <3>1, PrefixIs, ResultKeeps
    <3> QED
        BY <3>1, <3>2 DEF r
  <2> QED
      BY <2>1, <2>2, <2>3 DEF Unfletcher
<1> QED
    BY <1>1, <1>2, <1>3, <1>4 DEF Filters

\* d is a state of a run that reverses the chain.
Reversing(p, d) ==
    Holds(p, d.src) /\ Holds(p, d.dst) /\ d.len \in Nat /\ d.len <= ScratchBound(p.block)

LEMMA UnfilterKeeps ==
    ASSUME NEW p, IsPipe(p), NEW i \in 1 .. Len(p.chain), NEW d, Reversing(p, d), NEW mask
    PROVE  Reversing(p, Unfilter(p, d, i, mask))
<1> DEFINE r == IF i \in mask THEN Result(d.dst, Prefix(d.src, d.len))
                ELSE Unapply(p, p.chain[i], d.dst, d.src, d.len, p.block)
<1>0. Holds(p, d.src) /\ Holds(p, d.dst) /\ d.len \in Nat /\ d.len <= ScratchBound(p.block)
    BY DEF Reversing
<1>1. Unfilter(p, d, i, mask) = [src |-> r.buf, dst |-> d.src, len |-> r.len]
    BY DEF Unfilter
<1>2. Holds(p, r.buf) /\ r.len \in Nat /\ r.len <= ScratchBound(p.block)
  <2>1. Holds(p, Result(d.dst, Prefix(d.src, d.len)).buf) /\ Result(d.dst, Prefix(d.src, d.len)).len = d.len
      BY <1>0, PrefixIs, ResultKeeps
  <2>2. LET u == Unapply(p, p.chain[i], d.dst, d.src, d.len, p.block) IN
        Holds(p, u.buf) /\ u.len \in Nat /\ u.len <= ScratchBound(p.block)
      BY <1>0, UnapplyKeeps, PipeTypes
  <2> QED
      BY <1>0, <2>1, <2>2
<1> HIDE DEF r
<1> QED
    BY <1>0, <1>1, <1>2 DEF Reversing

LEMMA DecodeKeeps ==
    ASSUME NEW p, IsPipe(p), NEW c, NEW d, Holds(p, c), Holds(p, d),
           NEW len \in Nat, len <= ScratchBound(p.block), NEW mask
    PROVE  Reversing(p, Decode(p, c, d, len, mask))
<1> DEFINE n == Len(p.chain)
           f == Decodes(p, c, d, len, mask)
           S == {i \in 0 .. n : Reversing(p, f[i])}
<1>1. n \in Nat
    BY PipeTypes
<1>2. f[0] = Fetched(p, c, d, len) /\ \A i \in 1 .. n : f[i] = Unfilter(p, f[i - 1], n - i + 1, mask)
    BY <1>1, DecodesIs
<1> HIDE DEF f
<1>3. 0 \in S
  <2>1. \/ f[0] = [src |-> d, dst |-> c, len |-> len]
        \/ f[0] = [src |-> c, dst |-> d, len |-> len]
      BY <1>2 DEF Fetched
  <2>2. Reversing(p, f[0])
      BY <2>1 DEF Reversing
  <2> QED
      BY <1>1, <2>2
<1>4. ASSUME NEW i \in 0 .. n - 1, i \in S PROVE i + 1 \in S
  <2>1. i + 1 \in 1 .. n /\ (i + 1) - 1 = i /\ n - (i + 1) + 1 \in 1 .. n
      BY <1>1
  <2>2. Reversing(p, f[i]) /\ f[i + 1] = Unfilter(p, f[i], n - (i + 1) + 1, mask)
    <3> HIDE DEF n
    <3>1. f[i + 1] = Unfilter(p, f[(i + 1) - 1], n - (i + 1) + 1, mask)
        BY <1>2, <2>1
    <3> QED
        BY <1>4, <2>1, <3>1
  <2>3. Reversing(p, f[i + 1])
      BY <2>1, <2>2, UnfilterKeeps
  <2> QED
      BY <2>1, <2>3
<1> HIDE DEF S
<1>5. 0 .. n \subseteq S
    BY <1>1, <1>3, <1>4, InductionUpTo
<1>6. Reversing(p, f[n])
    BY <1>1, <1>5 DEF S
<1> QED
    BY <1>6 DEF Decode, f

-----------------------------------------------------------------------------
(* What the filters do to the data, and that it can be undone. *)

Unshuffled(p, a, b, n) == \A k \in 1 .. n : b[k] = a[Unplane(p, n, k)]

Summed(b) == b \o Checksum(b)

\* a is what filter f makes of b.
Filtered(p, f, b, a) ==
    \/ f = "shuffle" /\ Len(a) = Len(b) /\ Whole(p, Len(b)) = Len(b) /\ Unshuffled(p, a, b, Len(b))
    \/ f = "deflate" /\ a = Stream(b) /\ Squeezed(Len(b)) < Len(b)
    \/ f = "fletcher32" /\ a = Summed(b)

LEMMA SummedIs ==
    ASSUME NEW n \in Nat, NEW c, IsBuffer(c, n)
    PROVE  /\ IsBuffer(Summed(c), n + 4) /\ Len(Summed(c)) = n + 4
           /\ SameBytes(Summed(c), c, n)
           /\ \A k \in 1 .. 4 : Summed(c)[n + k] = Checksum(c)[k]
BY SumIs DEF Summed

\* What the shuffle has moved away is where the unshuffle looks for it.
LEMMA PlaneOfUnplane ==
    ASSUME NEW p, IsPipe(p), NEW n \in Nat, Whole(p, n) = n, NEW k \in 1 .. n
    PROVE  Unplane(p, n, k) \in 1 .. n /\ Plane(p, n, Unplane(p, n, k)) = k
<1> DEFINE e == n \div p.size
           v == (k - 1) % p.size
           w == (k - 1) \div p.size
           u == v * e + w
<1>1. p.size \in Nat \ {0} /\ e \in Nat /\ n = e * p.size /\ k - 1 \in Nat /\ k - 1 < e * p.size
    BY DivNat DEF Whole, IsPipe
<1>2. v \in 0 .. p.size - 1 /\ v \in Int /\ k - 1 = w * p.size + v
  <2> DEFINE m == k - 1
             z == p.size
  <2>1. m \in Int /\ z \in Nat \ {0}
      BY <1>1
  <2> HIDE DEF m, z
  <2>2. m % z \in 0 .. z - 1 /\ m = (m \div z) * z + (m % z)
      BY <2>1, DivMod
  <2>3. m % z \in Int
      BY <2>1, <2>2
  <2> QED
      BY <2>2, <2>3 DEF m, z
<1>3. w \in 0 .. e - 1
    BY <1>1, DivBound
<1>4. e \in Nat \ {0}
    BY <1>1, <1>3
<1>5. Unplane(p, n, k) = u + 1
    BY DEF Unplane
<1> HIDE DEF e, v, w
<1>6. u \in Nat /\ u < p.size * e
    BY <1>1, <1>2, <1>3, <1>4, PlaceBelow
<1>7. u \div e = v /\ u % e = w
    BY ONLY <1>2, <1>3, <1>4, DivModOf DEF u
<1>8. p.size * e = e * p.size
    BY <1>1
<1> HIDE DEF u
<1>9. u + 1 \in 1 .. n
    BY <1>1, <1>6, <1>8
<1>10. Plane(p, n, u + 1) = (u % e) * p.size + (u \div e) + 1
    BY <1>6 DEF Plane, e
<1> QED
    BY <1>1, <1>2, <1>5, <1>7, <1>9, <1>10

\* Bytes that are elements stay where they are.
LEMMA UnplaneOfBytes ==
    ASSUME NEW p, p.size = 1, NEW n \in Nat, NEW k \in 1 .. n
    PROVE  Unplane(p, n, k) = k /\ Plane(p, n, k) = k /\ Whole(p, n) = n
<1>1. (k - 1) % 1 = 0 /\ (k - 1) \div 1 = k - 1 /\ n \div 1 = n
    OBVIOUS
<1>2. (k - 1) % n = k - 1 /\ (k - 1) \div n = 0
  <2>1. n \in Nat \ {0} /\ k - 1 \in 0 .. n - 1 /\ k - 1 = 0 * n + (k - 1)
      OBVIOUS
  <2> QED
      BY <2>1, DivModOf
<1> QED
    BY <1>1, <1>2 DEF Unplane, Plane, Whole

\* Where no vector is filled, every byte goes to its plane and comes from it.
LEMMA AllInPlanes ==
    ASSUME NEW p, IsPipe(p), NEW n \in Nat, Vectors(p, n) = 0, NEW k \in 1 .. Whole(p, n)
    PROVE  InTail(p, n, k) /\ ~InVector(p, n, k)
<1> DEFINE e == n \div p.size
<1>1. p.size \in Nat \ {0} /\ e \in Nat /\ Whole(p, n) = e * p.size
    BY DivNat DEF IsPipe, Whole
<1>2. e \in Nat \ {0} /\ k - 1 \in Int /\ k > 0
    BY <1>1
<1>3. 16 \div p.size \in Int
  <2> DEFINE z == p.size
  <2>1. z \in Nat \ {0} /\ 16 \in Nat
      BY <1>1
  <2> HIDE DEF z
  <2>2. 16 \div z \in Nat
      BY <2>1, DivNat
  <2> QED
      BY <2>2 DEF z
<1> HIDE DEF e
<1>4. (k - 1) % e \in 0 .. e - 1
    BY <1>2, DivMod
<1> QED
    BY <1>2, <1>3, <1>4 DEF InTail, InVector, e

LEMMA BytesInPlanes ==
    ASSUME NEW p, p.size = 1, NEW n
    PROVE  Vectors(p, n) = 0
BY DEF Vectors

LEMMA ShuffleIs ==
    ASSUME NEW p, IsPipe(p), NEW n \in Nat, n <= ScratchBound(p.block), Whole(p, n) = n,
           Vectors(p, n) = 0,
           NEW dst, Holds(p, dst), NEW src, NEW b, IsBuffer(b, n), SameBytes(src, b, n)
    PROVE  LET a == Prefix(Shuffle(p, dst, src, n).buf, n) IN
           IsBuffer(a, n) /\ Filtered(p, "shuffle", b, a)
<1> DEFINE c == [k \in 1 .. n |-> ShuffledByte(p, dst, src, n, k)]
           r == Put(dst, c)
           a == Prefix(r, n)
<1>1. IsBuffer(c, n) /\ \A k \in 1 .. n : c[k] = ShuffledByte(p, dst, src, n, k)
    BY DEF IsBuffer
<1>2. Shuffle(p, dst, src, n).buf = r
    BY DEF Shuffle
<1> HIDE DEF c
<1>3. ASSUME NEW k \in 1 .. n PROVE c[Unplane(p, n, k)] = b[k]
  <2> DEFINE u == Unplane(p, n, k)
  <2>1. u \in 1 .. n /\ Plane(p, n, u) = k
      BY PlaneOfUnplane
  <2> HIDE DEF u
  <2>2. InTail(p, n, u)
      BY <2>1, AllInPlanes
  <2>3. c[u] = src[k]
      BY <1>1, <2>1, <2>2 DEF ShuffledByte
  <2> QED
      BY <2>3 DEF SameBytes, u
<1>4. SameBytes(r, c, n)
    BY <1>1, PutKeeps, PipeTypes DEF Holds
<1> HIDE DEF r
<1>5. IsBuffer(a, n) /\ Len(a) = n /\ SameBytes(a, r, n)
    BY PrefixIs
<1> HIDE DEF a
<1>6. ASSUME NEW k \in 1 .. n PROVE b[k] = a[Unplane(p, n, k)]
  <2>1. Unplane(p, n, k) \in 1 .. n
      BY PlaneOfUnplane
  <2> QED
      BY <1>3, <1>4, <1>5, <2>1 DEF SameBytes
<1>7. Unshuffled(p, a, b, n) /\ Len(b) = n
    BY <1>6, BufferLen DEF Unshuffled
<1>8. Filtered(p, "shuffle", b, a)
    BY <1>5, <1>7 DEF Filtered
<1> QED
    BY <1>2, <1>5, <1>8 DEF a

\* n is taken to be the length of data that is l bytes long: without the length
\* on disk it is the length of a chunk.
Taken(p, l, n) == n = l \/ (n = p.block /\ l <= n /\ Positions(p, "fletcher32") = {})

\* What comes before a shuffle has the length of a chunk.
LEMMA ShuffledWhole ==
    ASSUME NEW p, IsPipe(p), ShuffleSound(p), NEW i \in 1 .. Len(p.chain), p.chain[i] = "shuffle",
           NEW n, Fits(p, i - 1, n)
    PROVE  /\ n \in Nat /\ Whole(p, n) = n /\ Vectors(p, n) = 0
           /\ p.size = 1 \/ (n = p.block /\ AllShuffles(p, i))
<1>1. n \in Nat
    BY FitsBound
<1>2. CASE p.size = 1
    BY <1>1, <1>2, BytesInPlanes DEF Whole
<1>3. CASE p.size # 1
  <2>1. i \in Positions(p, "shuffle")
      BY PipeTypes DEF Positions
  <2>2. AllShuffles(p, i - 1)
      BY <1>3, <2>1, Zenon DEF ShuffleSound, ShuffleFirst, AllShuffles
  <2>3. AllShuffles(p, i)
    <3>1. i \in Int /\ \A k \in 1 .. i : k = i \/ k \in 1 .. i - 1
        BY PipeTypes
    <3> QED
        BY <2>2, <3>1 DEF AllShuffles
  <2>4. n = p.block
      BY <2>2 DEF Fits
  <2>5. PICK e \in Nat : p.block = e * p.size
      BY DEF IsPipe
  <2>6. p.size \in Nat \ {0}
      BY DEF IsPipe
  <2>7. (e * p.size) \div p.size = e
    <3> DEFINE z == p.size
    <3>1. z \in Nat \ {0} /\ 0 \in 0 .. z - 1 /\ e \in Int
        BY <2>6
    <3> HIDE DEF z
    <3>2. (e * z + 0) \div z = e
        BY <3>1, DivModOf
    <3>3. e * z + 0 = e * z
        BY <3>1
    <3> QED
        BY <3>2, <3>3 DEF z
  <2>8. Whole(p, n) = n
      BY <2>4, <2>5, <2>7 DEF Whole
  <2>9. Vectors(p, n) = 0
      BY <2>1, <2>4 DEF ShuffleSound
  <2> QED
      BY <1>1, <2>3, <2>4, <2>8, <2>9
<1> QED
    BY <1>2, <1>3

LEMMA UnshuffleIs ==
    ASSUME NEW p, IsPipe(p), ShuffleSound(p), NEW i \in 1 .. Len(p.chain), p.chain[i] = "shuffle",
           NEW l, Fits(p, i - 1, l), NEW a, NEW b, Unshuffled(p, a, b, l),
           NEW n \in Nat, n <= ScratchBound(p.block), Taken(p, l, n),
           NEW dst, Holds(p, dst), NEW src, SameBytes(src, a, l)
    PROVE  LET r == Unshuffle(p, dst, src, n) IN SameBytes(r.buf, b, l) /\ r.len = n
<1> DEFINE w == Whole(p, n)
           c == [k \in 1 .. w |-> UnshuffledByte(p, src, n, k)]
<1>1. l \in Nat /\ Whole(p, l) = l /\ (p.size = 1 \/ n = l) /\ Vectors(p, n) = 0
  <2>1. l \in Nat /\ Whole(p, l) = l /\ Vectors(p, l) = 0 /\ (p.size = 1 \/ l = p.block)
      BY ShuffledWhole
  <2> QED
      BY <2>1, BytesInPlanes DEF Taken
<1>2. w \in Nat /\ w <= ScratchBound(p.block) /\ l <= w
  <2>1. w \in Nat /\ w <= n
      BY WholeIs
  <2>2. l <= w
    <3>1. CASE n = l
        BY <1>1, <3>1
    <3>2. CASE p.size = 1
      <4>1. w = n
          BY <3>2 DEF Whole
      <4> QED
          BY <1>1, <4>1 DEF Taken
    <3> QED
        BY <1>1, <3>1, <3>2
  <2> QED
      BY <2>1, <2>2, PipeTypes
<1>3. ASSUME NEW k \in 1 .. l PROVE k \in 1 .. w /\ src[Unplane(p, n, k)] = b[k]
  <2>1. k \in 1 .. w /\ b[k] = a[Unplane(p, l, k)]
      BY <1>1, <1>2 DEF Unshuffled
  <2>2. Unplane(p, l, k) \in 1 .. l
      BY <1>1, PlaneOfUnplane
  <2>3. Unplane(p, n, k) = Unplane(p, l, k)
    <3>1. CASE n = l
        BY <3>1
    <3>2. CASE p.size = 1
      <4>1. k \in 1 .. n
          BY <1>1 DEF Taken
      <4> QED
          BY <1>1, <3>2, <4>1, UnplaneOfBytes
    <3> QED
        BY <1>1, <3>1, <3>2
  <2> QED
      BY <2>1, <2>2, <2>3 DEF SameBytes
<1>4. IsBuffer(c, w) /\ \A k \in 1 .. w : c[k] = src[Unplane(p, n, k)]
  <2>1. IsBuffer(c, w) /\ \A k \in 1 .. w : c[k] = UnshuffledByte(p, src, n, k)
      BY DEF IsBuffer
  <2>2. \A k \in 1 .. w : ~InVector(p, n, k)
      BY <1>1, AllInPlanes
  <2> HIDE DEF c, w
  <2> QED
      BY <2>1, <2>2 DEF UnshuffledByte
<1>5. Unshuffle(p, dst, src, n) = [buf |-> Put(dst, c), len |-> n]
    BY DEF Unshuffle
<1> HIDE DEF c, w
<1>6. SameBytes(Put(dst, c), c, w)
    BY <1>2, <1>4, PutKeeps, PipeTypes DEF Holds
<1>7. SameBytes(Put(dst, c), b, l)
    BY <1>3, <1>4, <1>6 DEF SameBytes
<1> QED
    BY <1>5, <1>7

LEMMA InflateIs ==
    ASSUME NEW p, IsPipe(p), NEW l \in Nat, NEW b, IsBuffer(b, l), Squeezed(l) < l,
           NEW n \in Nat, Squeezed(l) <= n, NEW room \in Nat, l <= room, l <= ScratchBound(p.block),
           NEW dst, Holds(p, dst), NEW src, SameBytes(src, Stream(b), Squeezed(l))
    PROVE  LET r == Inflate(dst, src, n, room) IN SameBytes(r.buf, b, l) /\ r.len = l
<1>1. Squeezed(l) \in Nat /\ Squeezed(l) > 0 /\ n > 0
    BY SqueezedIs
<1>2. \A k \in 1 .. Squeezed(l) : src[k] = StreamByte(k, l, b)
    BY StreamIs DEF SameBytes
<1>3. src[1] = <<1, l, b, 0>>
    BY <1>1, <1>2 DEF StreamByte
<1>4. src[1][2] = l /\ src[1][3] = b /\ Len(src[1]) = 4
    BY <1>3
<1>5. IsStream(src, n)
    BY <1>1, <1>2, <1>4 DEF IsStream
<1>6. Inflate(dst, src, n, room) = Result(dst, Prefix(b, l))
    BY <1>4, <1>5 DEF Inflate
<1>7. Prefix(b, l) = b
    BY PrefixIs, SameIsEqual
<1>8. SameBytes(Result(dst, b).buf, b, l) /\ Result(dst, b).len = l
    BY ResultKeeps
<1> QED
    BY <1>6, <1>7, <1>8

LEMMA UnfletcherIs ==
    ASSUME NEW p, IsPipe(p), NEW l \in Nat, NEW b, IsBuffer(b, l), l + 4 <= ScratchBound(p.block),
           NEW dst, Holds(p, dst), NEW src, SameBytes(src, Summed(b), l + 4)
    PROVE  LET r == Unfletcher(dst, src, l + 4) IN SameBytes(r.buf, b, l) /\ r.len = l
<1> DEFINE n == l + 4
<1>1. n \in Nat /\ n >= 4 /\ n - 4 = l /\ n - 3 = l + 1 /\ l <= n
    OBVIOUS
<1>2. Prefix(src, l) = b
  <2>1. SameBytes(src, b, l)
      BY SummedIs DEF SameBytes
  <2> QED
      BY <2>1, PrefixOfSame
<1>3. SubSeq(src, l + 1, n) = Checksum(b)
  <2> DEFINE t == SubSeq(src, l + 1, n)
  <2>1. t = [k \in 1 .. n - (l + 1) + 1 |-> src[k + (l + 1) - 1]]
      BY <1>1, SubSeqIs
  <2>2. n - (l + 1) + 1 = 4 /\ \A k \in 1 .. 4 : k + (l + 1) - 1 = l + k
      OBVIOUS
  <2>3. t = [k \in 1 .. 4 |-> src[l + k]]
      BY <2>1, <2>2
  <2> HIDE DEF t
  <2>4. ASSUME NEW k \in 1 .. 4 PROVE t[k] = Checksum(b)[k]
    <3>1. l + k \in 1 .. n
        OBVIOUS
    <3> QED
        BY <2>3, <3>1, SummedIs DEF SameBytes
  <2>5. IsBuffer(t, 4)
      BY <2>3 DEF IsBuffer
  <2>6. SameBytes(t, Checksum(b), 4)
      BY <2>4 DEF SameBytes
  <2> QED
      BY <2>5, <2>6, ChecksumIs, SameIsEqual DEF t
<1>4. Unfletcher(dst, src, n) = Result(dst, b)
    BY <1>1, <1>2, <1>3 DEF Unfletcher
<1>5. SameBytes(Result(dst, b).buf, b, l) /\ Result(dst, b).len = l
  <2>1. l <= ScratchBound(p.block)
      BY PipeTypes
  <2> QED
      BY <2>1, ResultKeeps
<1> QED
    BY <1>4, <1>5

\* A filter is undone where there is room for the data before it.
LEMMA UnapplyUndoes ==
    ASSUME NEW p, IsPipe(p), ShuffleSound(p), NEW i \in 1 .. Len(p.chain),
           NEW l, Fits(p, i - 1, l), NEW b, IsBuffer(b, l),
           NEW m, Fits(p, i, m), NEW a, IsBuffer(a, m), Filtered(p, p.chain[i], b, a),
           NEW n \in Nat, n <= ScratchBound(p.block), Taken(p, m, n),
           NEW room \in Nat, p.chain[i] = "deflate" => l <= room,
           NEW dst, Holds(p, dst), NEW src, SameBytes(src, a, m)
    PROVE  LET r == Unapply(p, p.chain[i], dst, src, n, room) IN
           SameBytes(r.buf, b, l) /\ Taken(p, l, r.len) /\ (n = m => r.len = l)
<1> DEFINE r == Unapply(p, p.chain[i], dst, src, n, room)
<1>0. /\ l \in Nat /\ l <= ScratchBound(p.block) /\ m \in Nat /\ m <= ScratchBound(p.block)
      /\ Len(b) = l /\ Len(a) = m
  <2>1. i \in Int /\ l \in Nat /\ m \in Nat /\ l <= ScratchBound(p.block) /\ m <= ScratchBound(p.block)
      BY FitsBound
  <2> QED
      BY <2>1, BufferLen
<1>1. CASE p.chain[i] = "shuffle"
  <2>1. m = l /\ Unshuffled(p, a, b, l)
      BY <1>0, <1>1 DEF Filtered
  <2>2. r = Unshuffle(p, dst, src, n)
      BY <1>1 DEF Unapply
  <2>3. SameBytes(Unshuffle(p, dst, src, n).buf, b, l) /\ Unshuffle(p, dst, src, n).len = n
      BY <1>0, <1>1, <2>1, UnshuffleIs
  <2> QED
      BY <2>1, <2>2, <2>3
<1>2. CASE p.chain[i] = "deflate"
  <2>1. a = Stream(b) /\ Squeezed(l) < l
      BY <1>0, <1>2 DEF Filtered
  <2>2. m = Squeezed(l)
      BY <1>0, <2>1, StreamIs
  <2>3. r = Inflate(dst, src, n, room)
      BY <1>2 DEF Unapply
  <2>4. Squeezed(l) <= n
      BY <1>0, <2>2 DEF Taken
  <2>5. SameBytes(Inflate(dst, src, n, room).buf, b, l) /\ Inflate(dst, src, n, room).len = l
    <3>1. l <= room
        BY <1>2
    <3> QED
        BY <1>0, <2>1, <2>2, <2>4, <3>1, InflateIs
  <2> QED
      BY <2>3, <2>5 DEF Taken
<1>3. CASE p.chain[i] = "fletcher32"
  <2>1. a = Summed(b)
      BY <1>0, <1>3 DEF Filtered
  <2>2. m = l + 4
      BY <1>0, <2>1, SummedIs
  <2>3. i \in Positions(p, "fletcher32")
      BY <1>3, PipeTypes DEF Positions
  <2>4. n = l + 4
      BY <2>2, <2>3 DEF Taken
  <2>5. r = Unfletcher(dst, src, l + 4)
      BY <1>3, <2>4 DEF Unapply
  <2>6. SameBytes(Unfletcher(dst, src, l + 4).buf, b, l) /\ Unfletcher(dst, src, l + 4).len = l
    <3>1. l + 4 <= ScratchBound(p.block)
        BY <1>0, <2>2
    <3>2. SameBytes(src, Summed(b), l + 4)
        BY <2>1, <2>2
    <3> HIDE DEF r
    <3> QED
        BY <1>0, <3>1, <3>2, UnfletcherIs
  <2> QED
      BY <2>5, <2>6 DEF Taken
<1>4. p.chain[i] \in Filters
    BY PipeTypes
<1> QED
    BY <1>1, <1>2, <1>3, <1>4 DEF Filters

-----------------------------------------------------------------------------
(* The trail of a chunk: the data between the filters. *)

\* K[i] is a length of data behind filter i.
Sized(p, K, i) == IsBuffer(K[i], Len(K[i])) /\ Fits(p, i, Len(K[i]))

Stepped(p, mask, K, i) ==
    IF i \in mask THEN K[i] = K[i - 1] ELSE Filtered(p, p.chain[i], K[i - 1], K[i])

\* K[0] is the chunk, K[i] what filter i has made of K[i - 1], or, where it was
\* skipped, K[i - 1].
Trail(p, mask, K, n) ==
    (\A i \in 0 .. n : Sized(p, K, i)) /\ (\A i \in 1 .. n : Stepped(p, mask, K, i))

LEMMA TrailStarts ==
    ASSUME NEW p, IsPipe(p), NEW b, IsBuffer(b, p.block), NEW mask
    PROVE  \E K : Trail(p, mask, K, 0) /\ K[0] = b
<1> DEFINE K == [i \in 0 .. 0 |-> b]
<1>1. K[0] = b
    OBVIOUS
<1>4. Len(b) = p.block
    BY BufferLen, PipeTypes
<1>2. Sized(p, K, 0)
    BY <1>1, <1>4, FitsStart DEF Sized
<1> HIDE DEF K
<1>3. Trail(p, mask, K, 0)
    BY <1>2 DEF Trail
<1> QED
    BY <1>1, <1>3

\* Behind filter i there is c, on a trail that begins with b.
Leads(p, mask, b, i, c) == mask \subseteq 1 .. i /\ \E K : Trail(p, mask, K, i) /\ K[i] = c /\ K[0] = b

LEMMA TrailGrows ==
    ASSUME NEW p, IsPipe(p), NEW i \in 1 .. Len(p.chain), NEW mask, mask \subseteq 1 .. i - 1,
           NEW K, Trail(p, mask, K, i - 1), NEW more,
           NEW c, IsBuffer(c, Len(c)), Fits(p, i, Len(c)),
           \/ more = mask \cup {i} /\ c = K[i - 1]
           \/ more = mask /\ Filtered(p, p.chain[i], K[i - 1], c)
    PROVE  Leads(p, more, K[0], i, c)
<1> DEFINE L == [k \in 0 .. i |-> IF k = i THEN c ELSE K[k]]
<1>0. i \in Nat \ {0} /\ i - 1 \in 0 .. i /\ i - 1 # i
    BY PipeTypes
<1>1. L[i] = c /\ L[i - 1] = K[i - 1] /\ L[0] = K[0] /\ \A k \in 0 .. i - 1 : L[k] = K[k]
    BY <1>0
<1> HIDE DEF L
<1>2. ASSUME NEW k \in 0 .. i PROVE Sized(p, L, k)
  <2>1. CASE k = i
      BY <1>1, <2>1 DEF Sized
  <2>2. CASE k # i
    <3>1. k \in 0 .. i - 1
        BY <1>0, <2>2
    <3>2. Sized(p, K, k)
        BY <3>1 DEF Trail
    <3> QED
        BY <1>1, <3>1, <3>2 DEF Sized
  <2> QED
      BY <2>1, <2>2
<1>3. ASSUME NEW k \in 1 .. i PROVE Stepped(p, more, L, k)
  <2>1. CASE k = i
    <3>1. i \notin mask
        BY <1>0
    <3> QED
        BY <1>1, <2>1, <3>1 DEF Stepped
  <2>2. CASE k # i
    <3>1. k \in 1 .. i - 1 /\ k \in 0 .. i - 1 /\ k - 1 \in 0 .. i - 1
        BY <1>0, <2>2
    <3>2. Stepped(p, mask, K, k)
        BY <3>1 DEF Trail
    <3>3. k \in mask <=> k \in more
        BY <2>2
    <3> QED
        BY <1>1, <3>1, <3>2, <3>3 DEF Stepped
  <2> QED
      BY <2>1, <2>2
<1>4. more \subseteq 1 .. i
  <2>1. mask \subseteq 1 .. i /\ i \in 1 .. i
      BY <1>0
  <2> QED
      BY <2>1
<1> QED
    BY <1>1, <1>2, <1>3, <1>4 DEF Trail, Leads

LEMMA ApplyFinds ==
    ASSUME NEW p, IsPipe(p), ShuffleSound(p), NEW i \in 1 .. Len(p.chain), NEW dst, Holds(p, dst),
           NEW n, Fits(p, i - 1, n), NEW b, IsBuffer(b, n), NEW src, SameBytes(src, b, n), NEW shrinks
    PROVE  LET r == Apply(p, p.chain[i], dst, src, n, shrinks) IN
           r.len = 0 \/ Filtered(p, p.chain[i], b, Prefix(r.buf, r.len))
<1> DEFINE r == Apply(p, p.chain[i], dst, src, n, shrinks)
<1>0. n \in Nat /\ n <= ScratchBound(p.block) /\ Prefix(src, n) = b /\ Len(b) = n
  <2>1. n \in Nat /\ n <= ScratchBound(p.block)
      BY FitsBound, PipeTypes
  <2> QED
      BY <2>1, PrefixOfSame, BufferLen
<1>1. CASE p.chain[i] = "shuffle"
  <2>1. r = Shuffle(p, dst, src, n) /\ r.len = n
      BY <1>1 DEF Apply, Shuffle
  <2>2. Whole(p, n) = n /\ Vectors(p, n) = 0
      BY <1>1, ShuffledWhole
  <2>3. Filtered(p, "shuffle", b, Prefix(Shuffle(p, dst, src, n).buf, n))
      BY <1>0, <2>2, ShuffleIs
  <2> QED
      BY <1>1, <2>1, <2>3
<1>2. CASE p.chain[i] = "deflate"
  <2>1. r = Deflate(p, dst, src, n, shrinks)
      BY <1>2 DEF Apply
  <2>2. CASE r = Refused(dst)
      BY <2>2 DEF Refused
  <2>3. CASE Squeezed(n) < n /\ r = Result(dst, Stream(b))
    <3> DEFINE m == Squeezed(n)
    <3>1. m \in Nat /\ m <= ScratchBound(p.block) /\ IsBuffer(Stream(b), m)
        BY <1>0, SqueezedIs, StreamIs, PipeTypes
    <3> HIDE DEF m, r
    <3>2. r.len = m /\ SameBytes(r.buf, Stream(b), m)
        BY <2>3, <3>1, ResultKeeps
    <3>3. Prefix(r.buf, r.len) = Stream(b)
        BY <3>1, <3>2, PrefixOfSame
    <3>4. Filtered(p, "deflate", b, Stream(b))
        BY <1>0, <2>3 DEF Filtered
    <3> QED
        BY <1>2, <3>3, <3>4 DEF r
  <2> QED
      BY <1>0, <2>1, <2>2, <2>3 DEF Deflate
<1>3. CASE p.chain[i] = "fletcher32"
  <2> DEFINE m == n + 4
  <2>1. r = Result(dst, Summed(b))
      BY <1>0, <1>3 DEF Apply, Fletcher, Summed
  <2>2. m \in Nat /\ IsBuffer(Summed(b), m)
      BY <1>0, SummedIs
  <2>3. m <= ScratchBound(p.block)
    <3> HIDE DEF m
    <3>1. Fits(p, i, m)
      <4>1. m = n + 4
          BY DEF m
      <4> QED
          BY <1>0, <1>3, <2>2, <4>1, FitsNext
    <3>2. i \in Int
        OBVIOUS
    <3> QED
        BY <3>1, FitsBound
  <2> HIDE DEF m, r
  <2>4. r.len = m /\ SameBytes(r.buf, Summed(b), m)
      BY <2>1, <2>2, <2>3, ResultKeeps
  <2>5. Prefix(r.buf, r.len) = Summed(b)
      BY <2>2, <2>4, PrefixOfSame
  <2>6. Filtered(p, "fletcher32", b, Summed(b))
      BY DEF Filtered
  <2> QED
      BY <1>3, <2>5, <2>6 DEF r
<1>4. p.chain[i] \in Filters
    BY PipeTypes
<1> QED
    BY <1>1, <1>2, <1>3, <1>4 DEF Filters

\* Behind filter i, e holds the end of a trail that begins with b.
Traces(p, e, i, K) ==
    /\ Trail(p, e.mask, K, i) /\ e.mask \subseteq 1 .. i
    /\ Len(K[i]) = e.len /\ SameBytes(e.src, K[i], e.len)

Tracked(p, e, i, b) == \E K : Traces(p, e, i, K) /\ K[0] = b

LEMMA BegunTracked ==
    ASSUME NEW p, IsPipe(p), NEW c, NEW d
    PROVE  Tracked(p, Begun(p, c, d), 0, Prefix(c, p.block))
<1> DEFINE b == Prefix(c, p.block)
           e == Begun(p, c, d)
<1>1. IsBuffer(b, p.block) /\ Len(b) = p.block /\ SameBytes(c, b, p.block)
    BY PrefixIs, PipeTypes DEF SameBytes
<1> HIDE DEF b
<1>2. PICK K : Trail(p, {}, K, 0) /\ K[0] = b
    BY <1>1, TrailStarts
<1>3. Traces(p, e, 0, K)
    BY <1>1, <1>2 DEF Traces, Begun
<1> HIDE DEF e
<1> QED
    BY <1>2, <1>3 DEF Tracked, b, e

LEMMA PingPongStepTracks ==
    ASSUME NEW p, IsPipe(p), ShuffleSound(p), NEW i \in 1 .. Len(p.chain),
           NEW e, Applied(p, e, i - 1), NEW b, Tracked(p, e, i - 1, b), NEW shrinks
    PROVE  Tracked(p, PingPongStep(p, e, i, shrinks), i, b)
<1> DEFINE r == Apply(p, p.chain[i], e.dst, e.src, e.len, shrinks)
           f == PingPongStep(p, e, i, shrinks)
<1>1. PICK K : Traces(p, e, i - 1, K) /\ K[0] = b
    BY DEF Tracked
<1>2. IsRecord(e) /\ Holds(p, e.dst) /\ Fits(p, i - 1, e.len)
    BY DEF Applied
<1>3. /\ Trail(p, e.mask, K, i - 1) /\ e.mask \subseteq 1 .. i - 1
      /\ Len(K[i - 1]) = e.len /\ SameBytes(e.src, K[i - 1], e.len)
    BY <1>1 DEF Traces
<1>4. IsBuffer(K[i - 1], e.len)
  <2>1. Sized(p, K, i - 1)
      BY <1>3, PipeTypes DEF Trail
  <2> QED
      BY <1>3, <2>1 DEF Sized
<1>5. f = IF r.len = 0 THEN [e EXCEPT !.mask = @ \cup {i}]
          ELSE [src |-> r.buf, dst |-> e.src, len |-> r.len, mask |-> e.mask]
    BY DEF PingPongStep
<1>6. Holds(p, r.buf) /\ (r.len = 0 \/ Fits(p, i, r.len))
    BY <1>2, ApplyKeeps
<1>7. r.len = 0 \/ Filtered(p, p.chain[i], K[i - 1], Prefix(r.buf, r.len))
    BY <1>2, <1>3, <1>4, ApplyFinds
<1> HIDE DEF r, f
<1>8. CASE r.len = 0
  <2>1. f = [src |-> e.src, dst |-> e.dst, len |-> e.len, mask |-> e.mask \cup {i}]
      BY <1>2, <1>5, <1>8 DEF IsRecord
  <2>2. Fits(p, i, e.len)
      BY <1>2, FitsBound, FitsNext
  <2>3. Leads(p, f.mask, K[0], i, K[i - 1])
    <3>1. f.mask = e.mask \cup {i} /\ IsBuffer(K[i - 1], Len(K[i - 1])) /\ Fits(p, i, Len(K[i - 1]))
        BY <1>3, <1>4, <2>1, <2>2
    <3> QED
        BY <1>3, <3>1, TrailGrows
  <2>4. PICK L : Trail(p, f.mask, L, i) /\ L[i] = K[i - 1] /\ L[0] = K[0]
      BY <2>3 DEF Leads
  <2>5. Traces(p, f, i, L)
      BY <1>3, <2>1, <2>3, <2>4 DEF Traces, Leads
  <2> QED
      BY <1>1, <2>4, <2>5 DEF Tracked, f
<1>9. CASE r.len # 0
  <2> DEFINE c == Prefix(r.buf, r.len)
  <2>1. f = [src |-> r.buf, dst |-> e.src, len |-> r.len, mask |-> e.mask]
      BY <1>5, <1>9
  <2>2. r.len \in Nat /\ Fits(p, i, r.len)
      BY <1>6, <1>9 DEF Fits
  <2>3. IsBuffer(c, r.len) /\ Len(c) = r.len /\ SameBytes(r.buf, c, r.len)
      BY <2>2, PrefixIs DEF SameBytes
  <2>4. Filtered(p, p.chain[i], K[i - 1], c)
      BY <1>7, <1>9
  <2> HIDE DEF c
  <2>5. Leads(p, f.mask, K[0], i, c)
    <3>1. f.mask = e.mask /\ IsBuffer(c, Len(c)) /\ Fits(p, i, Len(c))
        BY <2>1, <2>2, <2>3
    <3> QED
        BY <1>3, <2>4, <3>1, TrailGrows
  <2>6. PICK L : Trail(p, f.mask, L, i) /\ L[i] = c /\ L[0] = K[0]
      BY <2>5 DEF Leads
  <2>7. Traces(p, f, i, L)
      BY <2>1, <2>3, <2>5, <2>6 DEF Traces, Leads
  <2> QED
      BY <1>1, <2>6, <2>7 DEF Tracked, f
<1> QED
    BY <1>8, <1>9

LEMMA PingPongTracks ==
    ASSUME NEW p, IsPipe(p), ShuffleSound(p), NEW c, NEW d, Holds(p, c), Holds(p, d), NEW shrinks
    PROVE  Tracked(p, PingPong(p, c, d, shrinks), Len(p.chain), Prefix(c, p.block))
<1> DEFINE n == Len(p.chain)
           f == PingPongs(p, c, d, shrinks)
           b == Prefix(c, p.block)
           S == {i \in 0 .. n : Applied(p, f[i], i) /\ Tracked(p, f[i], i, b)}
<1>1. n \in Nat
    BY PipeTypes
<1>2. f[0] = Begun(p, c, d) /\ \A i \in 1 .. n : f[i] = PingPongStep(p, f[i - 1], i, shrinks)
    BY <1>1, PingPongsIs
<1> HIDE DEF f
<1>3. 0 \in S
    BY <1>1, <1>2, BegunApplies, BegunTracked
<1> HIDE DEF b
<1>4. ASSUME NEW i \in 0 .. n - 1, i \in S PROVE i + 1 \in S
  <2>1. i + 1 \in 1 .. n /\ (i + 1) - 1 = i
      BY <1>1
  <2>2. /\ Applied(p, f[i], (i + 1) - 1) /\ Tracked(p, f[i], (i + 1) - 1, b)
        /\ f[i + 1] = PingPongStep(p, f[i], i + 1, shrinks)
      BY <1>2, <1>4, <2>1
  <2>3. Applied(p, f[i + 1], i + 1) /\ Tracked(p, f[i + 1], i + 1, b)
    <3> DEFINE m == i + 1
    <3>1. m \in 1 .. Len(p.chain) /\ Applied(p, f[i], m - 1) /\ Tracked(p, f[i], m - 1, b)
        BY <2>1, <2>2
    <3> HIDE DEF m
    <3>2. Applied(p, PingPongStep(p, f[i], m, shrinks), m) /\ Tracked(p, PingPongStep(p, f[i], m, shrinks), m, b)
        BY <3>1, PingPongStepKeeps, PingPongStepTracks
    <3> QED
        BY <2>2, <3>2 DEF m
  <2> QED
      BY <2>1, <2>3
<1> HIDE DEF S
<1>5. 0 .. n \subseteq S
    BY <1>1, <1>3, <1>4, InductionUpTo
<1>6. Tracked(p, f[n], n, b)
    BY <1>1, <1>5 DEF S
<1> QED
    BY <1>6 DEF PingPong, f, b

\* Any data of the length of a chunk can have come out of shuffles.
ShuffledFrom(p, i, c) == \E K : Trail(p, {}, K, i) /\ K[i] = c

LEMMA ShufflesGoBack ==
    ASSUME NEW p, IsPipe(p), ShuffleSound(p), p.size # 1, NEW i \in 0 .. Len(p.chain), AllShuffles(p, i),
           NEW c, IsBuffer(c, p.block)
    PROVE  ShuffledFrom(p, i, c)
<1> DEFINE n == p.block
           S == {k \in 0 .. i : \A d : IsBuffer(d, n) => ShuffledFrom(p, k, d)}
<1>1. n \in Nat /\ i \in Nat /\ i <= Len(p.chain)
    BY PipeTypes
<1>2. 0 \in S
  <2>1. ASSUME NEW d, IsBuffer(d, p.block) PROVE ShuffledFrom(p, 0, d)
    <3>1. \E K : Trail(p, {}, K, 0) /\ K[0] = d
        BY <2>1, TrailStarts
    <3> QED
        BY <3>1 DEF ShuffledFrom
  <2>2. 0 \in 0 .. i
      BY <1>1
  <2> QED
      BY <2>1, <2>2
<1>3. ASSUME NEW k \in 0 .. i - 1, k \in S PROVE k + 1 \in S
  <2> DEFINE m == k + 1
  <2>0. m \in 1 .. Len(p.chain) /\ m - 1 = k /\ m \in 1 .. i /\ m \in 0 .. i
      BY <1>1, PipeTypes
  <2>1. p.chain[m] = "shuffle" /\ AllShuffles(p, m) /\ AllShuffles(p, k)
      BY <1>1, <2>0 DEF AllShuffles
  <2> HIDE DEF m
  <2>2. ASSUME NEW d, IsBuffer(d, n) PROVE ShuffledFrom(p, m, d)
    <3> DEFINE b == [l \in 1 .. n |-> d[Unplane(p, n, l)]]
    <3>1. IsBuffer(b, n) /\ Unshuffled(p, d, b, n) /\ Len(b) = n
        BY <1>1 DEF IsBuffer, Unshuffled
    <3> HIDE DEF b
    <3>2. PICK K : Trail(p, {}, K, k) /\ K[k] = b
        BY <1>3, <3>1 DEF ShuffledFrom
    <3>3. Len(d) = n /\ Fits(p, m, n) /\ Fits(p, k, n)
      <4>1. Len(d) = n
          BY <1>1, <2>2, BufferLen
      <4> QED
          BY <1>1, <2>0, <4>1 DEF Fits, Room
    <3>4. Whole(p, n) = n
        BY <2>0, <2>1, <3>3, ShuffledWhole
    <3>5. Filtered(p, p.chain[m], K[m - 1], d)
        BY <2>0, <2>1, <3>1, <3>2, <3>3, <3>4 DEF Filtered
    <3>6. Leads(p, {}, K[0], m, d)
      <4>1. IsBuffer(d, Len(d)) /\ Fits(p, m, Len(d)) /\ Trail(p, {}, K, m - 1) /\ {} \subseteq 1 .. m - 1
          BY <2>0, <2>2, <3>2, <3>3
      <4> HIDE DEF n
      <4> QED
          BY <2>0, <3>5, <4>1, TrailGrows
    <3> QED
        BY <3>6 DEF Leads, ShuffledFrom
  <2> QED
      BY <2>0, <2>2 DEF m
<1> HIDE DEF S
<1>4. 0 .. i \subseteq S
    BY <1>1, <1>2, <1>3, InductionUpTo
<1> QED
    BY <1>1, <1>4 DEF S

\* Bytes that are elements can be shuffled in place.
IsOverwritten(p, buffer, n, f) ==
    f = [k \in 1 .. Whole(p, n) |->
            IF InTail(p, n, k) /\ Plane(p, n, k) < k /\ InTail(p, n, Plane(p, n, k))
            THEN f[Plane(p, n, k)]
            ELSE ShuffledByte(p, buffer, buffer, n, k)]

LEMMA OverwrittenBytes ==
    ASSUME NEW p, IsPipe(p), p.size = 1, NEW n \in Nat, NEW c
    PROVE  \A k \in 1 .. n : Overwritten(p, c, n)[k] = c[k]
<1>1. Whole(p, n) = n
    BY DEF Whole
<1>2. \A k \in 1 .. n : ~(Plane(p, n, k) < k) /\ ShuffledByte(p, c, c, n, k) = c[k]
  <2>1. \A k \in 1 .. n : Plane(p, n, k) = k /\ ~(k < k)
      BY UnplaneOfBytes
  <2>2. \A k \in 1 .. n : InTail(p, n, k)
      BY <1>1, AllInPlanes, BytesInPlanes
  <2> QED
      BY <2>1, <2>2 DEF ShuffledByte
<1> DEFINE g == [k \in 1 .. n |-> c[k]]
<1>3. IsOverwritten(p, c, n, g)
    BY <1>1, <1>2 DEF IsOverwritten
<1> DEFINE h == Overwritten(p, c, n)
<1>4. IsOverwritten(p, c, n, h)
  <2>1. \E f : IsOverwritten(p, c, n, f)
      BY <1>3
  <2> QED
      BY <2>1, Zenon DEF IsOverwritten, Overwritten
<1> HIDE DEF h
<1>5. \A k \in 1 .. n : h[k] = c[k]
    BY <1>1, <1>2, <1>4 DEF IsOverwritten
<1> QED
    BY <1>5 DEF h

\* The in-place path leaves the end of a trail too, but for what the shuffle
\* overwrites it begins elsewhere.
InPlaceTracked(p, e, i, b) ==
    /\ e.mask = {}
    /\ \E K : /\ Traces(p, e, i, K)
              /\ Positions(p, "shuffle") = {} \/ p.size = 1 => K[0] = b

LEMMA InPlaceStepTracks ==
    ASSUME NEW p, IsPipe(p), AllInplace(p), ShuffleSound(p), NEW i \in 1 .. Len(p.chain),
           NEW e, Applied(p, e, i - 1), NEW b, InPlaceTracked(p, e, i - 1, b)
    PROVE  InPlaceTracked(p, InPlaceStep(p, e, i), i, b)
<1> DEFINE r == IF p.chain[i] = "shuffle" THEN ShuffleInPlace(p, e.src, e.len)
                ELSE Fletcher(e.src, e.src, e.len)
           f == InPlaceStep(p, e, i)
           c == Prefix(r.buf, r.len)
<1>1. PICK K : /\ Traces(p, e, i - 1, K)
               /\ Positions(p, "shuffle") = {} \/ p.size = 1 => K[0] = b
    BY DEF InPlaceTracked
<1>2. IsRecord(e) /\ Holds(p, e.src) /\ Fits(p, i - 1, e.len) /\ e.len \in Nat
    BY FitsBound DEF Applied
<1>3. /\ Trail(p, {}, K, i - 1)
      /\ Len(K[i - 1]) = e.len /\ SameBytes(e.src, K[i - 1], e.len) /\ e.mask = {}
    BY <1>1 DEF Traces, InPlaceTracked
<1>4. IsBuffer(K[i - 1], e.len)
  <2>1. Sized(p, K, i - 1)
      BY <1>3, PipeTypes DEF Trail
  <2> QED
      BY <1>3, <2>1 DEF Sized
<1>5. f = [src |-> r.buf, dst |-> e.dst, len |-> r.len, mask |-> {}]
  <2>1. f = [e EXCEPT !.src = r.buf, !.len = r.len]
      BY DEF InPlaceStep
  <2> HIDE DEF f, r
  <2> QED
      BY <1>2, <1>3, <2>1 DEF IsRecord
<1>6. Applied(p, f, i)
    BY InPlaceStepKeeps
<1>7. Fits(p, i, r.len) /\ r.len \in Nat
  <2> HIDE DEF f, r
  <2> QED
      BY <1>5, <1>6 DEF Applied, Fits
<1>8. IsBuffer(c, r.len) /\ Len(c) = r.len /\ SameBytes(r.buf, c, r.len)
  <2> HIDE DEF r
  <2> QED
      BY <1>7, PrefixIs DEF SameBytes
<1>9. \/ Leads(p, {}, K[0], i, c)
      \/ p.chain[i] = "shuffle" /\ p.size # 1 /\ ShuffledFrom(p, i, c)
  <2>0. ASSUME Filtered(p, p.chain[i], K[i - 1], c) PROVE Leads(p, {}, K[0], i, c)
    <3> HIDE DEF c, r
    <3>1. IsBuffer(c, Len(c)) /\ Fits(p, i, Len(c)) /\ {} \subseteq 1 .. i - 1
        BY <1>7, <1>8
    <3> QED
        BY <1>3, <2>0, <3>1, TrailGrows
  <2>1. CASE p.chain[i] = "fletcher32"
    <3>1. r = Apply(p, p.chain[i], e.src, e.src, e.len, FALSE)
        BY <2>1 DEF Apply
    <3>2. r.len # 0
      <4>1. Fletcher(e.src, e.src, e.len).len = Len(Prefix(e.src, e.len) \o Checksum(Prefix(e.src, e.len)))
          BY DEF Fletcher, Result
      <4>2. Len(Prefix(e.src, e.len) \o Checksum(Prefix(e.src, e.len))) = e.len + 4
          BY <1>2, PrefixIs, SumIs
      <4> QED
          BY <1>2, <2>1, <4>1, <4>2
    <3> HIDE DEF r
    <3>3. r.len = 0 \/ Filtered(p, p.chain[i], K[i - 1], Prefix(r.buf, r.len))
        BY <1>2, <1>3, <1>4, <3>1, ApplyFinds
    <3> QED
        BY <2>0, <3>2, <3>3
  <2>2. CASE p.chain[i] = "shuffle" /\ p.size = 1
    <3> DEFINE n == e.len
               d == [k \in 1 .. Whole(p, n) |-> Overwritten(p, e.src, n)[k]]
    <3>1. r.buf = Put(e.src, d) /\ r.len = n
        BY <2>2 DEF ShuffleInPlace
    <3>2. n \in Nat /\ Whole(p, n) = n /\ n <= ScratchBound(p.block)
        BY <1>2, <2>2, ShuffledWhole, FitsBound
    <3>3. IsBuffer(d, n) /\ SameBytes(d, e.src, n)
      <4>1. \A k \in 1 .. n : Overwritten(p, e.src, n)[k] = e.src[k]
          BY <2>2, <3>2, OverwrittenBytes
      <4> QED
          BY <3>2, <4>1 DEF IsBuffer, SameBytes
    <3> HIDE DEF d, r
    <3>4. SameBytes(r.buf, d, n)
        BY <1>2, <3>1, <3>2, <3>3, PutKeeps, PipeTypes DEF Holds
    <3>5. SameBytes(c, K[i - 1], n) /\ Len(K[i - 1]) = n /\ Len(c) = n
        BY <1>3, <1>8, <3>1, <3>3, <3>4 DEF SameBytes
    <3> HIDE DEF n, c
    <3>6. Unshuffled(p, c, K[i - 1], n)
        BY <2>2, <3>2, <3>5, UnplaneOfBytes DEF SameBytes, Unshuffled
    <3>7. Filtered(p, p.chain[i], K[i - 1], c)
        BY <2>2, <3>2, <3>5, <3>6 DEF Filtered
    <3> QED
        BY <2>0, <3>7
  <2>3. CASE p.chain[i] = "shuffle" /\ p.size # 1
    <3>1. r.len = e.len
        BY <2>3 DEF ShuffleInPlace
    <3>2. e.len = p.block /\ AllShuffles(p, i)
        BY <1>2, <2>3, ShuffledWhole
    <3> HIDE DEF r, c
    <3>3. i \in 0 .. Len(p.chain) /\ IsBuffer(c, p.block)
        BY <1>8, <3>1, <3>2, PipeTypes
    <3> QED
        BY <2>3, <3>2, <3>3, ShufflesGoBack
  <2>4. p.chain[i] \in {"shuffle", "fletcher32"}
      BY PipeTypes DEF AllInplace, Filters
  <2> QED
      BY <2>1, <2>2, <2>3, <2>4
<1> HIDE DEF r, f, c
<1>10. ASSUME NEW L, Trail(p, {}, L, i), L[i] = c PROVE Traces(p, f, i, L)
    BY <1>5, <1>8, <1>10 DEF Traces
<1>11. CASE Leads(p, {}, K[0], i, c)
  <2>1. PICK L : Trail(p, {}, L, i) /\ L[i] = c /\ L[0] = K[0]
      BY <1>11 DEF Leads
  <2>2. Traces(p, f, i, L)
      BY <1>10, <2>1
  <2>3. f.mask = {}
      BY <1>5
  <2>4. InPlaceTracked(p, f, i, b)
      BY <1>1, <2>1, <2>2, <2>3 DEF InPlaceTracked
  <2> QED
      BY <2>4 DEF f
<1>12. CASE p.chain[i] = "shuffle" /\ p.size # 1 /\ ShuffledFrom(p, i, c)
  <2>1. PICK L : Trail(p, {}, L, i) /\ L[i] = c
      BY <1>12 DEF ShuffledFrom
  <2>2. Traces(p, f, i, L)
      BY <1>10, <2>1
  <2>3. i \in Positions(p, "shuffle")
      BY <1>12, PipeTypes DEF Positions
  <2>4. InPlaceTracked(p, f, i, b)
      BY <1>5, <1>12, <2>2, <2>3 DEF InPlaceTracked
  <2> QED
      BY <2>4 DEF f
<1> QED
    BY <1>9, <1>11, <1>12

LEMMA InPlaceTracks ==
    ASSUME NEW p, IsPipe(p), AllInplace(p), ShuffleSound(p), NEW c, NEW d, Holds(p, c), Holds(p, d)
    PROVE  InPlaceTracked(p, InPlace(p, c, d), Len(p.chain), Prefix(c, p.block))
<1> DEFINE n == Len(p.chain)
           f == InPlaces(p, c, d)
           b == Prefix(c, p.block)
           S == {i \in 0 .. n : Applied(p, f[i], i) /\ InPlaceTracked(p, f[i], i, b)}
<1>1. n \in Nat
    BY PipeTypes
<1>2. f[0] = Begun(p, c, d) /\ \A i \in 1 .. n : f[i] = InPlaceStep(p, f[i - 1], i)
    BY <1>1, InPlacesIs
<1> HIDE DEF f
<1>3. 0 \in S
  <2>1. Tracked(p, f[0], 0, b)
      BY <1>2, BegunTracked
  <2>2. f[0].mask = {}
      BY <1>2 DEF Begun
  <2> HIDE DEF b
  <2>3. InPlaceTracked(p, f[0], 0, b)
      BY <2>1, <2>2 DEF Tracked, InPlaceTracked
  <2> QED
      BY <1>1, <1>2, <2>3, BegunApplies
<1> HIDE DEF b
<1>4. ASSUME NEW i \in 0 .. n - 1, i \in S PROVE i + 1 \in S
  <2>1. i + 1 \in 1 .. n /\ (i + 1) - 1 = i
      BY <1>1
  <2>2. /\ Applied(p, f[i], (i + 1) - 1) /\ InPlaceTracked(p, f[i], (i + 1) - 1, b)
        /\ f[i + 1] = InPlaceStep(p, f[i], i + 1)
      BY <1>2, <1>4, <2>1
  <2>3. Applied(p, f[i + 1], i + 1) /\ InPlaceTracked(p, f[i + 1], i + 1, b)
    <3> DEFINE m == i + 1
    <3>1. m \in 1 .. Len(p.chain) /\ Applied(p, f[i], m - 1) /\ InPlaceTracked(p, f[i], m - 1, b)
        BY <2>1, <2>2
    <3> HIDE DEF m
    <3>2. Applied(p, InPlaceStep(p, f[i], m), m) /\ InPlaceTracked(p, InPlaceStep(p, f[i], m), m, b)
        BY <3>1, InPlaceStepKeeps, InPlaceStepTracks
    <3> QED
        BY <2>2, <3>2 DEF m
  <2> QED
      BY <2>1, <2>3
<1> HIDE DEF S
<1>5. 0 .. n \subseteq S
    BY <1>1, <1>3, <1>4, InductionUpTo
<1>6. InPlaceTracked(p, f[n], n, b)
    BY <1>1, <1>5 DEF S
<1> QED
    BY <1>6 DEF InPlace, f, b

\* Whichever way a chunk is encoded, it can be traced back, and where the
\* writer's chain is sound, to the chunk itself.
LEMMA EncodeTracks ==
    ASSUME NEW p, IsPipe(p), ShuffleSound(p), NEW c, NEW d, Holds(p, c), Holds(p, d), NEW shrinks,
           NEW kind \in {"basic", "pool"}
    PROVE  LET e == IF kind = "pool" THEN EncodeInPool(p, c, shrinks) ELSE Encode(p, c, d, shrinks) IN
           \E K : /\ Traces(p, e, Len(p.chain), K)
                  /\ WritesSound(p, kind) => K[0] = Prefix(c, p.block)
<1> DEFINE b == Prefix(c, p.block)
<1>1. CASE kind = "pool"
  <2> DEFINE g == Put(Fresh(p), b)
  <2>1. Holds(p, Fresh(p))
      BY DEF Holds, Fresh, IsBuffer
  <2>2. IsBuffer(b, p.block)
      BY PrefixIs, PipeTypes
  <2>3. Holds(p, g) /\ SameBytes(g, b, p.block)
    <3> HIDE DEF b
    <3> QED
        BY <2>1, <2>2, PutKeeps, PipeTypes DEF Holds
  <2>4. Prefix(g, p.block) = b
    <3> HIDE DEF b, g
    <3> QED
        BY <2>2, <2>3, PrefixOfSame, PipeTypes
  <2>5. Tracked(p, EncodeInPool(p, c, shrinks), Len(p.chain), b)
    <3>1. EncodeInPool(p, c, shrinks) = PingPong(p, g, Fresh(p), shrinks)
        BY DEF EncodeInPool
    <3> HIDE DEF g
    <3>2. Tracked(p, PingPong(p, g, Fresh(p), shrinks), Len(p.chain), Prefix(g, p.block))
        BY <2>1, <2>3, PingPongTracks
    <3> QED
        BY <2>4, <3>1, <3>2
  <2> QED
      BY <1>1, <2>5 DEF Tracked
<1>2. CASE kind = "basic" /\ ~AllInplace(p)
  <2>1. Tracked(p, Encode(p, c, d, shrinks), Len(p.chain), b)
      BY <1>2, PingPongTracks DEF Encode
  <2> QED
      BY <1>2, <2>1 DEF Tracked
<1>3. CASE kind = "basic" /\ AllInplace(p)
  <2>1. InPlaceTracked(p, Encode(p, c, d, shrinks), Len(p.chain), b)
      BY <1>3, InPlaceTracks DEF Encode
  <2> QED
      BY <1>3, <2>1 DEF InPlaceTracked, WritesSound
<1> QED
    BY <1>1, <1>2, <1>3

-----------------------------------------------------------------------------
(* The way back. *)

\* HDF5's shuffle undoes what was put in planes, and its deflate a stream.
LEMMA HdfUnapplyUndoes ==
    ASSUME NEW p, IsPipe(p), ShuffleSound(p), NEW i \in 1 .. Len(p.chain), p.chain[i] # "fletcher32",
           NEW l, Fits(p, i - 1, l), NEW b, IsBuffer(b, l),
           NEW m, Fits(p, i, m), NEW a, IsBuffer(a, m), Filtered(p, p.chain[i], b, a),
           NEW dst, Holds(p, dst), NEW src, SameBytes(src, a, m)
    PROVE  LET r == HdfUnapply(p, p.chain[i], dst, src, m) IN
           Holds(p, r.buf) /\ r.len = l /\ SameBytes(r.buf, b, l)
<1> DEFINE r == HdfUnapply(p, p.chain[i], dst, src, m)
<1>0. /\ l \in Nat /\ l <= ScratchBound(p.block) /\ m \in Nat /\ m <= ScratchBound(p.block)
      /\ Len(b) = l /\ Len(a) = m
  <2>1. i \in Int /\ l \in Nat /\ m \in Nat /\ l <= ScratchBound(p.block) /\ m <= ScratchBound(p.block)
      BY FitsBound
  <2> QED
      BY <2>1, BufferLen
<1>1. CASE p.chain[i] = "shuffle"
  <2>1. m = l /\ Whole(p, l) = l /\ Unshuffled(p, a, b, l)
      BY <1>0, <1>1 DEF Filtered
  <2> DEFINE c == [k \in 1 .. m |-> IF k <= Whole(p, m) THEN src[Unplane(p, m, k)] ELSE src[k]]
  <2>2. r = Result(dst, c)
      BY <1>1 DEF HdfUnapply, HdfUnshuffle
  <2>3. ASSUME NEW k \in 1 .. l PROVE src[Unplane(p, l, k)] = b[k]
    <3>1. Unplane(p, l, k) \in 1 .. l
        BY <1>0, <2>1, PlaneOfUnplane
    <3> QED
        BY <2>1, <3>1 DEF SameBytes, Unshuffled
  <2>4. IsBuffer(c, l) /\ SameBytes(c, b, l)
    <3>1. IsBuffer(c, l) /\ \A k \in 1 .. l : c[k] = src[Unplane(p, l, k)]
        BY <1>0, <2>1 DEF IsBuffer
    <3> HIDE DEF c
    <3> QED
        BY <2>3, <3>1 DEF SameBytes
  <2> HIDE DEF c, r
  <2>5. Holds(p, r.buf) /\ r.len = l /\ SameBytes(r.buf, c, l)
      BY <1>0, <2>2, <2>4, ResultKeeps
  <2> QED
      BY <2>4, <2>5 DEF SameBytes, r
<1>2. CASE p.chain[i] = "deflate"
  <2> DEFINE room == ScratchBound(p.block)
  <2>1. a = Stream(b) /\ Squeezed(l) < l
      BY <1>0, <1>2 DEF Filtered
  <2>2. m = Squeezed(l)
      BY <1>0, <2>1, StreamIs
  <2>3. r = Inflate(dst, src, m, room)
      BY <1>2 DEF HdfUnapply
  <2>4. room \in Nat /\ l <= room
      BY <1>0, PipeTypes
  <2> HIDE DEF r
  <2>5. SameBytes(r.buf, b, l) /\ r.len = l
    <3> HIDE DEF room
    <3> QED
        BY <1>0, <2>1, <2>2, <2>3, <2>4, InflateIs
  <2>6. Holds(p, r.buf)
    <3>1. r = Unapply(p, p.chain[i], dst, src, m, room)
        BY <1>2, <2>3 DEF Unapply
    <3>2. room \in Nat /\ room <= ScratchBound(p.block)
        BY <2>4
    <3> HIDE DEF room
    <3> QED
        BY <1>0, <3>1, <3>2, UnapplyKeeps
  <2> QED
      BY <2>5, <2>6 DEF r
<1>3. p.chain[i] \in Filters
    BY PipeTypes
<1> QED
    BY <1>1, <1>2, <1>3 DEF Filters

\* d holds b, for what filter i has made.
HdfHolds(p, d, i, b) == Holds(p, d.buf) /\ d.len = Len(b) /\ SameBytes(d.buf, b, Len(b))

LEMMA HdfUnfilterBack ==
    ASSUME NEW p, IsPipe(p), ShuffleSound(p), NoChecksum(p),
           NEW mask, NEW K, Trail(p, mask, K, Len(p.chain)),
           NEW i \in 1 .. Len(p.chain), NEW d, HdfHolds(p, d, i, K[i])
    PROVE  HdfHolds(p, HdfUnfilter(p, d, i, mask), i - 1, K[i - 1])
<1>1. Sized(p, K, i) /\ Sized(p, K, i - 1) /\ Stepped(p, mask, K, i)
    BY PipeTypes DEF Trail
<1>2. CASE i \in mask
    BY <1>1, <1>2 DEF Stepped, HdfUnfilter, HdfHolds
<1>3. CASE i \notin mask
  <2> DEFINE b == K[i - 1]
             a == K[i]
             l == Len(b)
             m == Len(a)
             r == HdfUnapply(p, p.chain[i], Fresh(p), d.buf, d.len)
  <2>1. Filtered(p, p.chain[i], b, a)
      BY <1>1, <1>3 DEF Stepped
  <2>2. IsBuffer(b, l) /\ Fits(p, i - 1, l) /\ IsBuffer(a, m) /\ Fits(p, i, m)
      BY <1>1 DEF Sized
  <2>3. d.len = m /\ SameBytes(d.buf, a, m)
      BY DEF HdfHolds
  <2>4. Holds(p, Fresh(p))
      BY DEF Holds, Fresh, IsBuffer
  <2>5. HdfUnfilter(p, d, i, mask) = r
      BY <1>3 DEF HdfUnfilter
  <2> HIDE DEF a, b, l, m
  <2>6. p.chain[i] # "fletcher32"
      BY PipeTypes DEF NoChecksum, Positions
  <2>7. Holds(p, r.buf) /\ r.len = l /\ SameBytes(r.buf, b, l)
      BY <2>1, <2>2, <2>3, <2>4, <2>6, HdfUnapplyUndoes
  <2> QED
      BY <2>5, <2>7 DEF HdfHolds, l, b
<1> QED
    BY <1>2, <1>3

\* The way back starts at the last filter.
LEMMA Backwards ==
    ASSUME NEW n \in Nat, NEW i \in 0 .. n - 1
    PROVE  /\ i + 1 \in 1 .. n /\ (i + 1) - 1 = i /\ n - i \in 1 .. n
           /\ n - (i + 1) + 1 = n - i /\ (n - i) - 1 = n - (i + 1)
OBVIOUS

\* The HDF5 library reads from a chunk what it was made of.
LEMMA HdfDecodeBack ==
    ASSUME NEW p, IsPipe(p), ShuffleSound(p), NoChecksum(p),
           NEW K, NEW chunk, Trail(p, chunk.mask, K, Len(p.chain)),
           chunk.bytes = K[Len(p.chain)]
    PROVE  HdfDecode(p, chunk) = K[0]
<1> DEFINE n == Len(p.chain)
           f == HdfDecodes(p, chunk)
           S == {i \in 0 .. n : HdfHolds(p, f[i], n - i, K[n - i])}
<1>1. n \in Nat
    BY PipeTypes
<1>2. /\ f[0] = [buf |-> Put(Fresh(p), chunk.bytes), len |-> Len(chunk.bytes)]
      /\ \A i \in 1 .. n : f[i] = HdfUnfilter(p, f[i - 1], n - i + 1, chunk.mask)
    BY <1>1, HdfDecodesIs
<1> HIDE DEF f
<1>3. 0 \in S
  <2>1. Sized(p, K, n)
      BY <1>1 DEF Trail
  <2> DEFINE b == K[n]
             l == Len(b)
  <2>2. IsBuffer(b, l) /\ Fits(p, n, l)
      BY <2>1 DEF Sized
  <2>3. Holds(p, Fresh(p))
      BY DEF Holds, Fresh, IsBuffer
  <2> HIDE DEF l
  <2>4. l \in Nat /\ l <= ScratchBound(p.block) /\ ScratchBound(p.block) \in Nat
      BY <1>1, <2>2, FitsBound, PipeTypes
  <2>5. Holds(p, Put(Fresh(p), b)) /\ SameBytes(Put(Fresh(p), b), b, l)
      BY <2>2, <2>3, <2>4, PutKeeps DEF Holds
  <2>6. f[0].buf = Put(Fresh(p), b) /\ f[0].len = l
      BY <1>2 DEF l
  <2>7. HdfHolds(p, f[0], n, b)
      BY <2>5, <2>6 DEF HdfHolds, l
  <2> QED
      BY <1>1, <2>7
<1>4. ASSUME NEW i \in 0 .. n - 1, i \in S PROVE i + 1 \in S
  <2> DEFINE m == n - i
             o == i + 1
  <2>1. o \in 1 .. n /\ o - 1 = i /\ m \in 1 .. n /\ n - o + 1 = m /\ m - 1 = n - o /\ o \in 0 .. n
      BY <1>1, Backwards
  <2>2. HdfHolds(p, f[i], m, K[m])
      BY <1>4
  <2> HIDE DEF m, o
  <2>3. f[o] = HdfUnfilter(p, f[i], m, chunk.mask)
      BY <1>2, <2>1
  <2>4. HdfHolds(p, HdfUnfilter(p, f[i], m, chunk.mask), m - 1, K[m - 1])
      BY <2>1, <2>2, HdfUnfilterBack
  <2>5. HdfHolds(p, f[o], n - o, K[n - o])
      BY <2>1, <2>3, <2>4
  <2> QED
      BY <2>1, <2>5 DEF o
<1> HIDE DEF S
<1>5. 0 .. n \subseteq S
    BY <1>1, <1>3, <1>4, InductionUpTo
<1>6. n \in S /\ n - n = 0
    BY <1>1, <1>5
<1>7. HdfHolds(p, f[n], 0, K[0])
    BY <1>6 DEF S
<1>8. IsBuffer(K[0], p.block)
  <2>1. Sized(p, K, 0)
      BY <1>1 DEF Trail
  <2>2. AllShuffles(p, 0)
      BY DEF AllShuffles
  <2> QED
      BY <2>1, <2>2 DEF Sized, Fits
<1>9. Prefix(f[n].buf, p.block) = K[0]
  <2>1. Len(K[0]) = p.block /\ SameBytes(f[n].buf, K[0], p.block)
      BY <1>7, <1>8, BufferLen, PipeTypes DEF HdfHolds
  <2> QED
      BY <1>8, <2>1, PrefixOfSame, PipeTypes
<1> QED
    BY <1>9 DEF HdfDecode, f

\* d holds b behind filter i.
Recovers(p, d, i, b) == Reversing(p, d) /\ Taken(p, Len(b), d.len) /\ SameBytes(d.src, b, Len(b))

LEMMA UnfilterBack ==
    ASSUME NEW p, IsPipe(p), ReadsSound(p), NEW mask, NEW K, Trail(p, mask, K, Len(p.chain)),
           NEW i \in 1 .. Len(p.chain), NEW d, Recovers(p, d, i, K[i])
    PROVE  Recovers(p, Unfilter(p, d, i, mask), i - 1, K[i - 1])
<1> DEFINE b == K[i - 1]
           a == K[i]
           l == Len(b)
           m == Len(a)
           n == d.len
           u == Unfilter(p, d, i, mask)
<1>1. Sized(p, K, i) /\ Sized(p, K, i - 1) /\ Stepped(p, mask, K, i)
    BY PipeTypes DEF Trail
<1>2. IsBuffer(b, l) /\ Fits(p, i - 1, l) /\ IsBuffer(a, m) /\ Fits(p, i, m)
    BY <1>1 DEF Sized
<1>3. /\ Holds(p, d.src) /\ Holds(p, d.dst) /\ n \in Nat /\ n <= ScratchBound(p.block)
      /\ Taken(p, m, n) /\ SameBytes(d.src, a, m)
    BY DEF Recovers, Reversing
<1>4. Reversing(p, u)
    BY UnfilterKeeps DEF Recovers
<1>5. ShuffleSound(p)
    BY DEF ReadsSound
<1>6. CASE i \in mask
  <2>1. b = a
      BY <1>1, <1>6 DEF Stepped
  <2> DEFINE c == Prefix(d.src, n)
             r == Result(d.dst, c)
  <2>2. u = [src |-> r.buf, dst |-> d.src, len |-> r.len]
      BY <1>6 DEF Unfilter
  <2>3. IsBuffer(c, n) /\ SameBytes(c, d.src, n)
      BY <1>3, PrefixIs
  <2> HIDE DEF c
  <2>4. r.len = n /\ SameBytes(r.buf, c, n)
      BY <1>3, <2>3, ResultKeeps
  <2> HIDE DEF r, u, b, a, m, l, n
  <2>5. m \in Nat /\ m <= n
    <3>1. m \in Nat
        BY <1>2, FitsBound
    <3> QED
        BY <1>3, <3>1 DEF Taken
  <2>6. SameBytes(u.src, a, m)
      BY <1>3, <2>2, <2>3, <2>4, <2>5 DEF SameBytes
  <2>7. Taken(p, m, u.len)
      BY <1>3, <2>2, <2>4
  <2> QED
      BY <1>4, <2>1, <2>6, <2>7 DEF Recovers, u, b, m
<1>7. CASE i \notin mask
  <2> DEFINE r == Unapply(p, p.chain[i], d.dst, d.src, n, p.block)
  <2>1. Filtered(p, p.chain[i], b, a)
      BY <1>1, <1>7 DEF Stepped
  <2>2. u = [src |-> r.buf, dst |-> d.src, len |-> r.len]
      BY <1>7 DEF Unfilter
  <2> HIDE DEF u, b, a, m, l, n
  <2>3. p.chain[i] = "deflate" => l <= p.block
    <3>1. ASSUME p.chain[i] = "deflate", NEW k \in 1 .. i - 1, p.chain[k] = "fletcher32" PROVE FALSE
      <4>1. k \in Positions(p, "fletcher32") /\ i \in Positions(p, "deflate") /\ ~(k > i)
          BY <3>1, PipeTypes DEF Positions
      <4> QED
          BY <4>1 DEF ReadsSound
    <3> QED
        BY <1>2, <3>1 DEF Fits, Room
  <2>4. SameBytes(r.buf, b, l) /\ Taken(p, l, r.len)
      BY <1>2, <1>3, <1>5, <2>1, <2>3, UnapplyUndoes, PipeTypes
  <2> QED
      BY <1>4, <2>2, <2>4 DEF Recovers, u, b, l
<1> QED
    BY <1>6, <1>7

\* read_chunk_impl gets back what the chunk was made of.
LEMMA DecodeBack ==
    ASSUME NEW p, IsPipe(p), ReadsSound(p), NEW mask, NEW K, Trail(p, mask, K, Len(p.chain)),
           NEW c, NEW d, Holds(p, c), Holds(p, d),
           LET b == K[Len(p.chain)] IN SameBytes(IF Len(p.chain) % 2 = 1 THEN d ELSE c, b, Len(b)),
           NEW len \in Nat, len <= ScratchBound(p.block), Taken(p, Len(K[Len(p.chain)]), len)
    PROVE  SameBytes(Decode(p, c, d, len, mask).src, K[0], p.block) /\ IsBuffer(K[0], p.block)
<1> DEFINE n == Len(p.chain)
           f == Decodes(p, c, d, len, mask)
           S == {i \in 0 .. n : Recovers(p, f[i], n - i, K[n - i])}
<1>1. n \in Nat
    BY PipeTypes
<1>2. f[0] = Fetched(p, c, d, len) /\ \A i \in 1 .. n : f[i] = Unfilter(p, f[i - 1], n - i + 1, mask)
    BY <1>1, DecodesIs
<1> HIDE DEF f
<1>3. 0 \in S
  <2> DEFINE odd == n % 2 = 1
             b == K[n]
  <2>1. f[0] = IF odd THEN [src |-> d, dst |-> c, len |-> len] ELSE [src |-> c, dst |-> d, len |-> len]
      BY <1>2 DEF Fetched
  <2>5. SameBytes(IF odd THEN d ELSE c, b, Len(b)) /\ Taken(p, Len(b), len)
      OBVIOUS
  <2> HIDE DEF odd, b, n
  <2>2. f[0].len = len /\ Taken(p, Len(b), len) /\ SameBytes(f[0].src, b, Len(b))
    <3>1. CASE odd
        BY <2>1, <2>5, <3>1
    <3>2. CASE ~odd
        BY <2>1, <2>5, <3>2
    <3> QED
        BY <3>1, <3>2
  <2>3. Reversing(p, f[0])
    <3>1. CASE odd
        BY <2>1, <3>1 DEF Reversing
    <3>2. CASE ~odd
        BY <2>1, <3>2 DEF Reversing
    <3> QED
        BY <3>1, <3>2
  <2>4. Recovers(p, f[0], n, b)
      BY <2>2, <2>3 DEF Recovers
  <2> QED
      BY <1>1, <2>4 DEF n, b
<1>4. ASSUME NEW i \in 0 .. n - 1, i \in S PROVE i + 1 \in S
  <2> DEFINE m == n - i
             o == i + 1
  <2>1. o \in 1 .. n /\ o - 1 = i /\ m \in 1 .. n /\ n - o + 1 = m /\ m - 1 = n - o /\ o \in 0 .. n
      BY <1>1, Backwards
  <2>2. Recovers(p, f[i], m, K[m])
      BY <1>4
  <2> HIDE DEF m, o
  <2>3. f[o] = Unfilter(p, f[i], m, mask)
      BY <1>2, <2>1
  <2>4. Recovers(p, Unfilter(p, f[i], m, mask), m - 1, K[m - 1])
      BY <2>1, <2>2, UnfilterBack
  <2>5. Recovers(p, f[o], n - o, K[n - o])
      BY <2>1, <2>3, <2>4
  <2> QED
      BY <2>1, <2>5 DEF o
<1> HIDE DEF S
<1>5. 0 .. n \subseteq S
    BY <1>1, <1>3, <1>4, InductionUpTo
<1>6. n \in S /\ n - n = 0
    BY <1>1, <1>5
<1>7. Recovers(p, f[n], 0, K[0])
    BY <1>6 DEF S
<1>8. IsBuffer(K[0], p.block)
  <2>1. Sized(p, K, 0)
      BY <1>1 DEF Trail
  <2>2. AllShuffles(p, 0)
      BY DEF AllShuffles
  <2> QED
      BY <2>1, <2>2 DEF Sized, Fits
<1>9. Len(K[0]) = p.block /\ SameBytes(f[n].src, K[0], p.block)
    BY <1>7, <1>8, BufferLen, PipeTypes DEF Recovers
<1> QED
    BY <1>8, <1>9 DEF Decode, f

=============================================================================
