-------------------------- MODULE PoolWriteProofs --------------------------
(***************************************************************************)
(* Theorems about PoolWrite for every number of writes, offsets and every  *)
(* cap.                                                                    *)
(*                                                                         *)
(* The deque holds the tasks Stored + 1, ..., Len(log) in this order, and  *)
(* the file holds for each offset the last of the tasks 1, ..., Stored     *)
(* that storage took.  An empty deque then makes Stored all of the log.    *)
(***************************************************************************)
EXTENDS PoolWrite, Integers, TLAPS

\* The tasks that were popped from the deque are those up to Stored.
Stored == Len(log) - Len(inFlight)

DequeInOrder ==
    /\ Len(inFlight) <= Len(log)
    /\ \A i \in DOMAIN inFlight : inFlight[i] = Stored + i

\* What a task is and what became of it depends on where it is.
TaskState ==
    /\ \A t \in Tasks : t > Len(log) => phase[t] = "new" /\ t \notin failed
    /\ \A t \in Tasks : t <= Len(log) => raw[t] = t /\ phase[t] # "new"
    /\ \A t \in Tasks : t <= Stored => phase[t] = "done" /\ t \notin failed
    /\ \A t \in Tasks : phase[t] = "done" /\ t \notin failed => result[t] = t
    /\ \A t \in refused : t <= Stored

\* v is the last task up to k that storage took for l, 0 if there is none.
TakenFor(l, k) == {t \in 1 .. k : log[t] = l /\ t \notin refused}
IsLatestUpTo(k, l, v) ==
    /\ v = 0 \/ v \in TakenFor(l, k)
    /\ \A t \in TakenFor(l, k) : t <= v

DiskInOrder == \A l \in Locs : IsLatestUpTo(Stored, l, disk[l])

CallState ==
    /\ pc \in {"flushed", "gone"} => inFlight = <<>>
    /\ closed => pc = "gone"

Bounded ==
    ~raised =>
        /\ Len(inFlight) <= Cap
        /\ pc \notin {"poll", "cap"} => Len(inFlight) < Cap

IInv == TypeOK /\ DequeInOrder /\ TaskState /\ DiskInOrder /\ CallState /\ Bounded

-----------------------------------------------------------------------------

\* Facts about the lengths that the arithmetic below needs.
LEMMA Lengths ==
  ASSUME TypeOK, DequeInOrder
  PROVE  /\ Len(log) \in Nat /\ Len(inFlight) \in Nat /\ Stored \in Nat
         /\ Stored <= Len(log) /\ Len(log) <= MaxWrites
BY WriteAssumption DEF TypeOK, DequeInOrder, Stored

\* A future joins the deque at the back.
LEMMA Push ==
  ASSUME TypeOK, DequeInOrder, NEW l \in Locs,
         log' = Append(log, l), inFlight' = Append(inFlight, Len(log) + 1)
  PROVE  /\ DequeInOrder'
         /\ Stored' = Stored
         /\ Len(log') = Len(log) + 1
         /\ Len(inFlight') = Len(inFlight) + 1
         /\ \A t \in 1 .. Len(log) : log'[t] = log[t]
         /\ log'[Len(log) + 1] = l
<1>1. log \in Seq(Locs) /\ inFlight \in Seq(Nat)
  BY WriteAssumption DEF TypeOK, Tasks
<1>2. /\ Len(log') = Len(log) + 1
      /\ Len(inFlight') = Len(inFlight) + 1
      /\ \A t \in 1 .. Len(log) : log'[t] = log[t]
      /\ log'[Len(log) + 1] = l
      /\ \A i \in 1 .. Len(inFlight) : inFlight'[i] = inFlight[i]
      /\ inFlight'[Len(inFlight) + 1] = Len(log) + 1
      /\ DOMAIN inFlight' = 1 .. (Len(inFlight) + 1)
  BY <1>1
<1>3. Stored' = Stored
  BY <1>1, <1>2 DEF Stored
<1>4. ASSUME NEW i \in DOMAIN inFlight' PROVE inFlight'[i] = Stored + i
  <2>1. CASE i \in 1 .. Len(inFlight)
    BY <1>1, <1>2, <2>1 DEF DequeInOrder
  <2>2. CASE i = Len(inFlight) + 1
    BY <1>1, <1>2, <2>2 DEF Stored
  <2> QED
    BY <1>1, <1>2, <2>1, <2>2
<1> QED
  BY <1>1, <1>2, <1>3, <1>4 DEF DequeInOrder

\* The front future leaves the deque: it is the one of task Stored + 1.
LEMMA Pop ==
  ASSUME TypeOK, DequeInOrder, inFlight # <<>>
  PROVE  /\ Head(inFlight) = Stored + 1
         /\ Head(inFlight) \in Tasks
         /\ Head(inFlight) <= Len(log)
         /\ inFlight' = Tail(inFlight) /\ log' = log =>
              /\ DequeInOrder'
              /\ Stored' = Stored + 1
              /\ Len(inFlight') = Len(inFlight) - 1
<1>1. log \in Seq(Locs) /\ inFlight \in Seq(Tasks) /\ inFlight \in Seq(Nat)
  BY WriteAssumption DEF TypeOK, Tasks
<1>2. Len(inFlight) >= 1 /\ Head(inFlight) = inFlight[1] /\ 1 \in DOMAIN inFlight
  BY <1>1
<1>3. Head(inFlight) = Stored + 1 /\ Head(inFlight) <= Len(log)
  BY <1>1, <1>2 DEF DequeInOrder, Stored
<1>4. Head(inFlight) \in Tasks
  BY <1>1
<1>5. ASSUME inFlight' = Tail(inFlight), log' = log
      PROVE  /\ DequeInOrder'
             /\ Stored' = Stored + 1
             /\ Len(inFlight') = Len(inFlight) - 1
  <2>1. /\ Len(inFlight') = Len(inFlight) - 1
        /\ DOMAIN inFlight' = 1 .. (Len(inFlight) - 1)
        /\ \A i \in 1 .. (Len(inFlight) - 1) : inFlight'[i] = inFlight[i + 1]
    BY <1>1, <1>2, <1>5
  <2>2. Stored' = Stored + 1 /\ Stored \in Int
    BY <1>1, <1>5, <2>1 DEF Stored
  <2>3. ASSUME NEW i \in DOMAIN inFlight' PROVE inFlight'[i] = Stored' + i
    <3>1. i + 1 \in DOMAIN inFlight /\ i \in Nat
      BY <1>1, <2>1
    <3>2. inFlight[i + 1] = Stored + (i + 1)
      BY <3>1 DEF DequeInOrder
    <3> QED
      BY <2>1, <2>2, <3>1, <3>2
  <2> QED
    BY <1>1, <1>5, <2>1, <2>2, <2>3 DEF DequeInOrder
<1> QED
  BY <1>3, <1>4, <1>5

LEMMA InitIInv == Init => IInv
<1> SUFFICES ASSUME Init PROVE IInv
  OBVIOUS
<1> USE WriteAssumption DEF Init
<1>1. Len(log) = 0 /\ Len(inFlight) = 0 /\ DOMAIN inFlight = {}
  OBVIOUS
<1>2. TypeOK
  <2>1. log \in Seq(Locs) /\ Len(log) <= MaxWrites /\ inFlight \in Seq(Tasks)
    BY <1>1
  <2>2. /\ src \in 0 .. MaxWrites
        /\ raw \in [Tasks -> 0 .. MaxWrites]
        /\ result \in [Tasks -> 0 .. MaxWrites]
        /\ disk \in [Locs -> 0 .. MaxWrites]
    OBVIOUS
  <2>3. Pool!ExecTypeOK
    BY DEF Pool!ExecInit, Pool!ExecTypeOK
  <2> QED
    BY <2>1, <2>2, <2>3 DEF TypeOK
<1>3. DequeInOrder /\ Stored = 0
  BY <1>1 DEF DequeInOrder, Stored
<1>4. TaskState
  BY <1>1, <1>3 DEF TaskState, Pool!ExecInit, Tasks
<1>5. DiskInOrder
  <2>1. 1 .. 0 = {}
    OBVIOUS
  <2>2. \A l \in Locs : disk[l] = 0 /\ TakenFor(l, 0) = {}
    BY <2>1 DEF TakenFor
  <2> QED
    BY <1>3, <2>2 DEF DiskInOrder, IsLatestUpTo
<1>6. CallState /\ Bounded
  BY <1>1 DEF CallState, Bounded, Pool!ExecInit
<1> QED
  BY <1>2, <1>3, <1>4, <1>5, <1>6 DEF IInv

\* A write hands task Len(log) + 1 to the pool.
LEMMA WriteKeeps ==
  ASSUME IInv, NEW l \in Locs, WriteChunk(l)
  PROVE  IInv'
<1> DEFINE t == Len(log) + 1
<1> USE WriteAssumption DEF IInv
<1>1. /\ log' = Append(log, l) /\ inFlight' = Append(inFlight, t)
      /\ t <= MaxWrites /\ t \in Tasks
      /\ raw' = [raw EXCEPT ![t] = t] /\ src' = t
      /\ phase[t] = "new" /\ phase' = [phase EXCEPT ![t] = "accepted"]
      /\ ~closed /\ UNCHANGED closed
      /\ pc \in {"idle", "flushed"} /\ pc' = "poll"
      /\ UNCHANGED <<result, failed, disk, refused, raised>>
  BY DEF WriteChunk, CopyOf, Ready, Pool!Accept, fileVars, Tasks, TypeOK
<1>2. /\ DequeInOrder'
      /\ Stored' = Stored
      /\ Len(log') = Len(log) + 1
      /\ Len(inFlight') = Len(inFlight) + 1
      /\ \A u \in 1 .. Len(log) : log'[u] = log[u]
      /\ log'[Len(log) + 1] = l
  BY <1>1, Push
<1>3. /\ Len(log) \in Nat /\ Len(inFlight) \in Nat /\ Stored \in Nat
      /\ Stored <= Len(log) /\ Len(log) <= MaxWrites
  BY Lengths
<1>4. TypeOK'
  <2>1. log' \in Seq(Locs) /\ inFlight' \in Seq(Tasks)
    BY <1>1 DEF TypeOK
  <2>2. raw' \in [Tasks -> 0 .. MaxWrites] /\ src' \in 0 .. MaxWrites
    BY <1>1 DEF TypeOK, Tasks
  <2>3. Pool!ExecTypeOK'
    BY <1>1 DEF TypeOK, Pool!ExecTypeOK
  <2> QED
    BY <1>1, <1>2, <2>1, <2>2, <2>3 DEF TypeOK
<1>5. TaskState'
  <2>1. ASSUME NEW u \in Tasks
        PROVE  /\ u > Len(log') => phase'[u] = "new" /\ u \notin failed'
               /\ u <= Len(log') => raw'[u] = u /\ phase'[u] # "new"
               /\ u <= Stored' => phase'[u] = "done" /\ u \notin failed'
               /\ phase'[u] = "done" /\ u \notin failed' => result'[u] = u
    <3>1. CASE u = t
      BY <1>1, <1>2, <1>3, <3>1 DEF TypeOK, Pool!ExecTypeOK, Tasks
    <3>2. CASE u # t
      <4>1. raw'[u] = raw[u] /\ phase'[u] = phase[u] /\ result'[u] = result[u] /\ u \in Nat
        BY <1>1, <3>2 DEF TypeOK, Pool!ExecTypeOK, Tasks
      <4> QED
        BY <1>1, <1>2, <1>3, <3>2, <4>1 DEF TaskState
    <3> QED
      BY <3>1, <3>2
  <2>2. \A u \in refused' : u <= Stored'
    BY <1>1, <1>2 DEF TaskState
  <2> QED
    BY <2>1, <2>2 DEF TaskState
<1>6. DiskInOrder'
  <2> SUFFICES ASSUME NEW k \in Locs PROVE IsLatestUpTo(Stored, k, disk[k])'
    BY DEF DiskInOrder
  <2>1. \A u \in 1 .. Stored : log'[u] = log[u]
    BY <1>2, <1>3
  <2>2. TakenFor(k, Stored)' = TakenFor(k, Stored)
    BY <1>1, <1>2, <2>1 DEF TakenFor
  <2> QED
    BY <1>1, <2>2 DEF DiskInOrder, IsLatestUpTo
<1>7. CallState' /\ Bounded'
  BY <1>1, <1>2, <1>3 DEF CallState, Bounded
<1> QED
  BY <1>2, <1>4, <1>5, <1>6, <1>7

\* A task ends in the pool.
LEMMA TaskKeeps ==
  ASSUME IInv, NEW t \in Tasks, ChunkTask(t)
  PROVE  IInv'
<1> USE WriteAssumption DEF IInv
<1>1. /\ phase[t] = "accepted" /\ phase' = [phase EXCEPT ![t] = "done"]
      /\ UNCHANGED <<log, src, raw, disk, refused, inFlight, raised, pc, closed>>
      /\ \/ result' = [result EXCEPT ![t] = raw[t]] /\ failed' = failed
         \/ result' = result /\ failed' = failed \cup {t}
  BY DEF ChunkTask, Input, Pool!Finish, callVars, fileVars
<1>2. /\ Len(log) \in Nat /\ Stored \in Nat /\ Stored <= Len(log) /\ Stored' = Stored
  BY <1>1, Lengths DEF Stored
<1>3. t \in Nat /\ t <= Len(log) /\ t > Stored /\ raw[t] = t
  BY <1>1, <1>2 DEF TaskState, Tasks
<1>4. TypeOK'
  <2>1. result' \in [Tasks -> 0 .. MaxWrites]
    BY <1>1 DEF TypeOK
  <2>2. failed' \in SUBSET Tasks
    BY <1>1 DEF TypeOK
  <2>3. Pool!ExecTypeOK'
    BY <1>1 DEF TypeOK, Pool!ExecTypeOK
  <2> QED
    BY <1>1, <2>1, <2>2, <2>3 DEF TypeOK
<1>5. TaskState'
  <2>1. ASSUME NEW u \in Tasks
        PROVE  /\ u > Len(log') => phase'[u] = "new" /\ u \notin failed'
               /\ u <= Len(log') => raw'[u] = u /\ phase'[u] # "new"
               /\ u <= Stored' => phase'[u] = "done" /\ u \notin failed'
               /\ phase'[u] = "done" /\ u \notin failed' => result'[u] = u
    <3>1. CASE u = t
      BY <1>1, <1>2, <1>3, <3>1 DEF TypeOK, Pool!ExecTypeOK
    <3>2. CASE u # t
      <4>1. phase'[u] = phase[u] /\ result'[u] = result[u] /\ (u \in failed' <=> u \in failed)
        BY <1>1, <3>2 DEF TypeOK, Pool!ExecTypeOK
      <4> QED
        BY <1>1, <1>2, <4>1 DEF TaskState
    <3> QED
      BY <3>1, <3>2
  <2> QED
    BY <1>1, <1>2, <2>1 DEF TaskState
<1>6. DequeInOrder' /\ DiskInOrder' /\ CallState' /\ Bounded'
  BY <1>1, <1>2 DEF DequeInOrder, DiskInOrder, IsLatestUpTo, TakenFor, CallState, Bounded
<1> QED
  BY <1>4, <1>5, <1>6

\* The front chunk goes to storage.
LEMMA TakeKeeps ==
  ASSUME IInv, TakeFront
  PROVE  IInv'
<1> DEFINE t == Head(inFlight)
<1> USE WriteAssumption DEF IInv
<1>1. /\ inFlight # <<>> /\ phase[t] = "done" /\ t \notin failed
      /\ inFlight' = Tail(inFlight)
      /\ UNCHANGED <<log, src, raw, result, failed, phase, closed, raised, pc>>
      /\ \/ disk' = [disk EXCEPT ![log[t]] = result[t]] /\ refused' = refused
         \/ disk' = disk /\ refused' = refused \cup {t}
      /\ pc \in {"poll", "drain", "dtor", "cap"}
  BY DEF TakeFront, StoreChunk, Draining, FrontReady, callVars, poolVars
<1>2. /\ t = Stored + 1 /\ t \in Tasks /\ t <= Len(log)
      /\ DequeInOrder' /\ Stored' = Stored + 1
      /\ Len(inFlight') = Len(inFlight) - 1
  BY <1>1, Pop
<1>3. /\ Len(log) \in Nat /\ Len(inFlight) \in Nat /\ Stored \in Nat
  BY Lengths
<1>4. result[t] = t /\ log[t] \in Locs
  <2>1. t \in Tasks /\ phase[t] = "done" /\ t \notin failed /\ t \in 1 .. Len(log)
    BY <1>1, <1>2, <1>3
  <2> HIDE DEF t
  <2>2. result[t] = t
    BY <2>1 DEF TaskState
  <2>3. log[t] \in Locs
    BY <2>1 DEF TypeOK
  <2> QED
    BY <2>2, <2>3
<1>5. TypeOK'
  <2>1. inFlight' \in Seq(Tasks)
    BY <1>1 DEF TypeOK
  <2>2. disk' \in [Locs -> 0 .. MaxWrites] /\ refused' \in SUBSET Tasks
    BY <1>1, <1>2, <1>4 DEF TypeOK, Tasks
  <2>3. Pool!ExecTypeOK'
    BY <1>1 DEF TypeOK, Pool!ExecTypeOK
  <2> QED
    BY <1>1, <2>1, <2>2, <2>3 DEF TypeOK
<1>6. TaskState'
  <2>1. \A u \in Tasks : u <= Stored + 1 => u <= Stored \/ u = t
    BY <1>2, <1>3 DEF Tasks
  <2>2. ASSUME NEW u \in refused' PROVE u <= Stored'
    <3>1. u \in refused \/ u = t
      BY <1>1
    <3>2. u \in refused => u <= Stored /\ u \in Nat
      BY DEF TaskState, TypeOK, Tasks
    <3> QED
      BY <1>2, <1>3, <3>1, <3>2
  <2> QED
    BY <1>1, <1>2, <2>1, <2>2 DEF TaskState
<1>7. DiskInOrder'
  <2> SUFFICES ASSUME NEW l \in Locs PROVE IsLatestUpTo(Stored, l, disk[l])'
    BY DEF DiskInOrder
  <2>1. IsLatestUpTo(Stored, l, disk[l])
    BY DEF DiskInOrder
  <2>2. t \notin refused /\ 1 .. Stored' = (1 .. Stored) \cup {t}
    BY <1>2, <1>3 DEF TaskState
  <2>3. CASE disk' = [disk EXCEPT ![log[t]] = result[t]] /\ refused' = refused
    <3>1. CASE l = log[t]
      <4>1. disk'[l] = t /\ t \in TakenFor(l, Stored)'
        BY <1>1, <1>4, <2>2, <2>3, <3>1 DEF TakenFor, TypeOK
      <4>2. \A u \in TakenFor(l, Stored)' : u <= t
        BY <1>2, <1>3 DEF TakenFor
      <4> QED
        BY <4>1, <4>2 DEF IsLatestUpTo
    <3>2. CASE l # log[t]
      <4>1. disk'[l] = disk[l] /\ TakenFor(l, Stored)' = TakenFor(l, Stored)
        BY <1>1, <1>2, <1>3, <2>2, <2>3, <3>2 DEF TakenFor, TypeOK
      <4> QED
        BY <2>1, <4>1 DEF IsLatestUpTo
    <3> QED
      BY <3>1, <3>2
  <2>4. CASE disk' = disk /\ refused' = refused \cup {t}
    <3>1. TakenFor(l, Stored)' = TakenFor(l, Stored)
      BY <1>1, <1>2, <1>3, <2>2, <2>4 DEF TakenFor
    <3> QED
      BY <2>1, <2>4, <3>1 DEF IsLatestUpTo
  <2> QED
    BY <1>1, <2>3, <2>4
<1>8. CallState' /\ Bounded'
  BY <1>1, <1>2, <1>3 DEF CallState, Bounded
<1> QED
  BY <1>2, <1>5, <1>6, <1>7, <1>8

LEMMA NextIInv == IInv /\ [Next]_vars => IInv'
<1> SUFFICES ASSUME IInv, [Next]_vars PROVE IInv'
  OBVIOUS
\* What the steps that only move pc have in common.
<1>1. ASSUME UNCHANGED <<callVars, result, failed, phase, fileVars, inFlight>>,
             TypeOK', CallState', Bounded'
      PROVE  IInv'
  BY <1>1 DEF IInv, DequeInOrder, TaskState, DiskInOrder, IsLatestUpTo, TakenFor,
              Stored, callVars, fileVars
<1>2. ASSUME NEW l \in Locs, WriteChunk(l) PROVE IInv'
  BY <1>2, WriteKeeps
<1>3. ASSUME NEW t \in Tasks, ChunkTask(t) PROVE IInv'
  BY <1>3, TaskKeeps
<1>4. CASE TakeFront
  BY <1>4, TakeKeeps
<1>5. CASE FrontThrows
  BY <1>1, <1>5 DEF FrontThrows, Draining, FrontReady, IInv, TypeOK, CallState, Bounded,
                    Pool!ExecTypeOK, callVars, poolVars, fileVars
<1>6. CASE PollDone
  BY <1>1, <1>6 DEF PollDone, IInv, TypeOK, CallState, Bounded, Pool!ExecTypeOK,
                    callVars, poolVars, fileVars
<1>7. CASE WriteReturns
  BY <1>1, <1>7, WriteAssumption
     DEF WriteReturns, CapReached, IInv, TypeOK, CallState, Bounded, Pool!ExecTypeOK,
         callVars, poolVars, fileVars
<1>8. CASE DrainDone
  BY <1>1, <1>8 DEF DrainDone, IInv, TypeOK, CallState, Bounded, Pool!ExecTypeOK,
                    callVars, poolVars, fileVars
<1>9. CASE Drain \/ Destroy
  BY <1>1, <1>9 DEF Drain, Destroy, Ready, IInv, TypeOK, CallState, Bounded,
                    Pool!ExecTypeOK, callVars, poolVars, fileVars
<1>10. CASE PoolCloses
  BY <1>1, <1>10 DEF PoolCloses, Pool!Close, IInv, TypeOK, CallState, Bounded,
                     Pool!ExecTypeOK, callVars, poolVars, fileVars
<1>11. CASE UNCHANGED vars
  BY <1>1, <1>11 DEF IInv, TypeOK, CallState, Bounded, Pool!ExecTypeOK, vars,
                     callVars, poolVars, fileVars
<1> QED
  BY <1>2, <1>3, <1>4, <1>5, <1>6, <1>7, <1>8, <1>9, <1>10, <1>11
  DEF Next, Proceed, Ended

-----------------------------------------------------------------------------
(* Theorems. *)

LEMMA Invariance == SafeSpec => []IInv
BY InitIInv, NextIInv, PTL DEF SafeSpec

\* The variables keep their types.
THEOREM TypeCorrect == SafeSpec => []TypeOK
<1>1. IInv => TypeOK
  BY DEF IInv
<1> QED
  BY <1>1, Invariance, PTL

\* An empty deque means that the file is up to date.
LEMMA EmptyIsLatest ==
  ASSUME IInv, inFlight = <<>>, NEW l \in Locs
  PROVE  IsLatest(l, disk[l])
<1> USE DEF IInv
<1>1. Stored = Len(log) /\ DOMAIN log = 1 .. Len(log)
  BY DEF Stored, TypeOK
<1>2. WrittenTo(l) = TakenFor(l, Stored)
  BY <1>1 DEF WrittenTo, TakenFor
<1>3. IsLatestUpTo(Stored, l, disk[l])
  BY DEF DiskInOrder
<1>4. 0 \notin WrittenTo(l) /\ WrittenTo(l) \subseteq Nat /\ disk[l] \in Nat
  BY <1>1, Lengths, WriteAssumption DEF WrittenTo, TypeOK
<1>5. disk[l] = 0 => WrittenTo(l) = {}
  <2> SUFFICES ASSUME disk[l] = 0, NEW u \in WrittenTo(l) PROVE FALSE
    OBVIOUS
  <2> QED
    BY <1>2, <1>3, <1>4 DEF IsLatestUpTo
<1> QED
  BY <1>2, <1>3, <1>5 DEF IsLatestUpTo, IsLatest

\* When a drain or the destructor has returned, the file holds for each offset
\* the chunk last written there, whatever the pool finished first.
THEOREM FlushIsDurable == SafeSpec => []FlushedOnDisk
<1>1. IInv => FlushedOnDisk
  BY EmptyIsLatest DEF IInv, CallState, FlushedOnDisk
<1> QED
  BY <1>1, Invariance, PTL

\* Back-pressure bounds what the caller holds for every cap.
THEOREM MemoryIsBounded == SafeSpec => []BoundedInFlight
<1>1. IInv => BoundedInFlight
  BY DEF IInv, Bounded, BoundedInFlight, Ready
<1> QED
  BY <1>1, Invariance, PTL

-----------------------------------------------------------------------------
(* The pipeline keeps the promise of a write path. *)

\* Every offset has a latest chunk.
HasLatest == \A l \in Locs : \E v \in 0 .. MaxWrites : IsLatest(l, v)

RefInv == IInv /\ HasLatest

File == [l \in Locs |-> Latest(l)]

\* The latest chunk is unique, so Latest is it, before a step and after it.
LEMMA LatestIs ==
  ASSUME TypeOK, NEW l \in Locs, NEW v \in 0 .. MaxWrites, IsLatest(l, v)
  PROVE  Latest(l) = v
<1>1. WrittenTo(l) \subseteq Nat /\ 0 \notin WrittenTo(l)
  BY DEF WrittenTo, TypeOK
<1>2. ASSUME NEW x \in 0 .. MaxWrites, IsLatest(l, x) PROVE x = v
  BY <1>1, <1>2 DEF IsLatest
<1> QED
  BY <1>2 DEF Latest

LEMMA LatestIsNext ==
  ASSUME TypeOK', NEW l \in Locs, NEW v \in 0 .. MaxWrites, IsLatest(l, v)'
  PROVE  Latest(l)' = v
<1>1. WrittenTo(l)' \subseteq Nat /\ 0 \notin WrittenTo(l)'
  BY DEF WrittenTo, TypeOK
<1>2. ASSUME NEW x \in 0 .. MaxWrites, IsLatest(l, x)' PROVE x = v
  BY <1>1, <1>2 DEF IsLatest
<1> QED
  BY <1>2 DEF Latest

\* Where the chunks written to l and not refused stay the same, so does the
\* latest of them.
LEMMA SameLatest ==
  ASSUME RefInv, TypeOK', NEW l \in Locs, WrittenTo(l)' = WrittenTo(l)
  PROVE  /\ Latest(l)' = Latest(l)
         /\ \E v \in 0 .. MaxWrites : IsLatest(l, v)'
<1>1. PICK v \in 0 .. MaxWrites : IsLatest(l, v)
  BY DEF RefInv, HasLatest
<1>2. IsLatest(l, v)'
  BY <1>1 DEF IsLatest
<1>3. Latest(l) = v /\ Latest(l)' = v
  BY <1>1, <1>2, LatestIs, LatestIsNext DEF RefInv, IInv
<1> QED
  BY <1>2, <1>3

LEMMA SameFile ==
  ASSUME RefInv, TypeOK', UNCHANGED <<log, refused>>
  PROVE  File' = File /\ HasLatest'
<1>1. ASSUME NEW l \in Locs PROVE WrittenTo(l)' = WrittenTo(l)
  BY DEF WrittenTo
<1> QED
  BY <1>1, SameLatest DEF File, HasLatest

\* A write makes its chunk the latest at its offset.
LEMMA WriteMovesLatest ==
  ASSUME RefInv, NEW l \in Locs, WriteChunk(l)
  PROVE  HasLatest' /\ File' = [File EXCEPT ![l] = Len(log)']
<1>1. log \in Seq(Locs) /\ log' = Append(log, l) /\ refused' = refused /\ Len(log) + 1 <= MaxWrites
  BY DEF RefInv, IInv, TypeOK, WriteChunk, fileVars
<1>2. PICK t \in 0 .. MaxWrites : t = Len(log) + 1
  BY <1>1, WriteAssumption
<1>3. /\ DOMAIN log = 1 .. Len(log) /\ DOMAIN log' = DOMAIN log \cup {t}
      /\ Len(log) \in Nat /\ t \notin DOMAIN log /\ Len(log)' = t
      /\ \A u \in DOMAIN log : log'[u] = log[u]
      /\ log'[t] = l
  BY <1>1, <1>2
<1>4. t \notin refused
  BY <1>2, Lengths DEF RefInv, IInv, TaskState
<1>5. TypeOK'
  BY WriteKeeps DEF RefInv, IInv
<1>6. IsLatest(l, t)'
  <2>1. WrittenTo(l)' = WrittenTo(l) \cup {t}
    BY <1>1, <1>3, <1>4 DEF WrittenTo
  <2>2. \A u \in WrittenTo(l) : u <= t
    BY <1>2, <1>3 DEF WrittenTo
  <2> QED
    BY <2>1, <2>2 DEF IsLatest
<1>7. Latest(l)' = t
  BY <1>5, <1>6, LatestIsNext
<1>8. ASSUME NEW k \in Locs, k # l PROVE WrittenTo(k)' = WrittenTo(k)
  BY <1>1, <1>3, <1>8 DEF WrittenTo
<1>9. \A k \in Locs : k # l => Latest(k)' = Latest(k)
  BY <1>5, <1>8, SameLatest
<1>10. HasLatest'
  BY <1>5, <1>6, <1>8, SameLatest DEF HasLatest
<1>11. File' = [File EXCEPT ![l] = Len(log)']
  BY <1>3, <1>7, <1>9 DEF File
<1> QED
  BY <1>10, <1>11

\* The task at the front of the deque is newer than what its offset holds and
\* not newer than the latest there.
LEMMA FrontInRange ==
  ASSUME RefInv, inFlight # <<>>, NEW t, t = Head(inFlight)
  PROVE  /\ t \in WrittenTo(log[t]) /\ log[t] \in Locs /\ t = Stored + 1
         /\ t \in (disk[log[t]] + 1) .. Latest(log[t])
         /\ disk[log[t]] \in Nat /\ Latest(log[t]) \in 0 .. MaxWrites
         /\ IsLatest(log[t], Latest(log[t]))
<1> USE DEF RefInv, IInv
<1>1. /\ t = Stored + 1 /\ t <= Len(log) /\ Stored \in Nat /\ Len(log) \in Nat
      /\ log \in Seq(Locs)
  BY Pop, Lengths DEF TypeOK
<1>2. t \in DOMAIN log /\ log[t] \in Locs /\ t \notin refused
  BY <1>1 DEF TaskState
<1>3. t \in WrittenTo(log[t])
  BY <1>2 DEF WrittenTo
<1>4. disk[log[t]] \in Nat /\ disk[log[t]] <= Stored
  <2>1. IsLatestUpTo(Stored, log[t], disk[log[t]])
    BY <1>2 DEF DiskInOrder
  <2> QED
    BY <1>1, <1>2, <2>1, WriteAssumption DEF IsLatestUpTo, TakenFor, TypeOK
<1>5. PICK v \in 0 .. MaxWrites : IsLatest(log[t], v)
  BY <1>2 DEF HasLatest
<1>6. Latest(log[t]) = v
  BY <1>2, <1>5, LatestIs
<1>7. t <= v
  BY <1>3, <1>5 DEF IsLatest
<1> QED
  BY <1>1, <1>2, <1>3, <1>4, <1>5, <1>6, <1>7

\* A chunk that storage refuses is lost: when it was the latest at its offset,
\* what the file holds there is the latest now.
LEMMA RefusalMovesLatest ==
  ASSUME RefInv, TypeOK', inFlight # <<>>, UNCHANGED <<log, disk>>,
         refused' = refused \cup {Head(inFlight)}
  PROVE  /\ HasLatest'
         /\ \/ File' = File
            \/ \E l \in Locs : \E v \in disk[l] .. (File[l] - 1) : File' = [File EXCEPT ![l] = v]
<1>1. PICK t : t = Head(inFlight)
  OBVIOUS
<1>2. PICK l \in Locs : l = log[t]
  BY <1>1, FrontInRange
<1>3. /\ t \in WrittenTo(l) /\ t = Stored + 1
      /\ t \in (disk[l] + 1) .. Latest(l)
      /\ disk[l] \in Nat /\ Latest(l) \in 0 .. MaxWrites
      /\ IsLatest(l, Latest(l))
  BY <1>1, <1>2, FrontInRange
<1>4. ASSUME NEW k \in Locs PROVE WrittenTo(k)' = WrittenTo(k) \ {t}
  BY <1>1 DEF WrittenTo
<1>5. ASSUME NEW k \in Locs, k # l PROVE WrittenTo(k)' = WrittenTo(k)
  BY <1>2, <1>4, <1>5 DEF WrittenTo
<1>6. PICK v \in 0 .. MaxWrites : v = Latest(l)
  BY <1>3
<1>7. WrittenTo(l) \subseteq Nat /\ 0 \notin WrittenTo(l)
  <2>1. log \in Seq(Locs)
    BY DEF RefInv, IInv, TypeOK
  <2> QED
    BY <2>1 DEF WrittenTo
<1>8. CASE t # v
  <2>1. IsLatest(l, v)'
    BY <1>3, <1>4, <1>6, <1>8 DEF IsLatest
  <2>2. Latest(l)' = v
    BY <2>1, LatestIsNext
  <2>3. \A k \in Locs : Latest(k)' = Latest(k)
    BY <1>5, <1>6, <2>2, SameLatest
  <2>4. HasLatest'
    BY <1>5, <2>1, SameLatest DEF HasLatest
  <2> QED
    BY <2>3, <2>4 DEF File
<1>9. CASE t = v
  <2>1. PICK d \in 0 .. MaxWrites : d = disk[l]
    BY DEF RefInv, IInv, TypeOK
  <2>2. IsLatestUpTo(Stored, l, d)
    BY <2>1 DEF RefInv, IInv, DiskInOrder
  <2>3. /\ Stored \in Nat /\ Len(log) \in Nat /\ Stored <= Len(log)
        /\ DOMAIN log = 1 .. Len(log)
    <3>1. TypeOK /\ DequeInOrder
      BY DEF RefInv, IInv
    <3>2. log \in Seq(Locs)
      BY <3>1 DEF TypeOK
    <3> QED
      BY <3>1, <3>2, Lengths
  <2>4. ASSUME NEW u \in WrittenTo(l)' PROVE u \in TakenFor(l, Stored)
    <3>1. u \in WrittenTo(l) /\ u # t
      BY <1>4
    <3>2. u \in 1 .. Len(log) /\ log[u] = l /\ u \notin refused
      BY <2>3, <3>1 DEF WrittenTo
    <3>3. u <= t
      BY <1>3, <1>6, <1>9, <3>1 DEF IsLatest
    <3>4. u \in 1 .. Stored
      BY <1>3, <2>3, <3>1, <3>2, <3>3
    <3> QED
      BY <3>2, <3>4 DEF TakenFor
  <2>5. ASSUME NEW u \in TakenFor(l, Stored) PROVE u \in WrittenTo(l)'
    <3>1. u \in 1 .. Stored /\ log[u] = l /\ u \notin refused
      BY DEF TakenFor
    <3>2. u \in DOMAIN log /\ u # t
      BY <1>3, <2>3, <3>1
    <3> QED
      BY <1>4, <3>1, <3>2 DEF WrittenTo
  <2>6. IsLatest(l, d)'
    <3>1. \A u \in WrittenTo(l)' : u <= d /\ u \in Nat /\ u # 0
      BY <1>4, <1>7, <2>2, <2>4 DEF IsLatestUpTo
    <3>2. d = 0 \/ d \in WrittenTo(l)'
      BY <2>2, <2>5 DEF IsLatestUpTo
    <3> QED
      BY <3>1, <3>2 DEF IsLatest
  <2>7. Latest(l)' = d
    BY <2>6, LatestIsNext
  <2>8. \A k \in Locs : k # l => Latest(k)' = Latest(k)
    BY <1>5, SameLatest
  <2>9. HasLatest'
    BY <1>5, <2>6, SameLatest DEF HasLatest
  <2>10. File' = [File EXCEPT ![l] = d]
    BY <2>7, <2>8 DEF File
  <2>11. d \in disk[l] .. (File[l] - 1)
    BY <1>3, <1>6, <1>9, <2>1 DEF File
  <2> QED
    BY <2>9, <2>10, <2>11
<1> QED
  BY <1>8, <1>9

LEMMA RefInvInit == Init => RefInv
<1> SUFFICES ASSUME Init PROVE RefInv
  OBVIOUS
<1>1. DOMAIN log = {}
  BY DEF Init
<1>2. \A l \in Locs : IsLatest(l, 0)
  BY <1>1 DEF IsLatest, WrittenTo
<1> QED
  BY <1>2, InitIInv, WriteAssumption DEF RefInv, HasLatest

LEMMA RefInvNext == RefInv /\ [Next]_vars => RefInv'
<1> SUFFICES ASSUME RefInv, [Next]_vars PROVE RefInv'
  OBVIOUS
<1>1. IInv' /\ TypeOK'
  BY NextIInv DEF RefInv, IInv
<1>2. ASSUME UNCHANGED <<log, refused>> PROVE RefInv'
  BY <1>1, <1>2, SameFile DEF RefInv
<1>3. CASE \E l \in Locs : WriteChunk(l)
  BY <1>1, <1>3, WriteMovesLatest DEF RefInv
<1>4. CASE \E t \in Tasks : ChunkTask(t)
  BY <1>2, <1>4 DEF ChunkTask, callVars, fileVars
<1>5. CASE TakeFront
  BY <1>1, <1>2, <1>5, RefusalMovesLatest
     DEF RefInv, TakeFront, StoreChunk, FrontReady, callVars
<1>6. CASE FrontThrows \/ PollDone \/ WriteReturns \/ DrainDone
  BY <1>2, <1>6 DEF FrontThrows, PollDone, WriteReturns, DrainDone, callVars, fileVars
<1>7. CASE Drain \/ Destroy \/ PoolCloses \/ UNCHANGED vars
  BY <1>2, <1>7 DEF Drain, Destroy, PoolCloses, vars, callVars, fileVars
<1> QED
  BY <1>3, <1>4, <1>5, <1>6, <1>7 DEF Next, Proceed, Ended

\* The front chunk reaches the file, or is lost.
LEMMA TakeKeepsPromise ==
  ASSUME RefInv, TypeOK', TakeFront
  PROVE  [Promise!WBNext]_Promise!wbVars
<1>1. PICK t : t = Head(inFlight)
  OBVIOUS
<1>2. /\ inFlight # <<>> /\ UNCHANGED <<log, pc>> /\ CallerState = "open"
      /\ result[t] = t
  <2>1. Head(inFlight) \in Tasks /\ result[Head(inFlight)] = Head(inFlight)
    BY Pop DEF TakeFront, FrontReady, RefInv, IInv, TaskState
  <2> QED
    BY <1>1, <2>1 DEF TakeFront, FrontReady, Draining, CallerState, callVars
<1>3. Len(log)' = Len(log) /\ CallerState' = CallerState
  BY <1>2 DEF CallerState
<1>4. CASE disk' = [disk EXCEPT ![log[t]] = t] /\ refused' = refused
  <2>1. PICK l \in Locs : l = log[t]
    BY <1>1, <1>2, FrontInRange
  <2>2. File' = File
    BY <1>2, <1>4, SameFile
  <2>3. \E v \in (disk[l] + 1) .. File[l] : disk' = [disk EXCEPT ![l] = v]
    BY <1>1, <1>2, <1>4, <2>1, FrontInRange DEF File
  <2>4. Promise!Store(l)
    BY <1>2, <1>3, <2>2, <2>3 DEF Promise!Store, File
  <2> QED
    BY <2>4 DEF Promise!WBNext
<1>5. CASE StorageMayFail /\ refused' = refused \cup {t} /\ disk' = disk
  <2>1. CASE File' = File
    BY <1>3, <1>5, <2>1 DEF Promise!wbVars, File
  <2>2. CASE \E l \in Locs : \E v \in disk[l] .. (File[l] - 1) : File' = [File EXCEPT ![l] = v]
    <3>1. PICK l \in Locs : \E v \in disk[l] .. (File[l] - 1) : File' = [File EXCEPT ![l] = v]
      BY <2>2
    <3>2. Promise!Lose(l)
      BY <1>2, <1>3, <1>5, <3>1 DEF Promise!Lose, File
    <3> QED
      BY <3>2 DEF Promise!WBNext
  <2> QED
    BY <1>1, <1>2, <1>5, <2>1, <2>2, RefusalMovesLatest
<1> QED
  BY <1>1, <1>2, <1>4, <1>5 DEF TakeFront, StoreChunk

LEMMA NextKeepsPromise == RefInv /\ [Next]_vars => [Promise!WBNext]_Promise!wbVars
<1> SUFFICES ASSUME RefInv, [Next]_vars PROVE [Promise!WBNext]_Promise!wbVars
  OBVIOUS
<1>1. TypeOK'
  BY NextIInv DEF RefInv, IInv
<1>2. ASSUME UNCHANGED <<log, refused>> PROVE Len(log)' = Len(log) /\ File' = File
  BY <1>1, <1>2, SameFile
<1>3. ASSUME NEW l \in Locs, WriteChunk(l) PROVE Promise!Put(l)
  <2>1. File' = [File EXCEPT ![l] = Len(log)']
    BY <1>3, WriteMovesLatest
  <2>2. /\ Len(log)' = Len(log) + 1 /\ disk' = disk
        /\ pc \in {"idle", "flushed"} /\ pc' = "poll"
    BY <1>3 DEF WriteChunk, Ready, fileVars, RefInv, IInv, TypeOK
  <2> QED
    BY <2>1, <2>2 DEF Promise!Put, File, CallerState
<1>4. CASE DrainDone
  <2>1. inFlight = <<>> /\ UNCHANGED <<log, disk, refused>>
        /\ CallerState = "open" /\ CallerState' \in {"synced", "closed"}
    BY <1>4 DEF DrainDone, CallerState, callVars, fileVars
  <2>2. ASSUME NEW l \in Locs PROVE disk[l] = Latest(l)
    <3>1. IsLatest(l, disk[l]) /\ disk[l] \in 0 .. MaxWrites /\ TypeOK
      BY <2>1, EmptyIsLatest DEF RefInv, IInv, TypeOK
    <3> QED
      BY <3>1, LatestIs
  <2>3. disk = File
    BY <2>2 DEF File, RefInv, IInv, TypeOK
  <2>4. Promise!Sync
    BY <1>2, <2>1, <2>3 DEF Promise!Sync, File
  <2> QED
    BY <2>4 DEF Promise!WBNext
<1>5. CASE FrontThrows
  <2>1. /\ UNCHANGED <<log, disk, refused>>
        /\ CallerState = "open" /\ CallerState' \in {"open", "crashed"}
    BY <1>5 DEF FrontThrows, Draining, CallerState, callVars, fileVars
  <2> QED
    BY <1>2, <2>1 DEF Promise!WBNext, Promise!Crash, Promise!wbVars, File
<1>6. CASE Drain \/ Destroy
  <2>1. /\ UNCHANGED <<log, disk, refused>>
        /\ CallerState \in {"open", "synced"} /\ CallerState' = "open"
    BY <1>6 DEF Drain, Destroy, Ready, CallerState, callVars, fileVars
  <2> QED
    BY <1>2, <2>1 DEF Promise!WBNext, Promise!Reopen, Promise!wbVars, File
<1>7. ASSUME UNCHANGED <<log, disk, refused>>, CallerState' = CallerState
      PROVE  UNCHANGED Promise!wbVars
  BY <1>2, <1>7 DEF Promise!wbVars, File
<1>8. CASE PollDone \/ WriteReturns
  BY <1>7, <1>8 DEF PollDone, WriteReturns, CallerState, callVars, fileVars
<1>9. CASE (\E t \in Tasks : ChunkTask(t)) \/ PoolCloses \/ UNCHANGED vars
  BY <1>7, <1>9 DEF ChunkTask, PoolCloses, vars, CallerState, callVars, fileVars
<1>10. CASE \E l \in Locs : WriteChunk(l)
  BY <1>3, <1>10 DEF Promise!WBNext
<1>11. CASE TakeFront
  BY <1>1, <1>11, TakeKeepsPromise
<1> QED
  BY <1>4, <1>5, <1>6, <1>8, <1>9, <1>10, <1>11 DEF Next, Proceed, Ended

\* The parallel pipeline implements the write path: no offset goes back to an
\* older chunk, and a drain or the destructor returns with the file up to date
\* but for the chunks storage refused, or not at all.
THEOREM PipelineKeepsPromise == SafeSpec => ImplementsWriteBehind
<1>1. Init => Promise!WBInit
  <2> SUFFICES ASSUME Init PROVE Promise!WBInit
    OBVIOUS
  <2>1. Len(log) = 0 /\ CallerState = "open" /\ TypeOK
    BY InitIInv DEF Init, CallerState, IInv
  <2>2. ASSUME NEW l \in Locs PROVE Latest(l) = 0
    <3>1. DOMAIN log = {} /\ IsLatest(l, 0)
      BY DEF Init, IsLatest, WrittenTo
    <3> QED
      BY <2>1, <3>1, LatestIs, WriteAssumption
  <2> QED
    BY <2>1, <2>2 DEF Promise!WBInit, Init
<1> QED
  BY <1>1, RefInvInit, RefInvNext, NextKeepsPromise, PTL
  DEF SafeSpec, ImplementsWriteBehind, Promise!WBSpec

=============================================================================
