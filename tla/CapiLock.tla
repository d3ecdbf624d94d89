------------------------------ MODULE CapiLock ------------------------------
(***************************************************************************)
(* The process-wide lock of the H5CPP_MULTITHREAD build (capi_lock,        *)
(* src/h5cpp/H5Iall.hpp, and on_collector, src/h5cpp/H5collector.hpp).     *)
(* HDF5 is built without thread safety: a call that runs while another     *)
(* thread is inside the library corrupts it.  A capi_lock takes the mutex  *)
(* when the thread's depth was zero and otherwise only counts; tops[t]     *)
(* holds the member top_ of the capi_lock objects alive in thread t, the   *)
(* innermost last.                                                         *)
(*                                                                         *)
(* LockSpec lets every thread construct and destroy locks and call the     *)
(* library in any order, with or without a lock: it is what any program    *)
(* can do with the class.  Handles is one such program.                    *)
(***************************************************************************)
EXTENDS Naturals, Sequences

CONSTANTS
    Threads,
    NoThread    \* the mutex is free

ASSUME LockAssumption == NoThread \notin Threads

VARIABLES
    mutex,    \* hdf5_mutex(): the thread that holds it
    depth,    \* hdf5_lock_depth, thread-local
    tops,     \* top_ of the locks alive, by thread
    inside    \* the threads that are inside a call of the C library

lockVars == <<mutex, depth, tops, inside>>

Innermost(t) == tops[t][Len(tops[t])]

LockInit ==
    /\ mutex = NoThread
    /\ depth = [t \in Threads |-> 0]
    /\ tops = [t \in Threads |-> <<>>]
    /\ inside = {}

\* Fault: the mutex taken by nested locks too, as by a plain lock_guard.
LockAgain(t) ==
    /\ t \notin inside
    /\ mutex = NoThread
    /\ mutex' = t
    /\ depth' = [depth EXCEPT ![t] = @ + 1]
    /\ tops' = [tops EXCEPT ![t] = Append(@, depth[t] = 0)]
    /\ UNCHANGED inside

\* capi_lock(): top_(hdf5_lock_depth++ == 0u) { if (top_) hdf5_mutex().lock(); }
Lock(t) ==
    LET top == depth[t] = 0 IN
    /\ t \notin inside
    /\ top => mutex = NoThread
    /\ mutex' = IF top THEN t ELSE mutex
    /\ depth' = [depth EXCEPT ![t] = @ + 1]
    /\ tops' = [tops EXCEPT ![t] = Append(@, top)]
    /\ UNCHANGED inside

\* Fault: a nested lock releases the mutex as well.
UnlockInner(t) ==
    /\ t \notin inside
    /\ tops[t] # <<>>
    /\ mutex' = NoThread
    /\ depth' = [depth EXCEPT ![t] = @ - 1]
    /\ tops' = [tops EXCEPT ![t] = SubSeq(@, 1, Len(@) - 1)]
    /\ UNCHANGED inside

\* Fault: only the lock that took the mutex counts down.
UnlockTopCounts(t) ==
    /\ t \notin inside
    /\ tops[t] # <<>>
    /\ mutex' = IF Innermost(t) THEN NoThread ELSE mutex
    /\ depth' = [depth EXCEPT ![t] = IF Innermost(t) THEN @ - 1 ELSE @]
    /\ tops' = [tops EXCEPT ![t] = SubSeq(@, 1, Len(@) - 1)]
    /\ UNCHANGED inside

\* ~capi_lock(): { if (top_) hdf5_mutex().unlock(); --hdf5_lock_depth; }
Unlock(t) ==
    /\ t \notin inside
    /\ tops[t] # <<>>
    /\ mutex' = IF Innermost(t) THEN NoThread ELSE mutex
    /\ depth' = [depth EXCEPT ![t] = @ - 1]
    /\ tops' = [tops EXCEPT ![t] = SubSeq(@, 1, Len(@) - 1)]
    /\ UNCHANGED inside

\* A call of the C library begins, and returns.
Enter(t) ==
    /\ t \notin inside
    /\ inside' = inside \cup {t}
    /\ UNCHANGED <<mutex, depth, tops>>

Leave(t) ==
    /\ t \in inside
    /\ inside' = inside \ {t}
    /\ UNCHANGED <<mutex, depth, tops>>

LockNext == \E t \in Threads : Lock(t) \/ Unlock(t) \/ Enter(t) \/ Leave(t)

LockSpec == LockInit /\ [][LockNext]_lockVars

(***************************************************************************)
(* Properties                                                              *)
(***************************************************************************)
LockTypeOK ==
    /\ mutex \in Threads \cup {NoThread}
    /\ depth \in [Threads -> Nat]
    /\ tops \in [Threads -> Seq(BOOLEAN)]
    /\ inside \subseteq Threads

\* Two threads are inside the library at once only if one of them went there
\* without a lock (the promise of src/h5cpp/H5Iall.hpp:40-51, as far as the
\* callers keep their part of it).
Exclusive ==
    \A t, u \in inside : t # u => depth[t] = 0 \/ depth[u] = 0

\* What makes it so: the depth counts the locks alive, the outermost of them
\* and no other is the one that took the mutex, and whoever has one holds it.
LockInv ==
    /\ LockTypeOK
    /\ \A t \in Threads : depth[t] = Len(tops[t])
    /\ \A t \in Threads : \A i \in 1 .. Len(tops[t]) : tops[t][i] <=> i = 1
    /\ \A t \in Threads : depth[t] > 0 <=> mutex = t

=============================================================================
