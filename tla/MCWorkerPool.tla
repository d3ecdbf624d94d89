---------------------------- MODULE MCWorkerPool ----------------------------
(* Instances of WorkerPool for TLC. *)
EXTENDS WorkerPool, TLC

\* Each submit() rings the bell once at most, and so does the destructor.
AllRings == Cardinality(Tasks) + 1

=============================================================================
