---------------------------- MODULE TaskExecutor ----------------------------
(***************************************************************************)
(* What worker_pool_t (src/h5cpp/H5Pthreads.hpp) promises to the code that *)
(* submits work to it, with no mention of threads, queues or wake-ups:     *)
(* a task that was handed over is executed exactly once, in any order      *)
(* relative to the others, and the executor closes only when nothing is    *)
(* left to execute.                                                        *)
(*                                                                         *)
(* WorkerPool implements this specification; PoolWrite and PoolRead, the   *)
(* clients of the pool, are written against it.                            *)
(***************************************************************************)
CONSTANT Tasks

VARIABLES phase,   \* phase[t]: how far the executor is with task t
          closed   \* the executor accepts and executes nothing any more

execVars == <<phase, closed>>

ExecTypeOK ==
    /\ phase \in [Tasks -> {"new", "accepted", "done"}]
    /\ closed \in BOOLEAN

ExecInit ==
    /\ phase = [t \in Tasks |-> "new"]
    /\ closed = FALSE

Accept(t) ==
    /\ ~closed
    /\ phase[t] = "new"
    /\ phase' = [phase EXCEPT ![t] = "accepted"]
    /\ UNCHANGED closed

Finish(t) ==
    /\ ~closed
    /\ phase[t] = "accepted"
    /\ phase' = [phase EXCEPT ![t] = "done"]
    /\ UNCHANGED closed

Close ==
    /\ ~closed
    /\ \A t \in Tasks : phase[t] # "accepted"
    /\ closed' = TRUE
    /\ UNCHANGED phase

ExecNext ==
    \/ \E t \in Tasks : Accept(t) \/ Finish(t)
    \/ Close

ExecSafeSpec == ExecInit /\ [][ExecNext]_execVars

\* A task that was accepted is executed whatever the other tasks do.
ExecSpec == ExecSafeSpec /\ \A t \in Tasks : WF_execVars(Finish(t))

=============================================================================
