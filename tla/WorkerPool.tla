----------------------------- MODULE WorkerPool -----------------------------
(***************************************************************************)
(* worker_pool_t of src/h5cpp/H5Pthreads.hpp with the two primitives it is *)
(* built on: the doorbell of src/h5cpp/detail/doorbell.hpp and the         *)
(* stoppable thread of src/h5cpp/detail/stoppable_thread.hpp.              *)
(*                                                                         *)
(* One action is one atomic step of a thread: an atomic read-modify-write, *)
(* one critical section of m_ (a section never blocks inside), or one      *)
(* decision of the futex behind std::atomic::wait.  A program counter      *)
(* names the statement the thread executes next.                           *)
(*                                                                         *)
(* The doorbell has two builds.  C++20: notify_one wakes a waiter on an    *)
(* atomic; C++17: a waiter on a condition variable.  The second may spend  *)
(* the wake-up on a thread whose predicate still fails, the first may not. *)
(* RingNotify takes the weaker of the two, so both builds are covered.     *)
(***************************************************************************)
EXTENDS Naturals, Sequences, FiniteSets

CONSTANTS
    Workers,       \* the threads of workers_
    Clients,       \* the threads that call submit()
    Tasks,         \* the callables they submit, each of them once
    SeqMod,        \* 2^32 in the code: doorbell_t::seq_ is a std::uint32_t
    MaxRings,      \* bound: the runs in which the bell is rung that often
    AllocMayFail   \* whether tasks_.emplace() may throw std::bad_alloc

ASSUME PoolAssumption ==
    /\ Workers # {}             \* std::max(1u, hardware_concurrency())
    /\ IsFiniteSet(Tasks)
    /\ SeqMod \in Nat \ {0}
    /\ MaxRings \in Nat
    /\ AllocMayFail \in BOOLEAN

VARIABLES
    tasks,      \* tasks_: the queue behind m_
    rings,      \* how often bell_ was rung; bell_.seq_ is rings % SeqMod
    inFlight,   \* in_flight_
    stopping,   \* stopping_
    stop,       \* the workers whose stop token was triggered
    status,     \* status[t]: where the packaged_task of t and its future are
    cpc, ctask, \* a client inside submit(): next statement, and its task
    wpc, wtask, \* a worker inside worker_loop(): next statement, and its task
    last,       \* last_seq of that worker
    dpc,        \* next statement of the thread running ~worker_pool_t()
    joined      \* the workers it has joined

clientVars == <<cpc, ctask>>
workerVars == <<wpc, wtask, last>>
ownerVars  == <<dpc, stopping, stop, joined>>
vars == <<tasks, rings, inFlight, status, clientVars, workerVars, ownerVars>>

Statuses == {"new", "counted", "queued", "running", "ran", "settled", "dropped"}

\* A task that in_flight_ counts: submit() has done its fetch_add and no
\* worker has done the matching fetch_sub.
Outstanding ==
    {t \in Tasks : status[t] \in {"counted", "queued", "running", "ran", "dropped"}}

\* The value of doorbell_t::seq_.
Seq32 == rings % SeqMod

Asleep == {w \in Workers : wpc[w] = "asleep"}

TypeOK ==
    /\ tasks \in Seq(Tasks)
    /\ rings \in 0 .. MaxRings
    /\ inFlight \in Nat
    /\ stopping \in BOOLEAN
    /\ stop \in SUBSET Workers
    /\ joined \in SUBSET stop
    /\ status \in [Tasks -> Statuses]
    /\ cpc \in [Clients -> {"idle", "push", "ring", "notify"}]
    /\ ctask \in [Clients -> Tasks]
    /\ wpc \in [Workers -> {"loop", "lock", "run", "settle", "check",
                            "wait", "asleep", "exit"}]
    /\ wtask \in [Workers -> Tasks]
    /\ last \in [Workers -> 0 .. (SeqMod - 1)]
    /\ dpc \in {"alive", "draining", "stopping", "ring", "notify", "joining", "dead"}

\* The worker threads run from the constructor on; no task exists yet.
Init ==
    /\ tasks = <<>>
    /\ rings = 0
    /\ inFlight = 0
    /\ stopping = FALSE
    /\ stop = {}
    /\ joined = {}
    /\ status = [t \in Tasks |-> "new"]
    /\ cpc = [c \in Clients |-> "idle"]
    /\ ctask \in {[c \in Clients |-> t] : t \in Tasks}
    /\ wpc = [w \in Workers |-> "loop"]
    /\ wtask \in {[w \in Workers |-> t] : t \in Tasks}
    /\ last = [w \in Workers |-> 0]
    /\ dpc = "alive"

-----------------------------------------------------------------------------
(* The doorbell. *)

\* seq_.fetch_add(1); the model covers runs of at most MaxRings rings.
BumpSeq ==
    /\ rings < MaxRings
    /\ rings' = rings + 1

\* Fault: the sequence number advances and nobody is notified.
WakeNone == UNCHANGED wpc

\* notify_one / notify_all: a woken thread looks at seq_ again.
WakeOne ==
    IF Asleep = {}
    THEN UNCHANGED wpc
    ELSE \E w \in Asleep : wpc' = [wpc EXCEPT ![w] = "wait"]

\* Fault: ring_all() uses notify_one.
WakeAllAsOne ==
    IF Asleep = {}
    THEN UNCHANGED wpc
    ELSE \E w \in Asleep : wpc' = [wpc EXCEPT ![w] = "wait"]

WakeAll == wpc' = [w \in Workers |-> IF w \in Asleep THEN "wait" ELSE wpc[w]]

-----------------------------------------------------------------------------
(* submit(). *)

\* Fault: submit() does not count the task.
SubmitUncounted(c, t) ==
    /\ dpc = "alive"
    /\ cpc[c] = "idle"
    /\ status[t] = "new"
    /\ status' = [status EXCEPT ![t] = "counted"]
    /\ ctask' = [ctask EXCEPT ![c] = t]
    /\ cpc' = [cpc EXCEPT ![c] = "push"]
    /\ UNCHANGED <<tasks, rings, inFlight, workerVars, ownerVars>>

\* The promise is made and counted before anybody can see the task.  Nobody
\* may call submit() on a pool whose destructor has begun.
SubmitCount(c, t) ==
    /\ dpc = "alive"
    /\ cpc[c] = "idle"
    /\ status[t] = "new"
    /\ status' = [status EXCEPT ![t] = "counted"]
    /\ inFlight' = inFlight + 1
    /\ ctask' = [ctask EXCEPT ![c] = t]
    /\ cpc' = [cpc EXCEPT ![c] = "push"]
    /\ UNCHANGED <<tasks, rings, workerVars, ownerVars>>

SubmitPush(c) ==
    /\ cpc[c] = "push"
    /\ tasks' = Append(tasks, ctask[c])
    /\ status' = [status EXCEPT ![ctask[c]] = "queued"]
    /\ cpc' = [cpc EXCEPT ![c] = "ring"]
    /\ UNCHANGED <<ctask, rings, inFlight, workerVars, ownerVars>>

\* emplace() throws: submit() unwinds, the task is gone, the count stays.
SubmitThrows(c) ==
    /\ AllocMayFail
    /\ cpc[c] = "push"
    /\ status' = [status EXCEPT ![ctask[c]] = "dropped"]
    /\ cpc' = [cpc EXCEPT ![c] = "idle"]
    /\ UNCHANGED <<ctask, tasks, rings, inFlight, workerVars, ownerVars>>

RingBump(c) ==
    /\ cpc[c] = "ring"
    /\ BumpSeq
    /\ cpc' = [cpc EXCEPT ![c] = "notify"]
    /\ UNCHANGED <<ctask, tasks, inFlight, status, workerVars, ownerVars>>

RingNotify(c) ==
    /\ cpc[c] = "notify"
    /\ WakeOne
    /\ cpc' = [cpc EXCEPT ![c] = "idle"]
    /\ UNCHANGED <<ctask, tasks, rings, inFlight, status, wtask, last, ownerVars>>

-----------------------------------------------------------------------------
(* worker_loop(). *)

\* while (!st.stop_requested())
LoopTest(w) ==
    /\ wpc[w] = "loop"
    /\ wpc' = [wpc EXCEPT ![w] = IF w \in stop THEN "exit" ELSE "lock"]
    /\ UNCHANGED <<tasks, rings, inFlight, status, clientVars, wtask, last, ownerVars>>

\* Fault: front() without pop().
FetchWithoutPop(w) ==
    /\ wpc[w] = "lock"
    /\ tasks # <<>>
    /\ wtask' = [wtask EXCEPT ![w] = Head(tasks)]
    /\ status' = [status EXCEPT ![Head(tasks)] = "running"]
    /\ wpc' = [wpc EXCEPT ![w] = "run"]
    /\ UNCHANGED <<tasks, rings, inFlight, clientVars, last, ownerVars>>

\* The critical section of m_, queue not empty: take the front task.
Fetch(w) ==
    /\ wpc[w] = "lock"
    /\ tasks # <<>>
    /\ wtask' = [wtask EXCEPT ![w] = Head(tasks)]
    /\ tasks' = Tail(tasks)
    /\ status' = [status EXCEPT ![Head(tasks)] = "running"]
    /\ wpc' = [wpc EXCEPT ![w] = "run"]
    /\ UNCHANGED <<rings, inFlight, clientVars, last, ownerVars>>

\* The critical section of m_, queue empty: note the bell's sequence number.
Snapshot(w) ==
    /\ wpc[w] = "lock"
    /\ tasks = <<>>
    /\ last' = [last EXCEPT ![w] = Seq32]
    /\ wpc' = [wpc EXCEPT ![w] = "check"]
    /\ UNCHANGED <<tasks, rings, inFlight, status, clientVars, wtask, ownerVars>>

\* task() returns or throws: either way the packaged_task makes the future
\* ready, which the holder of the future sees before in_flight_ goes down.
Execute(w) ==
    /\ wpc[w] = "run"
    /\ status' = [status EXCEPT ![wtask[w]] = "ran"]
    /\ wpc' = [wpc EXCEPT ![w] = "settle"]
    /\ UNCHANGED <<tasks, rings, inFlight, clientVars, wtask, last, ownerVars>>

\* Fault: fetch_sub both in the catch handler and after it.
SettleTwice(w) ==
    /\ wpc[w] = "settle"
    /\ inFlight' = inFlight - 2
    /\ status' = [status EXCEPT ![wtask[w]] = "settled"]
    /\ wpc' = [wpc EXCEPT ![w] = "loop"]
    /\ UNCHANGED <<tasks, rings, clientVars, wtask, last, ownerVars>>

Settle(w) ==
    /\ wpc[w] = "settle"
    /\ inFlight' = inFlight - 1
    /\ status' = [status EXCEPT ![wtask[w]] = "settled"]
    /\ wpc' = [wpc EXCEPT ![w] = "loop"]
    /\ UNCHANGED <<tasks, rings, clientVars, wtask, last, ownerVars>>

\* if (st.stop_requested() || stopping_) return;
CheckStop(w) ==
    /\ wpc[w] = "check"
    /\ wpc' = [wpc EXCEPT ![w] = IF w \in stop \/ stopping THEN "exit" ELSE "wait"]
    /\ UNCHANGED <<tasks, rings, inFlight, status, clientVars, wtask, last, ownerVars>>

\* Fault: the worker sleeps without comparing the sequence number.
BellWaitBlind(w) ==
    /\ wpc[w] = "wait"
    /\ wpc' = [wpc EXCEPT ![w] = "asleep"]
    /\ UNCHANGED <<tasks, rings, inFlight, status, clientVars, wtask, last, ownerVars>>

\* bell_.wait(last_seq): returns once the sequence number differs from the
\* one noted, and otherwise sleeps; comparing and sleeping is one step.
BellWait(w) ==
    /\ wpc[w] = "wait"
    /\ wpc' = [wpc EXCEPT ![w] = IF last[w] = Seq32 THEN "asleep" ELSE "loop"]
    /\ UNCHANGED <<tasks, rings, inFlight, status, clientVars, wtask, last, ownerVars>>

\* A condition variable or a futex may wake a thread for no reason.
SpuriousWake(w) ==
    /\ wpc[w] = "asleep"
    /\ wpc' = [wpc EXCEPT ![w] = "wait"]
    /\ UNCHANGED <<tasks, rings, inFlight, status, clientVars, wtask, last, ownerVars>>

-----------------------------------------------------------------------------
(* ~worker_pool_t(). *)

\* Destroying an object while a member function runs on it is undefined, so
\* the owner begins only when every client has left submit().
DtorBegin ==
    /\ dpc = "alive"
    /\ \A c \in Clients : cpc[c] = "idle"
    /\ dpc' = "draining"
    /\ UNCHANGED <<tasks, rings, inFlight, status, clientVars, workerVars,
                   stopping, stop, joined>>

\* Fault: the destructor does not wait for the pool to be idle.
WaitIdleSkipped ==
    /\ dpc = "draining"
    /\ dpc' = "stopping"
    /\ UNCHANGED <<tasks, rings, inFlight, status, clientVars, workerVars,
                   stopping, stop, joined>>

\* wait_idle(): spins on in_flight_.
WaitIdle ==
    /\ dpc = "draining"
    /\ inFlight = 0
    /\ dpc' = "stopping"
    /\ UNCHANGED <<tasks, rings, inFlight, status, clientVars, workerVars,
                   stopping, stop, joined>>

DtorStopping ==
    /\ dpc = "stopping"
    /\ stopping' = TRUE
    /\ dpc' = "ring"
    /\ UNCHANGED <<tasks, rings, inFlight, status, clientVars, workerVars, stop, joined>>

DtorRing ==
    /\ dpc = "ring"
    /\ BumpSeq
    /\ dpc' = "notify"
    /\ UNCHANGED <<tasks, inFlight, status, clientVars, workerVars, stopping, stop, joined>>

DtorNotify ==
    /\ dpc = "notify"
    /\ WakeAll
    /\ dpc' = "joining"
    /\ UNCHANGED <<tasks, rings, inFlight, status, clientVars, wtask, last,
                   stopping, stop, joined>>

\* workers_ is destroyed element by element, in an order the standard leaves
\* open; each thread's destructor requests its stop and then joins it.
RequestStop(w) ==
    /\ dpc = "joining"
    /\ stop = joined
    /\ w \notin joined
    /\ stop' = stop \cup {w}
    /\ UNCHANGED <<tasks, rings, inFlight, status, clientVars, workerVars,
                   dpc, stopping, joined>>

Join(w) ==
    /\ dpc = "joining"
    /\ w \in stop \ joined
    /\ wpc[w] = "exit"
    /\ joined' = joined \cup {w}
    /\ dpc' = IF joined' = Workers THEN "dead" ELSE "joining"
    /\ UNCHANGED <<tasks, rings, inFlight, status, clientVars, workerVars, stopping, stop>>

\* The pool is gone.
Terminated == dpc = "dead" /\ UNCHANGED vars

-----------------------------------------------------------------------------

Submit(c) ==
    \/ SubmitPush(c) \/ SubmitThrows(c) \/ RingBump(c) \/ RingNotify(c)

Work(w) ==
    \/ LoopTest(w) \/ Fetch(w) \/ Snapshot(w) \/ Execute(w)
    \/ Settle(w) \/ CheckStop(w) \/ BellWait(w)

Destroy ==
    \/ WaitIdle \/ DtorStopping \/ DtorRing \/ DtorNotify
    \/ \E w \in Workers : RequestStop(w) \/ Join(w)

Next ==
    \/ \E c \in Clients : Submit(c) \/ \E t \in Tasks : SubmitCount(c, t)
    \/ \E w \in Workers : Work(w) \/ SpuriousWake(w)
    \/ DtorBegin
    \/ Destroy
    \/ Terminated

\* Every thread that has a step to take is scheduled in the end: a submit()
\* that began finishes, a worker goes on, a destructor that began goes on.
\* Nobody has to call submit() or the destructor, and no wake-up is spurious
\* by obligation.
Fairness ==
    /\ \A c \in Clients : WF_vars(Submit(c))
    /\ \A w \in Workers : WF_vars(Work(w))
    /\ WF_vars(Destroy)

SafeSpec == Init /\ [][Next]_vars
Spec == SafeSpec /\ Fairness

-----------------------------------------------------------------------------
(* Properties. *)

\* A worker that will look at the queue again without being woken up.
Attentive(w) ==
    \/ wpc[w] \in {"loop", "lock", "run", "settle"}
    \/ wpc[w] \in {"check", "wait"} /\ last[w] # Seq32

\* No wake-up is lost: while a task waits in the queue, some worker is about
\* to look at the queue or some submit() has its ring still to complete
\* (comment of worker_loop(): the wait "cannot miss" a ring).
NoLostWakeup ==
    tasks # <<>> =>
        \/ \E c \in Clients : cpc[c] \in {"ring", "notify"}
        \/ \E w \in Workers : Attentive(w)

\* wait_idle() keeps its promise: in_flight_ = 0 means that every task some
\* submit() has pushed is executed and its future ready.
IdleMeansDone ==
    inFlight = 0 => \A t \in Tasks : status[t] \in {"new", "settled"}

\* A worker leaves its loop only when no task is queued or being executed, so
\* the destructor breaks no promise.
ExitOnlyWhenDrained ==
    (\E w \in Workers : wpc[w] = "exit") =>
        tasks = <<>> /\ \A t \in Tasks : status[t] \notin {"queued", "running"}

\* A task is in one place only: once in the queue, or with one worker.
OneHolder ==
    /\ \A i, j \in DOMAIN tasks : tasks[i] = tasks[j] => i = j
    /\ \A i \in DOMAIN tasks : status[tasks[i]] = "queued"
    /\ \A v, w \in Workers :
          (wpc[v] = "run" /\ wpc[w] = "run" /\ wtask[v] = wtask[w]) => v = w

\* The destructor comes to an end: every worker is woken, leaves and is joined.
\* The one exception is a submit() that threw: the count it left behind keeps
\* wait_idle() spinning.
DestructorReturns ==
    dpc = "draining" /\ (\A t \in Tasks : status[t] # "dropped") ~> dpc = "dead"

\* The pool as an executor: a task is accepted when it enters the queue and
\* done when its future is ready; the pool closes when the wait_idle() of the
\* destructor returns.
PhaseOf(s) ==
    IF s \in {"queued", "running"} THEN "accepted"
    ELSE IF s \in {"ran", "settled"} THEN "done"
    ELSE "new"

ExecPhase == [t \in Tasks |-> PhaseOf(status[t])]
ExecClosed == dpc \notin {"alive", "draining"}

Exec == INSTANCE TaskExecutor WITH phase <- ExecPhase, closed <- ExecClosed

\* WorkerPool implements TaskExecutor, its liveness included.
ImplementsExecutor == Exec!ExecSpec

=============================================================================
