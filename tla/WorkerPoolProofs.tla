-------------------------- MODULE WorkerPoolProofs --------------------------
(***************************************************************************)
(* Proofs about WorkerPool for any number of workers, clients and tasks.   *)
(*                                                                         *)
(* The inductive invariant IInv adds to the properties of WorkerPool what  *)
(* they depend on: where each task is (Places), that in_flight_ counts the *)
(* outstanding tasks (Accounting), what the destructor's progress excludes *)
(* (Phases), and that a worker which has noted the present sequence number *)
(* under the lock can overlook only tasks whose submit() has still to ring *)
(* (FreshSnapshot).                                                        *)
(***************************************************************************)
EXTENDS WorkerPool, FiniteSetTheorems, TLAPS

Places ==
    /\ \A i, j \in 1 .. Len(tasks) : tasks[i] = tasks[j] => i = j
    /\ \A i \in 1 .. Len(tasks) : status[tasks[i]] = "queued"
    /\ \A c \in Clients : cpc[c] = "push" => status[ctask[c]] = "counted"
    /\ \A c, d \in Clients :
          (cpc[c] = "push" /\ cpc[d] = "push" /\ ctask[c] = ctask[d]) => c = d
    /\ \A w \in Workers : /\ wpc[w] = "run" => status[wtask[w]] = "running"
                          /\ wpc[w] = "settle" => status[wtask[w]] = "ran"
    /\ \A v, w \in Workers :
          (/\ wpc[v] \in {"run", "settle"}
           /\ wpc[w] \in {"run", "settle"}
           /\ wtask[v] = wtask[w]) => v = w

Accounting == inFlight = Cardinality(Outstanding)

Phases ==
    /\ dpc # "alive" => \A c \in Clients : cpc[c] = "idle"
    /\ dpc \notin {"alive", "draining"} => inFlight = 0
    /\ (stopping \/ stop # {} \/ \E w \in Workers : wpc[w] = "exit")
          => dpc \notin {"alive", "draining"}

\* What a worker has noted is the sequence number of an earlier ring.
Noted == \A w \in Workers : last[w] <= rings

FreshSnapshot ==
    \A w \in Workers :
        (/\ wpc[w] \in {"check", "wait", "asleep"}
         /\ last[w] = rings
         /\ tasks # <<>>) => \E c \in Clients : cpc[c] = "ring"

SomebodyLooks ==
    tasks # <<>> =>
        \/ \E c \in Clients : cpc[c] \in {"ring", "notify"}
        \/ \E w \in Workers :
              \/ wpc[w] \in {"loop", "lock", "run", "settle"}
              \/ wpc[w] \in {"check", "wait"} /\ last[w] # rings

IInv == TypeOK /\ Places /\ Accounting /\ Phases

-----------------------------------------------------------------------------
(* The safety of the task accounting. *)

LEMMA OutstandingFinite == IsFiniteSet(Outstanding)
  BY PoolAssumption, FS_Subset DEF Outstanding

\* Changing the status of one task changes the count by at most one.
LEMMA CountStep ==
  ASSUME TypeOK, Accounting, NEW t \in Tasks, NEW s \in Statuses,
         status' = [status EXCEPT ![t] = s]
  PROVE  /\ t \in Outstanding /\ s \in {"new", "settled"} =>
                inFlight > 0 /\ Cardinality(Outstanding') = inFlight - 1
         /\ t \notin Outstanding /\ s \notin {"new", "settled"} =>
                Cardinality(Outstanding') = inFlight + 1
         /\ t \in Outstanding /\ s \notin {"new", "settled"} =>
                Cardinality(Outstanding') = inFlight
<1>1. CASE s \in {"new", "settled"}
  <2>1. Outstanding' = Outstanding \ {t}
    BY <1>1 DEF Outstanding, TypeOK, Statuses
  <2>2. t \in Outstanding => Cardinality(Outstanding) # 0
    BY OutstandingFinite, FS_EmptySet
  <2>3. Cardinality(Outstanding \ {t}) =
          IF t \in Outstanding THEN inFlight - 1 ELSE inFlight
    BY OutstandingFinite, FS_RemoveElement DEF Accounting
  <2> QED
    BY <1>1, <2>1, <2>2, <2>3 DEF Accounting, TypeOK
<1>2. CASE s \notin {"new", "settled"}
  <2>1. Outstanding' = Outstanding \cup {t}
    BY <1>2 DEF Outstanding, TypeOK, Statuses
  <2> QED
    BY <1>2, <2>1, OutstandingFinite, FS_AddElement DEF Accounting, TypeOK
<1> QED  BY <1>1, <1>2

\* With nothing counted no task is on its way.
LEMMA NothingOutstanding ==
  ASSUME TypeOK, Accounting, inFlight = 0
  PROVE  \A t \in Tasks : status[t] \in {"new", "settled"}
<1>1. Outstanding = {}
  BY OutstandingFinite, FS_EmptySet DEF Accounting
<1> QED
  BY <1>1 DEF Outstanding, TypeOK, Statuses

\* A value of doorbell_t::seq_ fits its width.
LEMMA SeqInRange == TypeOK => Seq32 \in 0 .. (SeqMod - 1)
  BY PoolAssumption DEF TypeOK, Seq32

LEMMA InitIInv == Init => IInv
<1> SUFFICES ASSUME Init PROVE IInv
  OBVIOUS
<1>1. TypeOK
  <2>1. ctask \in [Clients -> Tasks] /\ wtask \in [Workers -> Tasks]
    BY DEF Init
  <2>2. last \in [Workers -> 0 .. (SeqMod - 1)]
    BY PoolAssumption DEF Init
  <2>3. tasks \in Seq(Tasks) /\ rings \in 0 .. MaxRings
    BY PoolAssumption DEF Init
  <2> QED
    BY <2>1, <2>2, <2>3, PoolAssumption DEF Init, TypeOK, Statuses
<1>2. Outstanding = {}
  BY DEF Init, Outstanding
<1>3. Accounting
  BY <1>2, FS_EmptySet DEF Init, Accounting
<1> QED
  BY <1>1, <1>3 DEF Init, IInv, Places, Phases

LEMMA NextIInv == IInv /\ [Next]_vars => IInv'
<1> SUFFICES ASSUME IInv, [Next]_vars PROVE IInv'
  OBVIOUS
<1> USE DEF IInv, clientVars, workerVars, ownerVars
<1>1. ASSUME NEW c \in Clients, NEW t \in Tasks, SubmitCount(c, t) PROVE IInv'
  <2>1. TypeOK'
    BY <1>1, PoolAssumption DEF SubmitCount, TypeOK, Statuses
  <2>2. Places'
    BY <1>1 DEF SubmitCount, TypeOK, Statuses, Places
  <2>3. Accounting'
    <3>1. t \in Tasks /\ status' = [status EXCEPT ![t] = "counted"]
      BY <1>1 DEF SubmitCount, TypeOK, Places
    <3>2. status[t] = "new"
      BY <1>1 DEF SubmitCount, TypeOK, Places
    <3> QED
      BY <1>1, <3>1, <3>2, CountStep DEF SubmitCount, Accounting, Outstanding, Statuses
  <2>4. Phases'
    BY <1>1 DEF SubmitCount, TypeOK, Phases
  <2> QED  BY <2>1, <2>2, <2>3, <2>4
<1>2. ASSUME NEW c \in Clients, SubmitPush(c) PROVE IInv'
  <2>1. TypeOK'
    BY <1>2, PoolAssumption DEF SubmitPush, TypeOK, Statuses
  <2>2. Places'
    <3>1. Len(tasks') = Len(tasks) + 1 /\ tasks'[Len(tasks) + 1] = ctask[c]
      BY <1>2 DEF SubmitPush, TypeOK
    <3>2. \A i \in 1 .. Len(tasks) : tasks'[i] = tasks[i] /\ tasks[i] # ctask[c]
      BY <1>2 DEF SubmitPush, TypeOK, Places
    <3>3. \A i \in 1 .. Len(tasks') : i \in 1 .. Len(tasks) \/ i = Len(tasks) + 1
      BY <3>1 DEF TypeOK
    <3>4. \A i, j \in 1 .. Len(tasks') : tasks'[i] = tasks'[j] => i = j
      BY <3>1, <3>2, <3>3 DEF Places
    <3>5. \A i \in 1 .. Len(tasks') : status'[tasks'[i]] = "queued"
      BY <1>2, <3>1, <3>2, <3>3 DEF SubmitPush, TypeOK, Places
    <3> QED
      BY <1>2, <3>4, <3>5 DEF SubmitPush, TypeOK, Statuses, Places
  <2>3. Accounting'
    <3>1. ctask[c] \in Tasks /\ status' = [status EXCEPT ![ctask[c]] = "queued"]
      BY <1>2 DEF SubmitPush, TypeOK, Places
    <3>2. status[ctask[c]] = "counted"
      BY <1>2 DEF SubmitPush, TypeOK, Places
    <3> QED
      BY <1>2, <3>1, <3>2, CountStep DEF SubmitPush, Accounting, Outstanding, Statuses
  <2>4. Phases'
    BY <1>2 DEF SubmitPush, TypeOK, Phases
  <2> QED  BY <2>1, <2>2, <2>3, <2>4
<1>3. ASSUME NEW c \in Clients, SubmitThrows(c) PROVE IInv'
  <2>1. TypeOK'
    BY <1>3, PoolAssumption DEF SubmitThrows, TypeOK, Statuses
  <2>2. Places'
    BY <1>3 DEF SubmitThrows, TypeOK, Statuses, Places
  <2>3. Accounting'
    <3>1. ctask[c] \in Tasks /\ status' = [status EXCEPT ![ctask[c]] = "dropped"]
      BY <1>3 DEF SubmitThrows, TypeOK, Places
    <3>2. status[ctask[c]] = "counted"
      BY <1>3 DEF SubmitThrows, TypeOK, Places
    <3> QED
      BY <1>3, <3>1, <3>2, CountStep DEF SubmitThrows, Accounting, Outstanding, Statuses
  <2>4. Phases'
    BY <1>3 DEF SubmitThrows, TypeOK, Phases
  <2> QED  BY <2>1, <2>2, <2>3, <2>4
<1>4. ASSUME NEW c \in Clients, RingBump(c) PROVE IInv'
  BY <1>4, PoolAssumption DEF RingBump, BumpSeq, TypeOK, Statuses, Places,
     Accounting, Outstanding, Phases
<1>5. ASSUME NEW c \in Clients, RingNotify(c) PROVE IInv'
  <2>0. /\ wpc' \in [Workers -> {"loop", "lock", "run", "settle", "check",
                                "wait", "asleep", "exit"}]
        /\ \A w \in Workers : wpc'[w] = wpc[w] \/ (wpc[w] = "asleep" /\ wpc'[w] = "wait")
    <3>1. CASE Asleep = {}
      <4>1. wpc' = wpc
        BY <1>5, <3>1 DEF RingNotify, WakeOne
      <4> QED
        BY <4>1 DEF TypeOK
    <3>2. CASE Asleep # {}
      <4>1. PICK w \in Asleep : wpc' = [wpc EXCEPT ![w] = "wait"]
        BY <1>5, <3>2 DEF RingNotify, WakeOne
      <4>2. w \in Workers /\ wpc[w] = "asleep"
        BY <4>1 DEF Asleep
      <4> QED
        BY <4>1, <4>2 DEF TypeOK
    <3> QED  BY <3>1, <3>2
  <2>1. TypeOK'
    BY <1>5, <2>0 DEF RingNotify, TypeOK, Statuses
  <2>2. Places'
    BY <1>5, <2>0 DEF RingNotify, TypeOK, Statuses, Places
  <2>3. Accounting'
    BY <1>5 DEF RingNotify, Accounting, Outstanding
  <2>4. Phases'
    BY <1>5, <2>0 DEF RingNotify, TypeOK, Phases
  <2> QED  BY <2>1, <2>2, <2>3, <2>4
<1>6. ASSUME NEW w \in Workers, LoopTest(w) PROVE IInv'
  <2>1. TypeOK'
    BY <1>6, PoolAssumption DEF LoopTest, TypeOK, Statuses
  <2>2. Places'
    BY <1>6 DEF LoopTest, TypeOK, Statuses, Places
  <2>3. Accounting'
    BY <1>6 DEF LoopTest, Accounting, Outstanding
  <2>4. Phases'
    BY <1>6 DEF LoopTest, TypeOK, Phases
  <2> QED  BY <2>1, <2>2, <2>3, <2>4
<1>7. ASSUME NEW w \in Workers, Fetch(w) PROVE IInv'
  <2>0. /\ Head(tasks) = tasks[1]
        /\ Head(tasks) \in Tasks
        /\ Tail(tasks) \in Seq(Tasks)
        /\ Len(Tail(tasks)) = Len(tasks) - 1
        /\ \A i \in 1 .. Len(Tail(tasks)) : Tail(tasks)[i] = tasks[i + 1]
    BY <1>7 DEF Fetch, TypeOK
  <2>1. TypeOK'
    BY <1>7, <2>0 DEF Fetch, TypeOK, Statuses
  <2>2. Places'
    <3>1. Len(tasks) >= 1 /\ status[Head(tasks)] = "queued"
      BY <1>7, <2>0 DEF Fetch, TypeOK, Places
    <3>2. \A i \in 1 .. Len(tasks') :
             tasks'[i] = tasks[i + 1] /\ i + 1 \in 1 .. Len(tasks) /\ tasks'[i] # Head(tasks)
      BY <1>7, <2>0, <3>1 DEF Fetch, TypeOK, Places
    <3>3. \A i, j \in 1 .. Len(tasks') : tasks'[i] = tasks'[j] => i = j
      BY <3>2 DEF Places
    <3>4. \A i \in 1 .. Len(tasks') : status'[tasks'[i]] = "queued"
      BY <1>7, <2>0, <3>2 DEF Fetch, TypeOK, Places
    <3> QED
      BY <1>7, <2>0, <3>1, <3>3, <3>4 DEF Fetch, TypeOK, Statuses, Places
  <2>3. Accounting'
    <3>1. status[Head(tasks)] = "queued"
      BY <1>7, <2>0 DEF Fetch, TypeOK, Places
    <3> QED
      BY <1>7, <2>0, <3>1, CountStep DEF Fetch, Accounting, Outstanding, Statuses
  <2>4. Phases'
    BY <1>7 DEF Fetch, TypeOK, Phases
  <2> QED  BY <2>1, <2>2, <2>3, <2>4
<1>8. ASSUME NEW w \in Workers, Snapshot(w) PROVE IInv'
  <2>1. TypeOK'
    BY <1>8, SeqInRange DEF Snapshot, TypeOK, Statuses
  <2>2. Places'
    BY <1>8 DEF Snapshot, TypeOK, Statuses, Places
  <2>3. Accounting'
    BY <1>8 DEF Snapshot, Accounting, Outstanding
  <2>4. Phases'
    BY <1>8 DEF Snapshot, TypeOK, Phases
  <2> QED  BY <2>1, <2>2, <2>3, <2>4
<1>9. ASSUME NEW w \in Workers, Execute(w) PROVE IInv'
  <2>1. TypeOK'
    BY <1>9, PoolAssumption DEF Execute, TypeOK, Statuses
  <2>2. Places'
    BY <1>9 DEF Execute, TypeOK, Statuses, Places
  <2>3. Accounting'
    <3>1. wtask[w] \in Tasks /\ status' = [status EXCEPT ![wtask[w]] = "ran"]
      BY <1>9 DEF Execute, TypeOK, Places
    <3>2. status[wtask[w]] = "running"
      BY <1>9 DEF Execute, TypeOK, Places
    <3> QED
      BY <1>9, <3>1, <3>2, CountStep DEF Execute, Accounting, Outstanding, Statuses
  <2>4. Phases'
    BY <1>9 DEF Execute, TypeOK, Phases
  <2> QED  BY <2>1, <2>2, <2>3, <2>4
<1>10. ASSUME NEW w \in Workers, Settle(w) PROVE IInv'
  <2>0. inFlight > 0 /\ Cardinality(Outstanding') = inFlight - 1
    <3>1. wtask[w] \in Outstanding
      BY <1>10 DEF Settle, TypeOK, Places, Outstanding
    <3> QED
      BY <1>10, <3>1, CountStep DEF Settle, TypeOK, Statuses
  <2>1. TypeOK'
    BY <1>10, <2>0 DEF Settle, TypeOK, Statuses
  <2>2. Places'
    BY <1>10 DEF Settle, TypeOK, Statuses, Places
  <2>3. Accounting'
    BY <1>10, <2>0 DEF Settle, Accounting
  <2>4. Phases'
    BY <1>10, <2>0 DEF Settle, TypeOK, Phases
  <2> QED  BY <2>1, <2>2, <2>3, <2>4
<1>11. ASSUME NEW w \in Workers, CheckStop(w) PROVE IInv'
  <2>1. TypeOK'
    BY <1>11, PoolAssumption DEF CheckStop, TypeOK, Statuses
  <2>2. Places'
    BY <1>11 DEF CheckStop, TypeOK, Statuses, Places
  <2>3. Accounting'
    BY <1>11 DEF CheckStop, Accounting, Outstanding
  <2>4. Phases'
    BY <1>11 DEF CheckStop, TypeOK, Phases
  <2> QED  BY <2>1, <2>2, <2>3, <2>4
<1>12. ASSUME NEW w \in Workers, BellWait(w) PROVE IInv'
  BY <1>12, PoolAssumption DEF BellWait, TypeOK, Statuses, Places,
     Accounting, Outstanding, Phases
<1>13. ASSUME NEW w \in Workers, SpuriousWake(w) PROVE IInv'
  <2>1. TypeOK'
    BY <1>13, PoolAssumption DEF SpuriousWake, TypeOK, Statuses
  <2>2. Places'
    BY <1>13 DEF SpuriousWake, TypeOK, Statuses, Places
  <2>3. Accounting'
    BY <1>13 DEF SpuriousWake, Accounting, Outstanding
  <2>4. Phases'
    BY <1>13 DEF SpuriousWake, TypeOK, Phases
  <2> QED  BY <2>1, <2>2, <2>3, <2>4
<1>14. ASSUME DtorBegin PROVE IInv'
  BY <1>14, PoolAssumption DEF DtorBegin, TypeOK, Statuses, Places,
     Accounting, Outstanding, Phases
<1>15. ASSUME WaitIdle PROVE IInv'
  BY <1>15, PoolAssumption DEF WaitIdle, TypeOK, Statuses, Places,
     Accounting, Outstanding, Phases
<1>16. ASSUME DtorStopping PROVE IInv'
  BY <1>16, PoolAssumption DEF DtorStopping, TypeOK, Statuses, Places,
     Accounting, Outstanding, Phases
<1>17. ASSUME DtorRing PROVE IInv'
  BY <1>17, PoolAssumption DEF DtorRing, BumpSeq, TypeOK, Statuses, Places,
     Accounting, Outstanding, Phases
<1>18. ASSUME DtorNotify PROVE IInv'
  BY <1>18, PoolAssumption DEF DtorNotify, WakeAll, Asleep, TypeOK, Statuses, Places,
     Accounting, Outstanding, Phases
<1>19. ASSUME NEW w \in Workers, RequestStop(w) PROVE IInv'
  BY <1>19, PoolAssumption DEF RequestStop, TypeOK, Statuses, Places,
     Accounting, Outstanding, Phases
<1>20. ASSUME NEW w \in Workers, Join(w) PROVE IInv'
  BY <1>20, PoolAssumption DEF Join, TypeOK, Statuses, Places,
     Accounting, Outstanding, Phases
<1>21. CASE UNCHANGED vars
  BY <1>21 DEF vars, TypeOK, Places, Accounting, Outstanding, Phases
<1> QED
  BY <1>1, <1>2, <1>3, <1>4, <1>5, <1>6, <1>7, <1>8, <1>9, <1>10, <1>11,
     <1>12, <1>13, <1>14, <1>15, <1>16, <1>17, <1>18, <1>19, <1>20, <1>21
  DEF Next, Submit, Work, Destroy, Terminated

THEOREM Invariance == SafeSpec => []IInv
BY InitIInv, NextIInv, PTL DEF SafeSpec

\* Every variable stays in its range; in_flight_ never goes below zero.
THEOREM TypeCorrect == SafeSpec => []TypeOK
<1>1. IInv => TypeOK
  BY DEF IInv
<1> QED  BY <1>1, Invariance, PTL

\* When in_flight_ is zero every pushed task is executed: wait_idle() returns
\* only after all of them.
THEOREM IdleIsDone == SafeSpec => []IdleMeansDone
<1>1. IInv => IdleMeansDone
  BY NothingOutstanding DEF IInv, IdleMeansDone
<1> QED  BY <1>1, Invariance, PTL

LEMMA QueueEmptyWhenIdle == IInv /\ inFlight = 0 => tasks = <<>>
<1> SUFFICES ASSUME IInv, inFlight = 0, tasks # <<>> PROVE FALSE
  OBVIOUS
<1>1. 1 \in 1 .. Len(tasks) /\ tasks[1] \in Tasks
  BY DEF IInv, TypeOK
<1> QED
  BY <1>1, NothingOutstanding DEF IInv, Places

\* A worker leaves worker_loop() only when the destructor runs and no task is
\* left, queued or running.
THEOREM ExitIsDrained == SafeSpec => []ExitOnlyWhenDrained
<1>1. IInv => ExitOnlyWhenDrained
  <2> SUFFICES ASSUME IInv, NEW w \in Workers, wpc[w] = "exit"
               PROVE  tasks = <<>> /\ \A t \in Tasks : status[t] \notin {"queued", "running"}
    BY DEF ExitOnlyWhenDrained
  <2>1. inFlight = 0
    BY DEF IInv, Phases
  <2> QED
    BY <2>1, QueueEmptyWhenIdle, NothingOutstanding DEF IInv
<1> QED  BY <1>1, Invariance, PTL

\* A task is never in two places: no task is queued twice or run by two workers.
THEOREM SingleHolder == SafeSpec => []OneHolder
<1>1. IInv => OneHolder
  <2> SUFFICES ASSUME IInv PROVE OneHolder
    OBVIOUS
  <2>1. DOMAIN tasks = 1 .. Len(tasks)
    BY DEF IInv, TypeOK
  <2> QED
    BY <2>1 DEF IInv, Places, OneHolder
<1> QED  BY <1>1, Invariance, PTL

-----------------------------------------------------------------------------
(* No lost wake-up, as long as the 32-bit sequence number does not wrap. *)

WakeInv == Noted /\ FreshSnapshot /\ SomebodyLooks

LEMMA SeqIsRings ==
  ASSUME TypeOK, MaxRings < SeqMod
  PROVE  Seq32 = rings
<1>1. rings \in Nat /\ rings < SeqMod /\ SeqMod \in Nat
  BY PoolAssumption DEF TypeOK
<1> QED
  BY <1>1 DEF Seq32

LEMMA NextWakeInv ==
  ASSUME MaxRings < SeqMod, IInv, WakeInv, [Next]_vars
  PROVE  WakeInv'
<1> USE DEF IInv, clientVars, workerVars, ownerVars
<1>0. Seq32 = rings /\ rings \in Nat /\ \A w \in Workers : last[w] \in Nat
  BY SeqIsRings, PoolAssumption DEF TypeOK
<1>1. ASSUME NEW c \in Clients, NEW t \in Tasks, SubmitCount(c, t) PROVE WakeInv'
  BY <1>1 DEF SubmitCount, TypeOK, WakeInv, Noted, FreshSnapshot, SomebodyLooks
<1>2. ASSUME NEW c \in Clients, SubmitPush(c) PROVE WakeInv'
  BY <1>2 DEF SubmitPush, TypeOK, WakeInv, Noted, FreshSnapshot, SomebodyLooks
<1>3. ASSUME NEW c \in Clients, SubmitThrows(c) PROVE WakeInv'
  BY <1>3 DEF SubmitThrows, TypeOK, WakeInv, Noted, FreshSnapshot, SomebodyLooks
<1>4. ASSUME NEW c \in Clients, RingBump(c) PROVE WakeInv'
  BY <1>0, <1>4 DEF RingBump, BumpSeq, TypeOK, WakeInv, Noted, FreshSnapshot, SomebodyLooks
<1>5. ASSUME NEW c \in Clients, RingNotify(c) PROVE WakeInv'
  <2>1. \A d \in Clients : cpc'[d] = IF d = c THEN "idle" ELSE cpc[d]
    BY <1>5 DEF RingNotify, TypeOK
  <2>2. /\ Asleep = {} => wpc' = wpc
        /\ Asleep # {} => \E w \in Asleep : wpc' = [wpc EXCEPT ![w] = "wait"]
    BY <1>5 DEF RingNotify, WakeOne
  <2>3. \A w \in Workers : wpc'[w] = wpc[w] \/ (wpc[w] = "asleep" /\ wpc'[w] = "wait")
    <3>1. ASSUME NEW v \in Asleep, wpc' = [wpc EXCEPT ![v] = "wait"]
          PROVE  \A w \in Workers :
                    wpc'[w] = wpc[w] \/ (wpc[w] = "asleep" /\ wpc'[w] = "wait")
      BY <3>1 DEF Asleep, TypeOK
    <3> QED
      BY <2>2, <3>1
  <2>4. Noted' /\ FreshSnapshot'
    BY <1>5, <2>1, <2>3 DEF RingNotify, WakeInv, Noted, FreshSnapshot
  <2>5. SomebodyLooks'
    <3> SUFFICES ASSUME tasks # <<>>, \A d \in Clients : cpc'[d] \notin {"ring", "notify"}
                 PROVE  \E w \in Workers :
                           \/ wpc'[w] \in {"loop", "lock", "run", "settle"}
                           \/ wpc'[w] \in {"check", "wait"} /\ last[w] # rings
      BY <1>5 DEF RingNotify, SomebodyLooks
    <3>1. \A w \in Workers : wpc[w] \in {"check", "wait", "asleep"} => last[w] # rings
      BY <1>5, <2>1 DEF RingNotify, WakeInv, FreshSnapshot
    <3>2. \A w \in Workers : wpc[w] # "exit"
      BY QueueEmptyWhenIdle DEF Phases
    <3>3. CASE Asleep = {}
      <4>1. wpc' = wpc /\ \A w \in Workers : wpc[w] # "asleep"
        BY <2>2, <3>3 DEF Asleep
      <4>2. PICK w \in Workers : wpc[w] \in {"loop", "lock", "run", "settle", "check",
                                         "wait", "asleep", "exit"}
        BY PoolAssumption DEF TypeOK
      <4>3. wpc[w] \in {"loop", "lock", "run", "settle", "check", "wait"}
        BY <3>2, <4>1, <4>2
      <4> QED
        BY <3>1, <4>1, <4>3
    <3>4. CASE Asleep # {}
      <4>1. PICK w \in Asleep : wpc' = [wpc EXCEPT ![w] = "wait"]
        BY <2>2, <3>4
      <4> QED
        BY <3>1, <4>1 DEF Asleep, TypeOK
    <3> QED  BY <3>3, <3>4
  <2> QED  BY <2>4, <2>5 DEF WakeInv
<1>6. ASSUME NEW w \in Workers, LoopTest(w) PROVE WakeInv'
  <2>1. w \in stop => tasks = <<>>
    BY QueueEmptyWhenIdle DEF Phases
  <2> QED
    BY <1>6, <2>1 DEF LoopTest, TypeOK, WakeInv, Noted, FreshSnapshot, SomebodyLooks
<1>7. ASSUME NEW w \in Workers, Fetch(w) PROVE WakeInv'
  BY <1>7 DEF Fetch, TypeOK, WakeInv, Noted, FreshSnapshot, SomebodyLooks
<1>8. ASSUME NEW w \in Workers, Snapshot(w) PROVE WakeInv'
  BY <1>0, <1>8 DEF Snapshot, TypeOK, WakeInv, Noted, FreshSnapshot, SomebodyLooks
<1>9. ASSUME NEW w \in Workers, Execute(w) PROVE WakeInv'
  BY <1>9 DEF Execute, TypeOK, WakeInv, Noted, FreshSnapshot, SomebodyLooks
<1>10. ASSUME NEW w \in Workers, Settle(w) PROVE WakeInv'
  BY <1>10 DEF Settle, TypeOK, WakeInv, Noted, FreshSnapshot, SomebodyLooks
<1>11. ASSUME NEW w \in Workers, CheckStop(w) PROVE WakeInv'
  <2>1. w \in stop \/ stopping => tasks = <<>>
    BY QueueEmptyWhenIdle DEF Phases
  <2> QED
    BY <1>11, <2>1 DEF CheckStop, TypeOK, WakeInv, Noted, FreshSnapshot, SomebodyLooks
<1>12. ASSUME NEW w \in Workers, BellWait(w) PROVE WakeInv'
  BY <1>0, <1>12 DEF BellWait, TypeOK, WakeInv, Noted, FreshSnapshot, SomebodyLooks
<1>13. ASSUME NEW w \in Workers, SpuriousWake(w) PROVE WakeInv'
  BY <1>13 DEF SpuriousWake, TypeOK, WakeInv, Noted, FreshSnapshot, SomebodyLooks
<1>14. CASE DtorBegin \/ WaitIdle \/ DtorStopping
  BY <1>14 DEF DtorBegin, WaitIdle, DtorStopping, WakeInv, Noted, FreshSnapshot, SomebodyLooks
<1>15. CASE DtorRing \/ DtorNotify
  <2>1. tasks = <<>>
    BY <1>15, QueueEmptyWhenIdle DEF DtorRing, DtorNotify, Phases
  <2> QED
    BY <1>0, <1>15, <2>1
    DEF DtorRing, BumpSeq, DtorNotify, WakeInv, Noted, FreshSnapshot, SomebodyLooks
<1>16. ASSUME NEW w \in Workers, RequestStop(w) \/ Join(w) PROVE WakeInv'
  BY <1>16 DEF RequestStop, Join, WakeInv, Noted, FreshSnapshot, SomebodyLooks
<1>17. CASE UNCHANGED vars
  BY <1>17 DEF vars, WakeInv, Noted, FreshSnapshot, SomebodyLooks
<1> QED
  BY <1>1, <1>2, <1>3, <1>4, <1>5, <1>6, <1>7, <1>8, <1>9, <1>10, <1>11,
     <1>12, <1>13, <1>14, <1>15, <1>16, <1>17
  DEF Next, Submit, Work, Destroy, Terminated

\* As long as the bell is rung fewer than 2^32 times, a queued task always has
\* a submit() that will still wake somebody or a worker that will still look.
THEOREM WakeupIsNeverLost ==
  ASSUME MaxRings < SeqMod
  PROVE  SafeSpec => []NoLostWakeup
<1>1. Init => WakeInv
  BY DEF Init, WakeInv, Noted, FreshSnapshot, SomebodyLooks
<1>2. IInv /\ WakeInv /\ [Next]_vars => WakeInv'
  BY NextWakeInv
<1>3. IInv /\ WakeInv => NoLostWakeup
  BY SeqIsRings DEF IInv, WakeInv, SomebodyLooks, NoLostWakeup, Attentive
<1> QED
  BY <1>1, <1>2, <1>3, Invariance, PTL DEF SafeSpec

-----------------------------------------------------------------------------
(* The pool implements the executor. *)

LEMMA PhaseStep ==
  ASSUME TypeOK, NEW t \in Tasks, NEW s \in Statuses,
         status' = [status EXCEPT ![t] = s]
  PROVE  ExecPhase' = [ExecPhase EXCEPT ![t] = PhaseOf(s)]
<1>1. \A u \in Tasks : PhaseOf(status[u])' = IF u = t THEN PhaseOf(s) ELSE PhaseOf(status[u])
  BY DEF TypeOK, PhaseOf
<1> QED
  BY <1>1 DEF ExecPhase

LEMMA SamePhase ==
  ASSUME TypeOK, NEW t \in Tasks, NEW s \in Statuses,
         status' = [status EXCEPT ![t] = s], PhaseOf(s) = PhaseOf(status[t])
  PROVE  ExecPhase' = ExecPhase
<1>1. \A u \in Tasks : PhaseOf(status[u])' = PhaseOf(status[u])
  BY DEF TypeOK, PhaseOf
<1> QED
  BY <1>1 DEF ExecPhase

LEMMA NextSimulates ==
  ASSUME IInv, [Next]_vars
  PROVE  [Exec!ExecNext]_Exec!execVars
<1> USE DEF IInv, clientVars, workerVars, ownerVars, Exec!execVars
<1>1. ASSUME NEW c \in Clients, NEW t \in Tasks, SubmitCount(c, t)
      PROVE  UNCHANGED <<ExecPhase, ExecClosed>>
  BY <1>1, SamePhase DEF SubmitCount, PhaseOf, Statuses, ExecClosed
<1>2. ASSUME NEW c \in Clients, SubmitPush(c) PROVE Exec!Accept(ctask[c])
  <2>1. /\ ctask[c] \in Tasks
        /\ status[ctask[c]] = "counted"
        /\ status' = [status EXCEPT ![ctask[c]] = "queued"]
        /\ dpc = "alive" /\ dpc' = "alive"
    BY <1>2 DEF SubmitPush, TypeOK, Places, Phases
  <2>2. ExecPhase' = [ExecPhase EXCEPT ![ctask[c]] = "accepted"]
    BY <2>1, PhaseStep DEF PhaseOf, Statuses
  <2> QED
    BY <2>1, <2>2 DEF Exec!Accept, ExecPhase, PhaseOf, ExecClosed
<1>3. ASSUME NEW c \in Clients, SubmitThrows(c)
      PROVE  UNCHANGED <<ExecPhase, ExecClosed>>
  <2>1. ctask[c] \in Tasks /\ status[ctask[c]] = "counted"
    BY <1>3 DEF SubmitThrows, TypeOK, Places
  <2> QED
    BY <1>3, <2>1, SamePhase DEF SubmitThrows, PhaseOf, Statuses, ExecClosed
<1>4. ASSUME NEW w \in Workers, Fetch(w) PROVE UNCHANGED <<ExecPhase, ExecClosed>>
  <2>1. Head(tasks) \in Tasks /\ status[Head(tasks)] = "queued"
    BY <1>4 DEF Fetch, TypeOK, Places
  <2> QED
    BY <1>4, <2>1, SamePhase DEF Fetch, PhaseOf, Statuses, ExecClosed
<1>5. ASSUME NEW w \in Workers, Execute(w) PROVE Exec!Finish(wtask[w])
  <2>1. /\ wtask[w] \in Tasks
        /\ status[wtask[w]] = "running"
        /\ status' = [status EXCEPT ![wtask[w]] = "ran"]
        /\ dpc' = dpc
    BY <1>5 DEF Execute, TypeOK, Places
  <2>2. dpc \in {"alive", "draining"}
    BY <2>1, NothingOutstanding DEF Phases
  <2>3. ExecPhase' = [ExecPhase EXCEPT ![wtask[w]] = "done"]
    BY <2>1, PhaseStep DEF PhaseOf, Statuses
  <2> QED
    BY <2>1, <2>2, <2>3 DEF Exec!Finish, ExecPhase, PhaseOf, ExecClosed
<1>6. ASSUME NEW w \in Workers, Settle(w) PROVE UNCHANGED <<ExecPhase, ExecClosed>>
  <2>1. wtask[w] \in Tasks /\ status[wtask[w]] = "ran"
    BY <1>6 DEF Settle, TypeOK, Places
  <2> QED
    BY <1>6, <2>1, SamePhase DEF Settle, PhaseOf, Statuses, ExecClosed
<1>7. ASSUME WaitIdle PROVE Exec!Close
  <2>1. \A t \in Tasks : ExecPhase[t] # "accepted"
    BY <1>7, NothingOutstanding DEF WaitIdle, ExecPhase, PhaseOf
  <2> QED
    BY <1>7, <2>1 DEF WaitIdle, Exec!Close, ExecPhase, ExecClosed
<1>8. ASSUME UNCHANGED <<status, dpc>> PROVE UNCHANGED <<ExecPhase, ExecClosed>>
  BY <1>8 DEF ExecPhase, ExecClosed
<1>9. ASSUME NEW c \in Clients, RingBump(c) \/ RingNotify(c) PROVE UNCHANGED <<status, dpc>>
  BY <1>9 DEF RingBump, RingNotify
<1>10. ASSUME NEW w \in Workers,
              \/ LoopTest(w) \/ Snapshot(w) \/ CheckStop(w) \/ BellWait(w)
              \/ SpuriousWake(w) \/ RequestStop(w)
       PROVE  UNCHANGED <<status, dpc>>
  BY <1>10 DEF LoopTest, Snapshot, CheckStop, BellWait, SpuriousWake, RequestStop
<1>11. ASSUME \/ DtorBegin \/ DtorStopping \/ DtorRing \/ DtorNotify
              \/ \E w \in Workers : Join(w)
       PROVE  UNCHANGED <<ExecPhase, ExecClosed>>
  BY <1>11 DEF DtorBegin, DtorStopping, DtorRing, DtorNotify, Join, ExecPhase, ExecClosed
<1>12. ASSUME UNCHANGED vars PROVE UNCHANGED <<ExecPhase, ExecClosed>>
  BY <1>8, <1>12 DEF vars
<1>13. ASSUME NEW c \in Clients, SubmitPush(c) PROVE Exec!ExecNext
  <2>1. ctask[c] \in Tasks
    BY DEF TypeOK
  <2> QED
    BY <1>2, <1>13, <2>1 DEF Exec!ExecNext
<1>14. ASSUME NEW w \in Workers, Execute(w) PROVE Exec!ExecNext
  <2>1. wtask[w] \in Tasks
    BY DEF TypeOK
  <2> QED
    BY <1>5, <1>14, <2>1 DEF Exec!ExecNext
<1>15. ASSUME WaitIdle PROVE Exec!ExecNext
  BY <1>7, <1>15 DEF Exec!ExecNext
<1> HIDE DEF IInv
<1>16. CASE \E c \in Clients : Submit(c) \/ \E t \in Tasks : SubmitCount(c, t)
  BY <1>1, <1>3, <1>8, <1>9, <1>13, <1>16 DEF Submit
<1>17. CASE \E w \in Workers : Work(w) \/ SpuriousWake(w)
  BY <1>4, <1>6, <1>8, <1>10, <1>14, <1>17 DEF Work
<1>18. CASE DtorBegin \/ Destroy
  BY <1>8, <1>10, <1>11, <1>15, <1>18 DEF Destroy
<1>19. CASE Terminated \/ UNCHANGED vars
  BY <1>12, <1>19 DEF Terminated
<1> QED
  BY <1>16, <1>17, <1>18, <1>19 DEF Next

\* The safety half of ImplementsExecutor: every step of the pool is a step of
\* the executor or a stutter, so a task is executed once and only after it was
\* accepted, and the pool closes with nothing accepted left over.
THEOREM PoolIsExecutor == SafeSpec => Exec!ExecSafeSpec
<1>1. Init => Exec!ExecInit
  BY DEF Init, Exec!ExecInit, ExecPhase, PhaseOf, ExecClosed
<1>2. IInv /\ [Next]_vars => [Exec!ExecNext]_Exec!execVars
  BY NextSimulates
<1> QED
  BY <1>1, <1>2, Invariance, PTL DEF SafeSpec, Exec!ExecSafeSpec

=============================================================================
