------------------------------ MODULE Handles ------------------------------
(***************************************************************************)
(* Wrapped HDF5 ids in the H5CPP_MULTITHREAD build, used by several        *)
(* threads: the reference counts that the copies, moves and destructors of *)
(* h5::impl::detail::hid_t keep (src/h5cpp/H5Iall.hpp, H5io_registry.hpp), *)
(* the temporaries of property expressions (H5Pall.hpp), the pipeline that *)
(* h5::flag::high_throughput hangs on a data access list (H5Pdapl.hpp),    *)
(* and the calls that open datasets against such a list (H5Dopen.hpp,      *)
(* H5Dwrite.hpp, H5Dread.hpp), all under the lock of CapiLock.             *)
(*                                                                         *)
(* An operation is the sequence of its steps: locks, calls of the C        *)
(* library, and assignments to wrappers.  todo[t] is what thread t has     *)
(* still to do; an exception leaves the steps and goes on with what        *)
(* unwinding does.  A call has a beginning and an end, and the library     *)
(* stops being defined once two threads are inside it: no step follows.    *)
(*                                                                         *)
(* Property lists keep the classic wrapper (conversion on), datasets have  *)
(* the hardened one (conversion off).                                      *)
(***************************************************************************)
EXTENDS CapiLock, FiniteSets

CONSTANTS
    Lists,       \* names of the h5::dapl_t variables of a thread
    Datasets,    \* names of its h5::ds_t variables
    Given,       \* the variables that hold something at the start
    Calls,       \* the operations the program uses
    MaxIds,      \* bound: ids open at a time
    MaxCalls,    \* bound: operations of all threads together
    MaxFaults    \* bound: library calls that fail

ASSUME HandlesAssumption ==
    /\ IsFiniteSet(Threads) /\ IsFiniteSet(Lists) /\ IsFiniteSet(Datasets)
    /\ MaxIds \in Nat \ {0, 1} /\ MaxCalls \in Nat /\ MaxFaults \in Nat
    /\ {"temp", "raw", "list", "dataset"} \cap (Lists \cup Datasets) = {}

\* HDF5 never hands an id out twice; the model does once nobody knows it.
Ids == 1 .. MaxIds
None == 0    \* H5I_UNINIT; also "no pipeline"

\* Where an id can be: a variable of a thread, the temporary of a property
\* expression and a raw hid_t of the operation in progress, and the list and
\* the dataset that the threads share by const reference.
SharedList == <<NoThread, "list">>
SharedDataset == <<NoThread, "dataset">>
Shared == {SharedList, SharedDataset}
Variables == Threads \X (Lists \cup Datasets)
Places == Variables \cup (Threads \X {"temp", "raw"}) \cup Shared
Temp(t) == <<t, "temp">>
Raw(t) == <<t, "raw">>
ListsOf(t) == {t} \X Lists
DatasetsOf(t) == {t} \X Datasets

VARIABLES
    held,       \* handle: the id at a place
    refs,       \* HDF5's reference count of an id, 0 when it is not open
    pipe,       \* the pipeline of the list behind an id (a dataset has a list of its own)
    pipelines,  \* the pipelines allocated
    orphans,    \* those of them that no list has been given
    strays,     \* the references of an id that nobody is going to release
    todo,       \* by thread: the steps to do, and what an exception does instead
    calls, faults

library == <<refs, pipe, pipelines, orphans>>
vars == <<lockVars, held, library, strays, todo, calls, faults>>

(***************************************************************************)
(* Steps                                                                   *)
(***************************************************************************)
Locking == [do |-> "lock"]
Unlocking == [do |-> "unlock"]
Taking(p, q) == [do |-> "take", at |-> p, from |-> q]       \* p.handle = q.handle
Dropping(p) == [do |-> "drop", at |-> p]                    \* p.handle = H5I_UNINIT, or p is gone
Abandoning(p, n) == [do |-> "abandon", at |-> p, count |-> n]   \* a raw hid_t is forgotten with n references

Empty(p) == held[p] = None
HasPipeline(q) == ~Empty(q) /\ pipe[held[q]] # None   \* H5Pexist

\* Calls of the library, all with the same fields.  Only those that are
\* checked end in an exception.
Call(name, p, q, checked) == [do |-> name, at |-> p, from |-> q, checked |-> checked]
Closing(p) == Call("close", p, p, FALSE)            \* if valid, H5?close
Retaining(p) == Call("retain", p, p, FALSE)         \* if valid, H5Iinc_ref
Creating(p) == Call("create", p, p, TRUE)           \* H5Pcreate
Typing(p) == Call("create", p, p, FALSE)            \* H5Tcopy
Setting(p) == Call("set", p, p, TRUE)               \* dapl_pipeline_set
Copying(p, q) == Call("derive", p, q, TRUE)         \* H5Pcopy
Opening(p, q) == Call("derive", p, q, TRUE)         \* H5Dopen2: the dataset keeps a copy of the list
Getting(p, q) == Call("derive", p, q, FALSE)        \* H5Dget_access_plist
Describing(q) == Call("describe", q, q, FALSE)      \* H5Dget_create_plist, H5Dget_type, H5Tcopy
Caching(q) == Call("transfer", q, q, HasPipeline(q))   \* set_cache, if the list has a pipeline
Transferring(p) == Call("transfer", p, p, TRUE)     \* H5Dwrite_chunk, H5Dread_chunk
IsCall(s) == s.do \in {"close", "retain", "create", "set", "derive", "describe", "transfer"}

UnderLock(steps) == <<Locking>> \o steps \o <<Unlocking>>

(***************************************************************************)
(* Operations of the wrappers                                              *)
(***************************************************************************)
IsList(p) == p[2] \in Lists \cup {"temp", "list"}

\* close_() of the hardened wrapper; the classic one looks under the lock.
Close(p) ==
    IF IsList(p) \/ held[p] # None THEN UnderLock(<<Closing(p)>>) ELSE <<>>

CopyConstruct(p, q) == <<Taking(p, q)>> \o UnderLock(<<Retaining(p)>>)

\* Fault: the id held before is not closed.
CopyAssignKeeps(p, q) == <<Taking(p, q)>> \o UnderLock(<<Retaining(p)>>)

CopyAssign(p, q) ==
    IF IsList(p)
    THEN UnderLock(<<Closing(p), Taking(p, q), Retaining(p)>>)
    ELSE Close(p) \o <<Taking(p, q)>> \o UnderLock(<<Retaining(p)>>)

MoveConstruct(p, q) == <<Taking(p, q), Dropping(q)>>

\* Fault: the source keeps its id.
MoveAssignShares(p, q) == Close(p) \o <<Taking(p, q)>>

MoveAssign(p, q) ==
    IF IsList(p)
    THEN UnderLock(<<Closing(p), Taking(p, q), Dropping(q)>>)
    ELSE Close(p) \o <<Taking(p, q), Dropping(q)>>

Destroy(p) == Close(p) \o <<Dropping(p)>>

(***************************************************************************)
(* Property expressions                                                    *)
(***************************************************************************)
PropertyCtor(t) == UnderLock(<<Creating(Temp(t))>>)
PropertyDtor(t) == UnderLock(<<Closing(Temp(t))>>) \o <<Dropping(Temp(t))>>
CopyImpl(p) == UnderLock(<<Setting(p)>>)

\* h5::dapl_t p = h5::flag::high_throughput{};
Convert(t, p) ==
    PropertyCtor(t)
        \o UnderLock(CopyImpl(Temp(t)) \o <<Retaining(Temp(t)), Taking(p, Temp(t))>>)
        \o PropertyDtor(t)

\* h5::dapl_t p = h5::flag::high_throughput{} | q;
Chain(t, p, q) ==
    PropertyCtor(t)
        \o UnderLock(<<Copying(Raw(t), q)>> \o CopyImpl(Raw(t))
                        \o <<Taking(p, Raw(t)), Dropping(Raw(t))>>)
        \o PropertyDtor(t)

\* h5::fill_value<T>{v}: dt_t<T>() wraps a copy of the type and counts it
\* again, h5::copy counts it a third time, and ~tprop_t closes it, these
\* three without a lock; ~dt_t closes it too, and one reference is left.
FillValue(t) ==
    <<Typing(Raw(t))>> \o UnderLock(<<Retaining(Raw(t))>>) \o <<Retaining(Raw(t))>>
        \o PropertyCtor(t) \o UnderLock(<<Closing(Raw(t))>>)
        \o <<Closing(Raw(t)), Abandoning(Raw(t), 1)>> \o PropertyDtor(t)

(***************************************************************************)
(* Operations on datasets                                                  *)
(***************************************************************************)
\* h5::open(fd, path, q): no lock of its own.
Open(t, p, q) ==
    <<Opening(Raw(t), q), Describing(q), Caching(q), Taking(p, Raw(t)), Dropping(Raw(t))>>

\* resolved_type_t of the elements: for a registered compound it has a dt_t<T>,
\* which leaves a reference to its copy of the type open, as in FillValue.
Resolutions(p) == {<<>>, <<Describing(p)>>}

\* h5::write(fd, path, ..., q) to a dataset that exists: on_collector around
\* the whole gateway.  The copy of the dataset that is passed on is balanced.
Write(t, p, q, resolved) ==
    UnderLock(Open(t, p, q)
        \o <<Getting(Raw(t), p), Closing(Raw(t)), Dropping(Raw(t))>>
        \o resolved \o <<Transferring(p)>>)

\* h5::read(fd, path, q): the same, and the dataset is a local variable.
Read(t, p, q, resolved) ==
    UnderLock(Open(t, p, q)
        \o resolved
        \o <<Getting(Raw(t), p), Closing(Raw(t)), Dropping(Raw(t)), Transferring(p)>>
        \o UnderLock(<<Closing(p)>>) \o <<Dropping(p)>>)

(***************************************************************************)
(* Operations begin                                                        *)
(***************************************************************************)
Nothing == [steps |-> <<>>, within |-> <<>>, after |-> <<>>]

Idle(t) == todo[t] = Nothing

\* Two threads inside the library: nothing is known of what follows.
Undefined == \E t, u \in inside : t # u

\* Thread t is about to do the steps; an exception does "within" before the
\* locks alive are released, and "after" behind that.
Guarded(t, name, steps, within, after) ==
    /\ name \in Calls /\ calls < MaxCalls /\ Idle(t) /\ ~Undefined
    /\ calls' = calls + 1
    /\ todo' = [todo EXCEPT ![t] = [steps |-> steps, within |-> within, after |-> after]]
    /\ UNCHANGED <<lockVars, held, library, strays, faults>>

Begin(t, name, steps) == Guarded(t, name, steps, <<>>, <<>>)

\* The variables of the thread of p of the same type, which it can copy or
\* move from; the shared ones it can only copy.
Own(p) == IF IsList(p) THEN ListsOf(p[1]) ELSE DatasetsOf(p[1])
Sources(p) == (Own(p) \cup {q \in Shared : IsList(q) <=> IsList(p)}) \ {p}
VariablesOf(t) == ListsOf(t) \cup DatasetsOf(t)

CopyCtor(t) ==
    \E p \in VariablesOf(t) : \E q \in Sources(p) :
        Empty(p) /\ Begin(t, "copy", CopyConstruct(p, q))

CopyAssignment(t) ==
    \E p \in VariablesOf(t) : \E q \in Sources(p) :
        Begin(t, "assign", CopyAssign(p, q))

MoveCtor(t) ==
    \E p \in VariablesOf(t) : \E q \in Own(p) \ {p} :
        Empty(p) /\ Begin(t, "move", MoveConstruct(p, q))

MoveAssignment(t) ==
    \E p \in VariablesOf(t) : \E q \in Own(p) \ {p} :
        Begin(t, "assign", MoveAssign(p, q))

Dtor(t) == \E p \in VariablesOf(t) : Begin(t, "destroy", Destroy(p))

ConvertProperty(t) ==
    \E p \in ListsOf(t) :
        Empty(p) /\ Guarded(t, "property", Convert(t, p), <<>>, PropertyDtor(t))

\* When copy_impl throws, nobody closes the copy of the list.
ChainProperty(t) ==
    \E p \in ListsOf(t) :
        /\ Empty(p)
        /\ Guarded(t, "property", Chain(t, p, SharedList),
                   <<>>, PropertyDtor(t) \o <<Abandoning(Raw(t), 1)>>)

FillProperty(t) ==
    Guarded(t, "fill value", FillValue(t),
            <<>>, PropertyDtor(t) \o UnderLock(<<Closing(Raw(t))>>) \o <<Abandoning(Raw(t), 2)>>)

OpenDataset(t) ==
    \E p \in DatasetsOf(t) : \E q \in ListsOf(t) \cup {SharedList} :
        /\ Empty(p) /\ ~Empty(q)
        /\ Guarded(t, "open", Open(t, p, q), <<>>, <<Abandoning(Raw(t), 1)>>)

\* The dataset is a local variable of the gateway until it is returned.
Gateway(t) ==
    \E p \in DatasetsOf(t) : \E q \in ListsOf(t) \cup {SharedList} :
        /\ Empty(p) /\ ~Empty(q)
        /\ \E resolved \in Resolutions(p) :
           \E steps \in {Write(t, p, q, resolved), Read(t, p, q, resolved)} :
              Guarded(t, "gateway", steps,
                      UnderLock(<<Closing(p)>>) \o <<Dropping(p)>>, <<Abandoning(Raw(t), 1)>>)

(***************************************************************************)
(* Steps are done                                                          *)
(***************************************************************************)
Step(t) == Head(todo[t].steps)

\* The last step of an operation leaves nothing behind.
Advance(t) ==
    todo' = [todo EXCEPT ![t] =
        IF Len(@.steps) = 1 THEN Nothing ELSE [@ EXCEPT !.steps = Tail(todo[t].steps)]]

Busy(t) == ~Idle(t) /\ ~Undefined
Ready(t, kind) == Busy(t) /\ Step(t).do = kind

LockStep(t) ==
    /\ Ready(t, "lock") /\ Lock(t) /\ Advance(t)
    /\ UNCHANGED <<held, library, strays, calls, faults>>

UnlockStep(t) ==
    /\ Ready(t, "unlock") /\ Unlock(t) /\ Advance(t)
    /\ UNCHANGED <<held, library, strays, calls, faults>>

Take(t) ==
    /\ Ready(t, "take") /\ Advance(t)
    /\ held' = [held EXCEPT ![Step(t).at] = held[Step(t).from]]
    /\ UNCHANGED <<lockVars, library, strays, calls, faults>>

Drop(t) ==
    /\ Ready(t, "drop") /\ Advance(t)
    /\ held' = [held EXCEPT ![Step(t).at] = None]
    /\ UNCHANGED <<lockVars, library, strays, calls, faults>>

Abandon(t) ==
    /\ Ready(t, "abandon") /\ Advance(t)
    /\ strays' = [i \in Ids |-> strays[i] + (IF i = held[Step(t).at] THEN Step(t).count ELSE 0)]
    /\ held' = [held EXCEPT ![Step(t).at] = None]
    /\ UNCHANGED <<lockVars, library, calls, faults>>

EnterLibrary(t) ==
    /\ Busy(t) /\ IsCall(Step(t)) /\ Enter(t)
    /\ UNCHANGED <<held, library, strays, todo, calls, faults>>

(***************************************************************************)
(* The library: what a call has done when it returns                       *)
(***************************************************************************)
IsOpen(i) == i \in Ids /\ refs[i] > 0

Unknown == {i \in Ids : refs[i] = 0 /\ \A p \in Places : held[p] # i}
Fresh == CHOOSE i \in Unknown : TRUE

\* operator new: a pipeline that does not exist.
Unused == Ids \ pipelines
NewPipeline == CHOOSE x \in Unused : TRUE

\* Fault: no callback, the pointer is copied.
CopyCallbackShares(x) == x

\* dapl_pipeline_copy: the copy of a list has a pipeline of its own.
CopyCallback(x) == NewPipeline

Returns(t) == Leave(t) /\ Advance(t) /\ UNCHANGED <<calls, faults>>

ReturnClose(t) ==
    LET i == held[Step(t).at]
        last == IsOpen(i) /\ refs[i] = 1
    IN
    /\ Ready(t, "close") /\ Returns(t)
    /\ refs' = IF IsOpen(i) THEN [refs EXCEPT ![i] = @ - 1] ELSE refs
    \* dapl_pipeline_close
    /\ pipelines' = IF last THEN pipelines \ {pipe[i]} ELSE pipelines
    /\ pipe' = IF last THEN [pipe EXCEPT ![i] = None] ELSE pipe
    /\ UNCHANGED <<held, orphans, strays>>

ReturnRetain(t) ==
    LET i == held[Step(t).at] IN
    /\ Ready(t, "retain") /\ Returns(t)
    /\ refs' = IF IsOpen(i) THEN [refs EXCEPT ![i] = @ + 1] ELSE refs
    /\ UNCHANGED <<held, pipe, pipelines, orphans, strays>>

ReturnCreate(t) ==
    /\ Ready(t, "create") /\ Unknown # {} /\ Returns(t)
    /\ held' = [held EXCEPT ![Step(t).at] = Fresh]
    /\ refs' = [refs EXCEPT ![Fresh] = 1]
    /\ UNCHANGED <<pipe, pipelines, orphans, strays>>

\* dapl_pipeline_set ignores a list that has a pipeline.
ReturnSet(t) ==
    LET i == held[Step(t).at]
        absent == IsOpen(i) /\ pipe[i] = None
    IN
    /\ Ready(t, "set") /\ Unused # {} /\ Returns(t)
    /\ pipe' = IF absent THEN [pipe EXCEPT ![i] = NewPipeline] ELSE pipe
    /\ pipelines' = IF absent THEN pipelines \cup {NewPipeline} ELSE pipelines
    /\ UNCHANGED <<held, refs, orphans, strays>>

\* A new id whose list is a copy of the one behind "from".
ReturnDerive(t) ==
    LET source == held[Step(t).from]
        copied == IF pipe[source] = None THEN None ELSE CopyCallback(pipe[source])
    IN
    /\ Ready(t, "derive") /\ IsOpen(source) /\ Unknown # {} /\ Unused # {} /\ Returns(t)
    /\ held' = [held EXCEPT ![Step(t).at] = Fresh]
    /\ refs' = [refs EXCEPT ![Fresh] = 1]
    /\ pipe' = [pipe EXCEPT ![Fresh] = copied]
    /\ pipelines' = pipelines \cup ({copied} \ {None})
    /\ UNCHANGED <<orphans, strays>>

\* h5::open leaves the creation list it looked at open, and the type when the
\* list has a pipeline: the two ids are taken as one.  A copied type is another.
ReturnDescribe(t) ==
    /\ Ready(t, "describe") /\ Unknown # {} /\ Returns(t)
    /\ refs' = [refs EXCEPT ![Fresh] = 1]
    /\ strays' = [strays EXCEPT ![Fresh] = 1]
    /\ UNCHANGED <<held, pipe, pipelines, orphans>>

ReturnTransfer(t) ==
    /\ Ready(t, "transfer") /\ Returns(t)
    /\ UNCHANGED <<held, library, strays>>

Releases(t) == [k \in 1 .. Len(tops[t]) |-> Unlocking]

\* The exception leaves the operation.
Throw(t) ==
    LET rest == todo[t].within \o Releases(t) \o todo[t].after IN
    todo' = [todo EXCEPT ![t] = IF rest = <<>> THEN Nothing ELSE [Nothing EXCEPT !.steps = rest]]

\* A pipeline is allocated that the list never gets: nobody deletes it.
Orphan ==
    /\ Unused # {}
    /\ pipelines' = pipelines \cup {NewPipeline}
    /\ orphans' = orphans \cup {NewPipeline}
    /\ UNCHANGED <<refs, pipe>>

\* dapl_pipeline_set fails: an H5Pexist that does passes for a pipeline that is
\* there, and for a list without one operator new or H5Pinsert2 may fail.
SetFails(t) ==
    \/ Advance(t) /\ UNCHANGED library
    \/ /\ ~HasPipeline(Step(t).at)
       /\ Throw(t)
       /\ UNCHANGED library \/ Orphan

\* A checked call fails and ends in an exception; one that is not checked
\* delivers an id that is none.
CallFails(t) ==
    /\ Busy(t) /\ Leave(t) /\ IsCall(Step(t)) /\ faults < MaxFaults
    /\ faults' = faults + 1
    /\ \/ Step(t).do = "set" /\ SetFails(t)
       \/ Step(t).do # "set" /\ Step(t).checked /\ Throw(t) /\ UNCHANGED library
       \/ /\ ~Step(t).checked /\ Step(t).do \in {"derive", "create"}
          /\ Advance(t) /\ UNCHANGED library
    /\ UNCHANGED <<held, strays, calls>>

(***************************************************************************)
(* Specification                                                           *)
(***************************************************************************)
\* The shared list has id 1 and the dataset id 2, each with a pipeline, or
\* neither; the variables in Given are copies of them.
Init ==
    /\ LockInit
    /\ held = [p \in Places |->
        IF p = SharedList \/ p[2] \in Given \cap Lists THEN 1
        ELSE IF p = SharedDataset \/ p[2] \in Given \cap Datasets THEN 2
        ELSE None]
    /\ refs = [i \in Ids |-> Cardinality({p \in Places : held[p] = i})]
    /\ \E piped \in {{}, {1, 2}} :
        pipelines = piped /\ pipe = [i \in Ids |-> IF i \in piped THEN i ELSE None]
    /\ orphans = {}
    /\ strays = [i \in Ids |-> 0]
    /\ todo = [t \in Threads |-> Nothing]
    /\ calls = 0 /\ faults = 0

BeginOperation(t) ==
    \/ CopyCtor(t) \/ CopyAssignment(t) \/ MoveCtor(t) \/ MoveAssignment(t) \/ Dtor(t)
    \/ ConvertProperty(t) \/ ChainProperty(t) \/ FillProperty(t)
    \/ OpenDataset(t) \/ Gateway(t)

DoStep(t) ==
    \/ LockStep(t) \/ UnlockStep(t) \/ Take(t) \/ Drop(t) \/ Abandon(t) \/ EnterLibrary(t)
    \/ ReturnClose(t) \/ ReturnRetain(t) \/ ReturnCreate(t) \/ ReturnSet(t)
    \/ ReturnDerive(t) \/ ReturnDescribe(t) \/ ReturnTransfer(t) \/ CallFails(t)

Next == \E t \in Threads : BeginOperation(t) \/ DoStep(t)

\* A thread that has begun an operation is scheduled until it is done.
Spec == Init /\ [][Next]_vars /\ \A t \in Threads : WF_vars(DoStep(t))

(***************************************************************************)
(* Properties                                                              *)
(***************************************************************************)
\* The deepest nesting of locks: the read gateway destroys its dataset, a
\* conversion calls copy_impl.
MaxDepth == 2

TypeOK ==
    /\ LockTypeOK
    /\ depth \in [Threads -> 0 .. MaxDepth]
    /\ held \in [Places -> Ids \cup {None}]
    /\ refs \in [Ids -> Nat]
    /\ pipe \in [Ids -> Ids \cup {None}]
    /\ pipelines \subseteq Ids /\ orphans \subseteq Ids
    /\ strays \in [Ids -> Nat]
    /\ \A t \in Threads : Idle(t) => depth[t] = 0 /\ tops[t] = <<>> /\ Empty(Temp(t)) /\ Empty(Raw(t))
    /\ calls \in 0 .. MaxCalls /\ faults \in 0 .. MaxFaults

\* The variables that are not in the hands of an operation.
Settled == Shared \cup {p \in Variables : Idle(p[1])}
Holders(i) == {p \in Settled : held[p] = i}

\* Whatever the other threads copy, assign or destroy meanwhile, an id that
\* variables hold has at least as many references: none of them can be closed
\* under its holder (~hid_t, src/h5cpp/H5Iall.hpp:143-148).
HeldIsOpen == \A i \in Ids : refs[i] >= Cardinality(Holders(i)) + strays[i]

\* When no operation is in progress, an exception behind it or not, every
\* reference belongs to a variable or to an id that is known to be left open.
NothingLeaks ==
    (\A t \in Threads : Idle(t)) =>
        \A i \in Ids : refs[i] = Cardinality(Holders(i)) + strays[i]

\* Every list that is open has a pipeline of its own or none, and a pipeline
\* goes with its list: it is deleted once (issue #242,
\* src/h5cpp/H5Pdapl.hpp:19-30).  What is left over are the pipelines whose
\* insertion failed (src/h5cpp/H5Pdapl.hpp:41-42), and no list has one of them.
PipelinesOwned ==
    /\ \A i \in Ids : pipe[i] # None => refs[i] > 0 /\ pipe[i] \notin orphans
    /\ \A i, k \in Ids : pipe[i] # None /\ pipe[i] = pipe[k] => i = k
    /\ pipelines = ({pipe[i] : i \in Ids} \ {None}) \cup orphans

\* Every operation ends, an exception behind it or not: nobody waits for a
\* mutex that is never released.
OperationsEnd ==
    \A t \in Threads : ~Idle(t) ~> Idle(t) \/ Undefined

=============================================================================
