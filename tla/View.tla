-------------------------------- MODULE View --------------------------------
(***************************************************************************)
(* h5::view of H5Dranges.hpp: iterators over a rank-1 chunked dataset that *)
(* DirectChunk has written.  An iterator is an offset and a pipeline whose *)
(* chunk0 holds the chunk it is in; copies of an iterator share the        *)
(* pipeline, so that one of them moving into the next chunk changes what   *)
(* the others refer to.                                                    *)
(*                                                                         *)
(* The program that iterates keeps the rules of an input iterator: once an *)
(* iterator has moved, its copies are not used again, except that the      *)
(* result of it++ may be dereferenced.                                     *)
(***************************************************************************)
EXTENDS DirectChunk

CONSTANT Iterators

VARIABLES
    offset,   \* offset[i]: offset_
    use       \* use[i]: none, full, or deref for the result of it++

viewVars == <<vars, offset, use>>

Total == case.extent[1]
ChunkSize == case.b[1]

ViewTypeOK ==
    /\ TypeOK
    /\ offset \in [Iterators -> Nat] /\ use \in [Iterators -> {"none", "full", "deref"}]
    /\ \A i \in Iterators : offset[i] <= Total \/ use[i] = "none"

ViewInit ==
    /\ Init
    /\ offset = [i \in Iterators |-> 0]
    /\ use = [i \in Iterators |-> "none"]

\* load_chunk: read_chunk of the chunk the offset is in.
LoadChunk(o) ==
    LET j == <<(o \div ChunkSize) * ChunkSize, 0, 0>> IN
    \/ /\ Exists(j)
       /\ chunk0' = Fetch(j).src /\ chunk1' = Fetch(j).dst
       /\ UNCHANGED missed
    \/ /\ ~Exists(j) \/ MayFail
       /\ \E mask \in SUBSET DOMAIN case.chain :
             chunk0' = FetchFails(mask).src /\ chunk1' = FetchFails(mask).dst
       /\ missed' = missed \cup {j}

\* Fault: the chunk behind is loaded one element late.
EntersChunkLate(o) == o < Total /\ o % ChunkSize = 1

EntersChunk(o) == o < Total /\ o % ChunkSize = 0

Buffers(o) ==
    \/ EntersChunk(o) /\ LoadChunk(o)
    \/ ~EntersChunk(o) /\ UNCHANGED <<chunk0, chunk1, missed>>

\* view(ds) and begin(): the first chunk is loaded, unless there is none.
Begin(i) ==
    /\ pc = "written" /\ case.rank = 1 /\ case.read = case.extent
    /\ pc' = "view"
    /\ Buffers(0)
    /\ use' = [use EXCEPT ![i] = "full"]
    /\ UNCHANGED <<case, next, file, memory, lost, offset>>

Copied(i, k) ==
    /\ use[i] = "full" /\ i # k
    /\ pc' = pc
    /\ UNCHANGED <<case, next, file, memory, lost>>

\* A copy shares the pipeline.
Copy(i, k) ==
    /\ Copied(i, k) /\ use[k] # "full"
    /\ offset' = [offset EXCEPT ![k] = offset[i]]
    /\ use' = [use EXCEPT ![k] = "full"]
    /\ UNCHANGED <<chunk0, chunk1, missed>>

\* ++it
Increment(i) ==
    /\ use[i] = "full" /\ offset[i] < Total
    /\ offset' = [offset EXCEPT ![i] = @ + 1]
    /\ use' = [k \in Iterators |-> IF k = i THEN "full" ELSE "none"]
    /\ Buffers(offset[i] + 1)
    /\ UNCHANGED <<case, pc, next, file, memory, lost>>

\* it++: the result k is a copy taken before.
PostIncrement(i, k) ==
    /\ Copied(i, k) /\ offset[i] < Total
    /\ offset' = [offset EXCEPT ![i] = @ + 1, ![k] = offset[i]]
    /\ use' = [l \in Iterators |-> IF l = i THEN "full" ELSE IF l = k THEN "deref" ELSE "none"]
    /\ Buffers(offset[i] + 1)

\* The dataset has been iterated over.
ViewEnded ==
    /\ pc = "view"
    /\ \E i \in Iterators : use[i] = "full" /\ offset[i] = Total
    /\ UNCHANGED viewVars

ViewNext ==
    \/ Next /\ UNCHANGED <<offset, use>>
    \/ \E i \in Iterators : Begin(i) \/ Increment(i)
    \/ \E i, k \in Iterators : Copy(i, k) \/ PostIncrement(i, k)
    \/ ViewEnded

ViewSpec == ViewInit /\ [][ViewNext]_viewVars

-----------------------------------------------------------------------------
(* Properties. *)

\* *it
Dereference(i) == Element(WriteSplit, chunk0, offset[i] % ChunkSize)

\* Has it++ taken the pipeline into the next chunk?
LeftBehind(i) == use[i] = "deref" /\ EntersChunk(offset[i] + 1)

\* "Return a C++20 input range that streams a rank-1 chunked dataset one chunk
\* at a time" (H5Dranges.hpp:134): every iterator the program may use refers
\* to the element at its offset, copies among them, unless the chunk could not
\* be fetched; what the element is, the HDF5 library tells.
IteratorDelivers ==
    pc = "view" /\ ReadsSound(Pipe) /\ NoChecksum(Pipe) =>
        \A i \in Iterators :
            LET x == <<offset[i], 0, 0>> IN
            use[i] # "none" /\ offset[i] < Total /\ ~LeftBehind(i) /\ CornerOf(WriteSplit, x) \notin missed
                => Dereference(i) = Array[x]

=============================================================================
