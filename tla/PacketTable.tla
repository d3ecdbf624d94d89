---------------------------- MODULE PacketTable ----------------------------
(***************************************************************************)
(* pt_t of src/h5cpp/H5Dappend.hpp, the packet table, over the pipelines   *)
(* it may pick: basic_pipeline_t (H5Zpipeline_basic.hpp) with and without  *)
(* filters, and pool_pipeline_t, whose write path is PoolWrite.            *)
(*                                                                         *)
(* A packet table belongs to one thread, so a call is one action.  What    *)
(* can go wrong is a long sequence of legal calls: the position the table  *)
(* keeps in memory (current_dims) against the extent in the file, the      *)
(* chunk buffer that the table shares with its pipeline, and the calls     *)
(* whose failure is not looked at.                                         *)
(*                                                                         *)
(* The dataset may hold variable-length strings: the buffer then holds     *)
(* pointers to the caller's characters, and H5Dwrite follows them.  Its    *)
(* file may go over to SWMR, with readers in other processes.              *)
(*                                                                         *)
(* Records are the elements of the dataset.  A chunk has ChunkRows rows of *)
(* Cols records; dimension 0 grows, the other dimensions are one chunk     *)
(* wide (init() sees to that) and are taken together as columns.           *)
(***************************************************************************)
EXTENDS Naturals, Sequences

CONSTANTS
    Tables,        \* the pt_t objects on one dataset
    Records,       \* the values a caller appends
    Fill,          \* the fill value of the dataset
    Scratch,       \* what a filter leaves in the chunk buffer
    Rank,          \* the rank of the dataset
    ChunkRows,     \* chunk_dims[0]
    Cols,          \* chunk_dims[1] * ... * chunk_dims[rank - 1]
    MaxRows,       \* max_dims[0]
    InitRows,      \* the rows the dataset may have when a table is opened on it
    StringTypes,   \* may the records be variable-length strings?
    Pipelines,     \* what resolve_dataset_threads() may select
    Filtered,      \* the dataset has filters
    Cap,           \* cap_ of the pool pipeline
    Calls,         \* the calls the caller makes besides append(record), flush;
                   \* "overlap": blocks while records are in the scratch buffer;
                   \* "reuse": of the characters of a string that is buffered;
                   \* "swmr": h5::start_swmr_write
    LastRow,       \* bound: the runs in which current_dims stays below
    Slack          \* bound: the pointers the buffer has room for behind a chunk

ASSUME TableAssumption ==
    /\ ChunkRows \in Nat \ {0}
    /\ Cols \in Nat \ {0}
    /\ Rank = 1 => Cols = 1
    /\ MaxRows \in Nat
    /\ InitRows \subseteq 0 .. MaxRows
    /\ Cap \in Nat \ {0}
    /\ Pipelines \subseteq {"basic", "pool"} /\ Filtered \in BOOLEAN
    /\ StringTypes \subseteq BOOLEAN /\ LastRow \in Nat /\ Slack \in Nat
    /\ Calls \subseteq {"pointer", "overlap", "container", "misfit", "reset", "copy", "move",
                       "reuse", "swmr"}
    /\ Fill \notin Records /\ Scratch \notin Records

N == ChunkRows * Cols

ChunkIds == 0 .. (MaxRows \div ChunkRows)

Data == [1 .. N -> Records \cup {Fill, Scratch}]

VARIABLES
    extent,    \* the dimensions of the dataset in the file: rows and columns
    disk,      \* disk[c]: the chunk at rows c * ChunkRows ..
    pipeline,  \* pipeline[p]: the alternative of the variant
    cur,       \* cur[p]: current_dims
    buf,       \* buf[p]: the first n records of the buffer behind ptr
    pending,   \* pending[p]: in_flight_ of the pool pipeline
    dtValid,   \* dtValid[p]: dt is a live datatype handle
    state,     \* state[p]: closed, open, synced (a flush just returned), crashed
    latched,   \* latched[p]: swmr_write_
    silent,    \* H5Dwrite_chunk or H5Dwrite has failed and nobody was told
    strings,   \* the type of the dataset is a variable-length string
    swmr,      \* the access intent of the file has SWMR-write
    published  \* the records an SWMR reader is sure to see

fileVars == <<strings, swmr, published>>
tableVars == <<pipeline, cur, buf, pending, dtValid, state, latched>>
vars == <<extent, disk, tableVars, silent, fileVars>>

\* A string was appended when the dataset could not grow: n = N from then on,
\* even if reset() makes the position look like one that can.
Overrun(p) ==
    /\ strings /\ Len(buf[p]) <= N + Slack
    /\ cur[p].rows > MaxRows \/ "reset" \in Calls

Dims == [rows : Nat, cols : {0, Cols}]
Chunk == [off : Nat, data : Data]

TypeOK ==
    /\ extent \in [rows : 0 .. MaxRows, cols : {0, Cols}]
    /\ disk \in [ChunkIds -> Data]
    /\ pipeline \in [Tables -> Pipelines \cup {"basic"}]
    /\ cur \in [Tables -> Dims]
    /\ \A p \in Tables : /\ buf[p] \in Seq(Records \cup {Scratch})
                         /\ Len(buf[p]) < N \/ Overrun(p)
                         /\ pending[p] \in Seq(Chunk) /\ Len(pending[p]) < Cap
    /\ dtValid \in [Tables -> BOOLEAN]
    /\ state \in [Tables -> {"closed", "open", "synced", "crashed"}]
    /\ latched \in [Tables -> BOOLEAN]
    /\ silent \in BOOLEAN /\ strings \in StringTypes /\ swmr \in BOOLEAN
    /\ published \in Seq(Records \cup {Fill, Scratch})

-----------------------------------------------------------------------------
(* The HDF5 calls, as the packet table uses them. *)

\* H5Dset_extent fails beyond max_dims.
CanExtend(d) == d.rows <= MaxRows

\* Where the dataset shrinks, what lies outside becomes the fill value.
Resize(d, file) ==
    IF d.rows >= extent.rows /\ d.cols >= extent.cols
    THEN file
    ELSE [c \in ChunkIds |-> [i \in 1 .. N |->
             IF (c * ChunkRows) + ((i - 1) \div Cols) < d.rows /\ ((i - 1) % Cols) < d.cols
             THEN file[c][i] ELSE Fill]]

\* H5Dwrite_chunk wants an offset on a chunk boundary inside the extent.
Writable(d, off) == off % ChunkRows = 0 /\ off < d.rows /\ d.cols > 0

\* Fault: the offset is taken in records, not in rows.
PlaceByRecords(off) == off \div N

PlaceOf(off) == off \div ChunkRows

\* H5Dwrite_chunk of the chunks of q in turn: the last one for a place stays.
PutChunks(d, file, q) ==
    [c \in ChunkIds |->
        LET at == {k \in DOMAIN q : Writable(d, q[k].off) /\ PlaceOf(q[k].off) = c}
            last == {k \in at : \A m \in at : m <= k} IN
        IF last = {} THEN file[c] ELSE q[CHOOSE k \in last : TRUE].data]

\* H5Dwrite of the strings from row off on, whatever the chunks.
PutStrings(file, off, data) ==
    [c \in ChunkIds |-> [i \in 1 .. N |->
        LET k == (c * N) + i - off IN
        IF k \in DOMAIN data THEN data[k] ELSE file[c][i]]]

SomeFail(d, q) == \E i \in DOMAIN q : ~Writable(d, q[i].off)

-----------------------------------------------------------------------------
(* Helpers. *)

Usable(p) ==
    /\ state[p] \in {"open", "synced"}
    /\ \A q \in Tables : state[q] # "crashed"

\* *current_dims += rows
Grown(p, rows) == [cur[p] EXCEPT !.rows = @ + rows]

InBounds(p) == cur[p].rows < LastRow

\* The records of the dataset in file order, chunks being as wide as it is.
Readable(file) ==
    [k \in 1 .. (extent.rows * extent.cols) |-> file[(k - 1) \div N][((k - 1) % N) + 1]]

Padded(b) == [i \in 1 .. N |-> IF i <= Len(b) THEN b[i] ELSE Fill]

\* write_chunk: the basic pipeline stores the chunk, the pool pipeline queues
\* it and stores as many from the front as are ready, at least so many that
\* fewer than Cap stay.  Nobody looks at the status of H5Dwrite_chunk.
WriteChunk(p, d, c) ==
    IF pipeline[p] = "pool"
    THEN LET q == Append(pending[p], c) IN
         \E k \in 0 .. Len(q) :
            /\ Len(q) - k < Cap
            /\ disk' = PutChunks(d, Resize(d, disk), SubSeq(q, 1, k))
            /\ pending' = [pending EXCEPT ![p] = SubSeq(q, k + 1, Len(q))]
            /\ silent' = (silent \/ SomeFail(d, SubSeq(q, 1, k)))
    ELSE /\ disk' = PutChunks(d, Resize(d, disk), <<c>>)
         /\ silent' = (silent \/ ~Writable(d, c.off))
         /\ UNCHANGED pending

\* set_extent(ds, current_dims) throws: the file stays as it is, the position
\* has moved.
ExtendThrows(p, d) ==
    /\ ~CanExtend(d)
    /\ cur' = [cur EXCEPT ![p] = d]
    /\ state' = [state EXCEPT ![p] = "open"]
    /\ UNCHANGED <<extent, disk, pending, silent>>

\* Fault: the offset is taken after current_dims has moved.
ExtendAndWriteAtEnd(p, d, data) ==
    /\ CanExtend(d)
    /\ cur' = [cur EXCEPT ![p] = d]
    /\ extent' = d
    /\ WriteChunk(p, d, [off |-> d.rows, data |-> data])
    /\ state' = [state EXCEPT ![p] = "open"]

\* set_extent and write_chunk of the chunk at the old position.
ExtendAndWrite(p, d, data) ==
    /\ CanExtend(d)
    /\ cur' = [cur EXCEPT ![p] = d]
    /\ extent' = d
    /\ WriteChunk(p, d, [off |-> cur[p].rows, data |-> data])
    /\ state' = [state EXCEPT ![p] = "open"]

\* The basic pipeline runs its filters in chunk0, the buffer behind ptr.
UsesScratch(p) == Filtered /\ pipeline[p] = "basic"

BlockAllowed(p) == UsesScratch(p) /\ buf[p] # <<>> => "overlap" \in Calls

ScratchUsed(p, data) ==
    IF UsesScratch(p)
    THEN \E b \in {data, [i \in 1 .. N |-> Scratch]} :
            buf' = [buf EXCEPT ![p] = SubSeq(b, 1, Len(buf[p]))]
    ELSE UNCHANGED buf

-----------------------------------------------------------------------------
(* Opening a table. *)

\* pt_t(ds): the position is the extent in the file.
OpenOn(p, kind, rows) ==
    /\ pipeline = [q \in Tables |-> kind]
    /\ cur = [q \in Tables |-> [rows |-> IF q = p THEN rows ELSE 0, cols |-> Cols]]
    /\ state = [q \in Tables |-> IF q = p THEN "open" ELSE "closed"]

\* The dataset is as wide as the chunk.  init() does not see to that: it puts
\* the width of the chunk into current_dims, and a wider dataset would be cut
\* to it by the first set_extent.
Init ==
    /\ \E rows \in InitRows, p \in Tables, kind \in Pipelines :
          /\ extent = [rows |-> rows, cols |-> Cols]
          /\ OpenOn(p, kind, rows)
    /\ disk = [c \in ChunkIds |-> [i \in 1 .. N |-> Fill]]
    /\ buf = [p \in Tables |-> <<>>]
    /\ pending = [p \in Tables |-> <<>>]
    /\ dtValid = [p \in Tables |-> state[p] = "open"]
    /\ silent = FALSE
    /\ strings \in {s \in StringTypes : s => Rank = 1}
    /\ swmr \in {s \in BOOLEAN : s => "swmr" \in Calls /\ ~strings}
    /\ published = IF swmr THEN Readable(disk) ELSE <<>>
    /\ latched = [p \in Tables |-> swmr /\ state[p] = "open"]

\* pt_t(pt) opens the dataset of another table again.  Whether h5::threads is
\* found on the handle of the first, which init() opened without it, is up to
\* the HDF5 library.
Copy(p, q) ==
    /\ "copy" \in Calls
    /\ Usable(p) /\ state[q] = "closed"
    /\ \E kind \in {pipeline[p], "basic"} : pipeline' = [pipeline EXCEPT ![q] = kind]
    /\ cur' = [cur EXCEPT ![q] = [rows |-> extent.rows, cols |-> Cols]]
    /\ buf' = [buf EXCEPT ![q] = <<>>]
    /\ pending' = [pending EXCEPT ![q] = <<>>]
    /\ dtValid' = [dtValid EXCEPT ![q] = TRUE]
    /\ state' = [state EXCEPT ![q] = "open"]
    /\ latched' = [latched EXCEPT ![q] = swmr]
    /\ UNCHANGED <<extent, disk, silent, fileVars>>

-----------------------------------------------------------------------------
(* Appending. *)

\* Fault: off by one.
FullTooLate(b) == Len(b) = N + 1

Full(b) == Len(b) = N

\* append(T): buffer the record; when the chunk is full extend and write it.
AppendRecord(p, v) ==
    /\ Usable(p) /\ InBounds(p) /\ ~strings
    /\ LET b == Append(buf[p], v)
           d == Grown(p, ChunkRows) IN
       \/ /\ ~Full(b)
          /\ buf' = [buf EXCEPT ![p] = b]
          /\ state' = [state EXCEPT ![p] = "open"]
          /\ UNCHANGED <<extent, disk, cur, pending, silent>>
       \/ /\ Full(b)
          /\ buf' = [buf EXCEPT ![p] = <<>>]
          /\ ExtendThrows(p, d) \/ ExtendAndWrite(p, d, b)
    /\ UNCHANGED <<pipeline, dtValid, latched, fileVars>>

\* What the pointers lead to when H5Dwrite follows them: the characters that
\* were appended, if the caller has kept them.
Characters(b) ==
    IF "reuse" \in Calls THEN {c \in [DOMAIN b -> Records \cup {Scratch}] :
                                  \A i \in DOMAIN b : c[i] \in {b[i], Scratch}}
    ELSE {b}

\* H5Dwrite of n strings, at an extent d that has room for them; without a
\* datatype it fails, and nobody looks.
WriteStrings(p, d, b) ==
    IF dtValid[p]
    THEN /\ \E c \in Characters(b) : disk' = PutStrings(Resize(d, disk), cur[p].rows, c)
         /\ UNCHANGED silent
    ELSE disk' = Resize(d, disk) /\ silent' = TRUE

\* append(std::string): buffer the pointer; when the chunk is full extend and
\* write.  The position moves and n is reset behind the call, so that a dataset
\* that cannot grow leaves n = N, and the next pointer goes behind the chunk.
AppendString(p, v) ==
    /\ Usable(p) /\ InBounds(p) /\ strings
    /\ LET b == Append(buf[p], v)
           d == Grown(p, ChunkRows) IN
       \/ /\ ~Full(b) /\ Len(b) <= N + Slack
          /\ buf' = [buf EXCEPT ![p] = b]
          /\ state' = [state EXCEPT ![p] = "open"]
          /\ UNCHANGED <<extent, disk, cur, pending, silent>>
       \/ Full(b) /\ buf' = [buf EXCEPT ![p] = b] /\ ExtendThrows(p, d)
       \/ /\ Full(b) /\ CanExtend(d)
          /\ buf' = [buf EXCEPT ![p] = <<>>]
          /\ cur' = [cur EXCEPT ![p] = d]
          /\ extent' = d
          /\ WriteStrings(p, d, b)
          /\ state' = [state EXCEPT ![p] = "open"]
          /\ UNCHANGED pending
    /\ UNCHANGED <<pipeline, dtValid, latched, fileVars>>

\* Fault: the position moves by the records of a chunk, not by its rows.
AppendPointerByRecords(p, data) ==
    /\ "pointer" \in Calls
    /\ Usable(p) /\ InBounds(p) /\ BlockAllowed(p) /\ ~strings
    /\ LET d == Grown(p, N) IN
       \/ ExtendThrows(p, d) /\ UNCHANGED buf
       \/ ExtendAndWrite(p, d, data) /\ ScratchUsed(p, data)
    /\ UNCHANGED <<pipeline, dtValid, latched, fileVars>>

\* append(T*): one chunk straight from the caller's memory.
AppendPointer(p, data) ==
    /\ "pointer" \in Calls
    /\ Usable(p) /\ InBounds(p) /\ BlockAllowed(p) /\ ~strings
    /\ LET d == Grown(p, ChunkRows) IN
       \/ ExtendThrows(p, d) /\ UNCHANGED buf
       \/ ExtendAndWrite(p, d, data) /\ ScratchUsed(p, data)
    /\ UNCHANGED <<pipeline, dtValid, latched, fileVars>>

\* append(container) with a contiguous container: the position moves by one
\* row, whatever ChunkRows is.
AppendContainer(p, data) ==
    /\ "container" \in Calls
    /\ Usable(p) /\ InBounds(p) /\ BlockAllowed(p) /\ ~strings
    /\ LET d == Grown(p, 1) IN
       \/ ExtendThrows(p, d) /\ UNCHANGED buf
       \/ ExtendAndWrite(p, d, data) /\ ScratchUsed(p, data)
    /\ UNCHANGED <<pipeline, dtValid, latched, fileVars>>

\* A container of another size: the dataset is extended before the sizes are
\* compared and the call throws.
AppendMisfit(p) ==
    /\ "misfit" \in Calls
    /\ Usable(p) /\ InBounds(p) /\ ~strings
    /\ LET d == Grown(p, 1) IN
       \/ ExtendThrows(p, d)
       \/ /\ CanExtend(d)
          /\ cur' = [cur EXCEPT ![p] = d]
          /\ extent' = d
          /\ disk' = Resize(d, disk)
          /\ state' = [state EXCEPT ![p] = "open"]
          /\ UNCHANGED <<pending, silent>>
    /\ UNCHANGED <<pipeline, buf, dtValid, latched, fileVars>>

-----------------------------------------------------------------------------
(* flush(), and the two callers that run it. *)

\* Fault: the dataset is extended although nothing is buffered.
FlushAlwaysExtends(p) == Grown(p, ChunkRows)

\* The extent after a flush, and the chunks that are written when it ends.  A
\* partial chunk is padded; an invalid dt looks like a variable-length string
\* type (H5Tis_variable_str is negative) and sends it to an H5Dwrite that fails.
FlushDims(p) == IF buf[p] # <<>> THEN Grown(p, ChunkRows) ELSE extent

FlushQueue(p) ==
    IF buf[p] # <<>> /\ dtValid[p] /\ ~strings
    THEN Append(pending[p], [off |-> cur[p].rows, data |-> Padded(buf[p])])
    ELSE pending[p]

\* H5Dwrite of the strings that are buffered fails without a datatype, and where
\* they reach beyond the extent.
StringsFit(p) == dtValid[p] /\ cur[p].rows + Len(buf[p]) <= FlushDims(p).rows

\* The strings that are buffered go to H5Dwrite, unpadded.
FlushFile(p, c) ==
    IF strings /\ StringsFit(p)
    THEN PutStrings(Resize(FlushDims(p), disk), cur[p].rows, c)
    ELSE Resize(FlushDims(p), disk)

\* Fault: flush() leaves what the pool pipeline has in flight.
DrainNothing(p, q) == IF pipeline[p] = "pool" THEN 0 ELSE Len(q)

\* How many chunks of the queue a flush stores: drain() waits for all of them.
DrainCount(p, q) == Len(q)

\* Fault: the intent is looked at when the table is opened and never again.
LatchedAtOpen(p) == latched[p]

\* swmr_write_ behind a flush: once it is set it stays, else the intent of the
\* file is looked at again.
Latched(p) == latched[p] \/ swmr

\* A partial chunk is written and the position moves behind it, the pool
\* pipeline is drained, and H5Dflush shows the dataset to the readers.
Flushed(p) ==
    LET d == FlushDims(p)
        q == FlushQueue(p)
        k == DrainCount(p, q) IN
    /\ CanExtend(d)
    /\ extent' = d
    /\ \E c \in Characters(buf[p]) :
          disk' = PutChunks(d, FlushFile(p, c), SubSeq(q, 1, k))
    /\ silent' = \/ silent \/ SomeFail(d, q)
                 \/ buf[p] # <<>> /\ ~(IF strings THEN StringsFit(p) ELSE dtValid[p])
    /\ published' = IF Latched(p) THEN Readable(disk)' ELSE published

FlushedOwn(p) ==
    LET q == FlushQueue(p) IN
    /\ Flushed(p)
    /\ cur' = IF buf[p] # <<>> THEN [cur EXCEPT ![p] = FlushDims(p)] ELSE cur
    /\ pending' = [pending EXCEPT ![p] = SubSeq(q, DrainCount(p, q) + 1, Len(q))]
    /\ buf' = [buf EXCEPT ![p] = <<>>]
    /\ latched' = [latched EXCEPT ![p] = Latched(p)]

\* set_extent throws: the buffer and the queue stay as they are.
FlushFails(p) ==
    /\ buf[p] # <<>>
    /\ ~CanExtend(Grown(p, ChunkRows))
    /\ cur' = [cur EXCEPT ![p] = Grown(p, ChunkRows)]
    /\ UNCHANGED <<extent, disk, pending, buf, silent, latched, published>>

Flush(p) ==
    /\ Usable(p) /\ InBounds(p)
    /\ \/ FlushedOwn(p) /\ state' = [state EXCEPT ![p] = "synced"]
       \/ FlushFails(p) /\ state' = [state EXCEPT ![p] = "open"]
    /\ UNCHANGED <<pipeline, dtValid, strings, swmr>>

\* ~pt_t() flushes; an exception out of a destructor ends the process.  The
\* table may be constructed again: pt_t() has no datatype.
Destroy(p) ==
    /\ Usable(p)
    /\ \/ FlushedOwn(p) /\ state' = [state EXCEPT ![p] = "closed"]
       \/ FlushFails(p) /\ state' = [state EXCEPT ![p] = "crashed"]
    /\ dtValid' = [dtValid EXCEPT ![p] = FALSE]
    /\ UNCHANGED <<pipeline, strings, swmr>>

\* Everything moves but dt, each of the two keeps its own.
Handover(p, q) ==
    /\ pipeline' = [pipeline EXCEPT ![q] = pipeline[p]]
    /\ cur' = [cur EXCEPT ![q] = cur[p]]
    /\ buf' = [buf EXCEPT ![q] = buf[p], ![p] = <<>>]
    /\ pending' = [pending EXCEPT ![q] = pending[p], ![p] = <<>>]
    /\ latched' = [latched EXCEPT ![q] = latched[p]]
    /\ state' = [state EXCEPT ![q] = state[p], ![p] = "closed"]

\* operator=(pt_t&&) onto a table that holds no dataset.
Move(p, q) ==
    /\ "move" \in Calls
    /\ Usable(p) /\ state[q] = "closed"
    /\ Handover(p, q)
    /\ UNCHANGED <<extent, disk, dtValid, silent, fileVars>>

\* operator=(pt_t&&) onto a table that is open, which is flushed before.
MoveOnto(p, q) ==
    /\ "move" \in Calls
    /\ Usable(p) /\ Usable(q) /\ p # q /\ InBounds(q)
    /\ \/ Flushed(q) /\ Handover(p, q)
       \/ FlushFails(q) /\ state' = [state EXCEPT ![q] = "open"] /\ UNCHANGED pipeline
    /\ UNCHANGED <<dtValid, strings, swmr>>

\* reset(): all of current_dims becomes zero, nothing else changes.
Reset(p) ==
    /\ "reset" \in Calls
    /\ Usable(p)
    /\ cur' = [cur EXCEPT ![p] = [rows |-> 0, cols |-> IF Rank = 1 THEN Cols ELSE 0]]
    /\ state' = [state EXCEPT ![p] = "open"]
    /\ UNCHANGED <<extent, disk, pipeline, buf, pending, dtValid, latched, silent, fileVars>>

\* h5::start_swmr_write(fd): everything the library holds goes to the file.
\* HDF5 has no SWMR for variable-length data.
StartSwmr ==
    /\ "swmr" \in Calls /\ ~swmr /\ ~strings
    /\ \E p \in Tables : Usable(p)
    /\ swmr' = TRUE
    /\ published' = Readable(disk)
    /\ UNCHANGED <<extent, disk, tableVars, silent, strings>>

\* Nobody uses the dataset any more, or the bound is reached.
Ended ==
    /\ \A p \in Tables : ~Usable(p)
    /\ UNCHANGED vars

Next ==
    \/ \E p \in Tables :
          \/ \E v \in Records : AppendRecord(p, v) \/ AppendString(p, v)
          \/ \E data \in [1 .. N -> Records] : AppendPointer(p, data) \/ AppendContainer(p, data)
          \/ AppendMisfit(p) \/ Flush(p) \/ Destroy(p) \/ Reset(p)
    \/ \E p, q \in Tables : Copy(p, q) \/ Move(p, q) \/ MoveOnto(p, q)
    \/ StartSwmr
    \/ Ended

Spec == Init /\ [][Next]_vars

-----------------------------------------------------------------------------
(* Properties. *)

\* The only table of the dataset, where there is one.
Sole == CHOOSE p \in Tables : TRUE

\* The dataset as it will be when everything in flight is stored.
Committed == Readable(PutChunks(extent, disk, pending[Sole]))

Log == INSTANCE AppendLog WITH
    ChunkSize <- N,
    Capacity <- MaxRows * Cols,
    committed <- Committed,
    visible <- Readable(disk),
    buffered <- buf[Sole],
    state <- state[Sole]

\* A packet table is an append-only log of records: none is lost, changed,
\* reordered or stored twice whatever the sequence of calls, and a flush makes
\* all of them visible to a reader.
ImplementsAppendLog == Log!LogSpec

\* A table that never failed to extend stands where the dataset ends.
PositionIsExtent ==
    \A p \in Tables :
        Usable(p) => cur[p] = extent \/ (cur[p].rows > MaxRows /\ extent.rows + ChunkRows > MaxRows)

\* A chunk that could not be stored is reported ("@throws ... on H5Dwrite
\* failure during a chunk flush", H5Dappend.hpp:459).
FailuresAreReported == ~silent

\* A table that is flushed, closed or moved away holds no record that is still
\* to be stored, whichever table it came from.
NothingLeftBehind ==
    \A p \in Tables :
        state[p] \in {"synced", "closed"} => buf[p] = <<>> /\ pending[p] = <<>>

\* "flush(pt) is thus the complete writer-side SWMR call" (H5Dappend.hpp:411):
\* after it readers see every record that was appended, those the pool still
\* had in flight among them, also where the table was opened before the file
\* went over to SWMR.
FlushPublishes ==
    swmr /\ state[Sole] = "synced" => published = Committed /\ buf[Sole] = <<>>

\* "Does not shrink the dataset on disk" (H5Dappend.hpp:556-559): no call does.
NeverShrinks == [][extent'.rows >= extent.rows /\ extent'.cols >= extent.cols]_vars

\* "The packet table's on-disk extent always grows by chunk_dims[0]"
\* (examples/packet-table/README.md:79).
GrowsByChunk == [][extent'.rows \in {extent.rows, extent.rows + ChunkRows}]_vars

\* "Bypasses the per-element buffer" (H5Dappend.hpp:488): a raw-pointer append
\* leaves the records that are buffered as they are.
BufferSurvives ==
    [][\A p \in Tables : Len(buf'[p]) = Len(buf[p]) => buf'[p] = buf[p]]_vars

\* "append-only view" (examples/packet-table/README.md:3): a row that is in
\* the file keeps its records.
AppendOnly ==
    [][\A k \in DOMAIN Readable(disk) :
          Readable(disk)[k] \in Records =>
              k \in DOMAIN Readable(disk)' /\ Readable(disk)'[k] = Readable(disk)[k]]_vars

=============================================================================
