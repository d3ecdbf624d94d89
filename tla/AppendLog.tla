----------------------------- MODULE AppendLog -----------------------------
(***************************************************************************)
(* What a packet table promises: an append-only view of a dataset.  The    *)
(* records appended one at a time are buffered, a full buffer is committed *)
(* behind everything committed before it, a flush commits a partial buffer *)
(* padded with the fill value, and what is committed never changes.  After *)
(* a flush, or when the table is gone, a reader of the dataset sees it.    *)
(***************************************************************************)
EXTENDS Naturals, Sequences

CONSTANTS
    Records,       \* the values a caller appends
    Fill,          \* the fill value of the dataset
    ChunkSize,     \* the records of one chunk
    Capacity       \* the records the dataset may grow to

VARIABLES
    committed,     \* the records of the dataset, in file order
    visible,       \* what a reader of the dataset gets now
    buffered,      \* the records of the open chunk
    state          \* "open", "synced" by a flush, "closed" or "crashed"

logVars == <<committed, visible, buffered, state>>

Usable == state \in {"open", "synced"}

\* A table opened on a dataset of whole chunks that hold nothing yet.
LogInit ==
    /\ Len(committed) % ChunkSize = 0
    /\ \A i \in DOMAIN committed : committed[i] = Fill
    /\ visible = committed
    /\ buffered = <<>>
    /\ state = "open"

\* A step that leaves the table open; a reader may lag behind.
Busy ==
    /\ Usable
    /\ state' = "open"
    /\ Len(visible') = Len(committed')

TakeRecord(v) ==
    /\ Busy
    /\ LET b == Append(buffered, v) IN
       IF Len(b) < ChunkSize
       THEN buffered' = b /\ UNCHANGED committed
       ELSE buffered' = <<>> /\ committed' = committed \o b

\* A chunk handed over as a whole leaves the buffered records alone.
TakeChunk(c) ==
    /\ Busy
    /\ committed' = committed \o c
    /\ UNCHANGED buffered

Padded(b) == b \o [i \in 1 .. (ChunkSize - Len(b)) |-> Fill]

\* A container of the wrong size throws and leaves a chunk of fill values.
LeaveHole ==
    /\ Busy
    /\ committed' = committed \o Padded(<<>>)
    /\ UNCHANGED buffered

\* A call that throws, which happens when the dataset may not grow.
Refuse ==
    /\ Busy
    /\ Len(committed) + ChunkSize > Capacity
    /\ buffered' \in {buffered, <<>>}
    /\ UNCHANGED committed

\* A string that is kept although the dataset may not grow, so that it is never
\* committed: the first one throws, those behind it do not.
Strand(v) ==
    /\ Busy
    /\ Len(committed) + ChunkSize > Capacity
    /\ Len(buffered) >= ChunkSize - 1
    /\ buffered' = Append(buffered, v)
    /\ UNCHANGED committed

Sync ==
    /\ Usable
    /\ committed' = IF buffered = <<>> THEN committed ELSE committed \o Padded(buffered)
    /\ visible' = committed'
    /\ buffered' = <<>>
    /\ state' \in {"synced", "closed"}

\* The destructor cannot commit what is buffered: the process ends.
Crash ==
    /\ Usable
    /\ buffered # <<>>
    /\ Len(committed) + ChunkSize > Capacity
    /\ state' = "crashed"
    /\ UNCHANGED <<committed, visible, buffered>>

LogNext ==
    \/ \E v \in Records : TakeRecord(v) \/ Strand(v)
    \/ \E c \in [1 .. ChunkSize -> Records] : TakeChunk(c)
    \/ LeaveHole \/ Refuse \/ Sync \/ Crash

LogSpec == LogInit /\ [][LogNext]_logVars

=============================================================================
