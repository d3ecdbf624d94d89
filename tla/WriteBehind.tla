---------------------------- MODULE WriteBehind ----------------------------
(***************************************************************************)
(* What the write path of a filter pipeline promises to h5::write and to   *)
(* the packet table, whichever pipeline is behind it: chunks may reach the *)
(* file later than they were written, but a place in the file never goes   *)
(* back to an older chunk, and after a drain or the destructor the file    *)
(* holds for every place what was written there last.  A chunk storage     *)
(* refuses is lost, and the place falls back to an older one.              *)
(*                                                                         *)
(* Chunks are numbered in the order they were written, from 1; 0 stands    *)
(* for what a place held before.                                           *)
(***************************************************************************)
EXTENDS Naturals

CONSTANTS Locs,            \* the chunk offsets of one dataset
          StorageMayFail   \* whether storage may refuse a chunk

VARIABLES count,   \* the chunks written so far
          file,    \* file[l]: the chunk last written at l and not lost
          disk,    \* disk[l]: the chunk the file holds at l
          state    \* where the caller stands with the pipeline

wbVars == <<count, file, disk, state>>

WBInit ==
    /\ count = 0
    /\ file = [l \in Locs |-> 0]
    /\ disk = [l \in Locs |-> 0]
    /\ state = "open"

\* The caller writes a chunk, the first one after a drain or not.
Put(l) ==
    /\ state \in {"open", "synced"}
    /\ count' = count + 1
    /\ file' = [file EXCEPT ![l] = count']
    /\ state' = "open"
    /\ UNCHANGED disk

\* A chunk reaches the file.
Store(l) ==
    /\ state = "open"
    /\ \E v \in (disk[l] + 1) .. file[l] : disk' = [disk EXCEPT ![l] = v]
    /\ UNCHANGED <<count, file, state>>

\* Storage refuses a chunk, the newest one it had for l.
Lose(l) ==
    /\ StorageMayFail
    /\ state = "open"
    /\ \E v \in disk[l] .. (file[l] - 1) : file' = [file EXCEPT ![l] = v]
    /\ UNCHANGED <<count, disk, state>>

\* The caller asks for a drain.
Reopen ==
    /\ state = "synced"
    /\ state' = "open"
    /\ UNCHANGED <<count, file, disk>>

\* A drain returns, or the destructor does.
Sync ==
    /\ state = "open"
    /\ disk = file
    /\ state' \in {"synced", "closed"}
    /\ UNCHANGED <<count, file, disk>>

\* The process ends first.
Crash ==
    /\ state = "open"
    /\ state' = "crashed"
    /\ UNCHANGED <<count, file, disk>>

WBNext == Reopen \/ Sync \/ Crash \/ \E l \in Locs : Put(l) \/ Store(l) \/ Lose(l)

WBSpec == WBInit /\ [][WBNext]_wbVars

=============================================================================
