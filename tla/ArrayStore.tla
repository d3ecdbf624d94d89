----------------------------- MODULE ArrayStore -----------------------------
(***************************************************************************)
(* What h5::write promises: a dataset is an array of elements, a write     *)
(* changes the elements of its block and no other, piece by piece, and     *)
(* when it returns every element of the block has its new value, but for   *)
(* those storage has refused, of which nobody is told.  The array is what  *)
(* the HDF5 library finds in the file, so that any other program reads     *)
(* what was written.                                                       *)
(***************************************************************************)
VARIABLES
    array,      \* the elements of the dataset
    new,        \* what the write is to store: a function on its block
    refused,    \* the elements storage has refused
    returned,   \* the write has returned
    promised    \* the promise covers this write

\* Some of the elements get their new value.
StorePart ==
    /\ ~returned
    /\ DOMAIN array' = DOMAIN array
    /\ \A x \in DOMAIN array :
          \/ array'[x] = array[x]
          \/ x \in DOMAIN new /\ array'[x] = new[x]
    /\ refused \subseteq refused'
    /\ UNCHANGED <<new, promised>>

StoreReturn ==
    /\ StorePart
    /\ returned'
    /\ \A x \in DOMAIN new \ refused : array'[x] = new[x]

StoreNext == StoreReturn \/ (StorePart /\ ~returned')

StoreSpec == ~returned /\ [][promised => StoreNext]_<<array, new, refused, returned, promised>>

=============================================================================
