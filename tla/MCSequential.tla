---------------------------- MODULE MCSequential ----------------------------
(***************************************************************************)
(* Instances of DirectChunk and View for TLC: blocks of rank 1 to 3        *)
(* without filters, one of rank 1 through every chain of filters, and      *)
(* chunks of one register and less in a build for SSSE3.                   *)
(***************************************************************************)
EXTENDS View

Unfiltered(rank, b, n, extent, read, old) ==
    [rank |-> rank, b |-> b, n |-> n, extent |-> extent, read |-> read, old |-> old,
     chain |-> <<>>, size |-> 1, hdf5 |-> 2, ssse3 |-> FALSE, kind |-> "basic"]

\* Every block of a line, written and read back, shorter and longer than what
\* the dataset has and than a chunk.
Lines == {Unfiltered(1, <<b, 1, 1>>, <<n, 1, 1>>, <<5, 1, 1>>, <<r, 1, 1>>, old) :
             b \in 1 .. 3, n \in 0 .. 5, r \in 3 .. 5, old \in BOOLEAN}

Planes == {Unfiltered(2, <<b1, b2, 1>>, <<n1, n2, 1>>, <<n1, n2, 1>>, <<n1, n2, 1>>, FALSE) :
              b1 \in 1 .. 3, b2 \in 1 .. 3, n1 \in 1 .. 5, n2 \in 1 .. 4}

\* A block that is smaller than its dataset.
Corners2 == {Unfiltered(2, <<b1, 2, 1>>, <<n1, n2, 1>>, <<3, 3, 1>>, <<r1, 2, 1>>, TRUE) :
                b1 \in 2 .. 3, n1 \in 1 .. 3, n2 \in 1 .. 3, r1 \in 1 .. 3}

\* Middle and slowest dimensions shorter than, equal to and longer than a chunk.
Solids == {Unfiltered(3, <<b1, b2, 2>>, <<n1, n2, n3>>, <<n1, n2, n3>>, <<n1, n2, n3>>, FALSE) :
              b1 \in 2 .. 3, b2 \in 2 .. 3, n1 \in 2 .. 4, n2 \in 1 .. 4, n3 \in 1 .. 3}

\* Every filter once, in every order.
Chains == {chain \in UNION {[1 .. m -> Filters] : m \in 1 .. 3} :
              \A i, k \in DOMAIN chain : chain[i] = chain[k] => i = k}

ChunksOf(b, n, chain, size, hdf5, ssse3, kind) ==
    [rank |-> 1, b |-> <<b, 1, 1>>, n |-> <<n, 1, 1>>, extent |-> <<n, 1, 1>>,
     read |-> <<n, 1, 1>>, old |-> FALSE,
     chain |-> chain, size |-> size, hdf5 |-> hdf5, ssse3 |-> ssse3, kind |-> kind]

Filtered == {ChunksOf(2, 5, chain, 2, hdf5, FALSE, kind) :
                 chain \in Chains, hdf5 \in {1, 2}, kind \in {"basic", "pool"}}

\* Elements of 1 to 8 bytes, in chunks that fill a register and that do not.
Registers == {ChunksOf(b, 3, chain, size, 2, TRUE, "pool") :
                 b \in {2, 3, 4}, size \in {1, 3, 4, 8}, chain \in {<<"shuffle">>, <<"shuffle", "deflate">>}}

MCCases == Lines \cup Planes \cup Corners2 \cup Solids \cup Filtered \cup Registers

\* A chunk of two doubles, shuffled in one register.
VectorCases == {ChunksOf(2, 2, <<"shuffle">>, 8, 2, TRUE, "pool")}

=============================================================================
