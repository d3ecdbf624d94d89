----------------------------- MODULE MCPoolRead -----------------------------
(* Instances of PoolRead for TLC. *)
EXTENDS PoolRead, TLC

=============================================================================
