---------------------------- MODULE MCPoolWrite ----------------------------
(* Instances of PoolWrite for TLC. *)
EXTENDS PoolWrite, TLC

=============================================================================
