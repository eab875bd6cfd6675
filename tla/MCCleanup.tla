------------------------------ MODULE MCCleanup ------------------------------
(* A small instance of Cleanup for TLC. *)
EXTENDS Cleanup

CONSTANTS v1, v2

OneVolume == {v1}
KeeperVolume == {v2}
=============================================================================
