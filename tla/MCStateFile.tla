---------------------------- MODULE MCStateFile ----------------------------
(* StateFile for TLC. *)
EXTENDS StateFile
=============================================================================
