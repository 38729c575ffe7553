----------------------------- MODULE MCSurvival -----------------------------
(* Survival for TLC. *)
EXTENDS Survival

(* The hosts decide without taking notice of each other, so that any order *)
(* of their steps gives the same decisions: let the lowest one go first.   *)
LowestFirst ==
    \A i \in Host : pc'[i] # pc[i] \/ raw'[i] # raw[i] =>
        \A j \in Host : j < i => pc[j] \in {"won", "lost", "down"}
=============================================================================
