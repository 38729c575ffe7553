------------------------------ MODULE MCMedia ------------------------------
(***************************************************************************)
(* The two media between the hosts, for TLC: a behaviour exercises the     *)
(* State-File or the heartbeat, and leaves the other as it is.  When       *)
(* accesses of the State-File fail nothing is claimed of the pool state,   *)
(* so these behaviours have no call that sets it.                          *)
(***************************************************************************)
EXTENDS StateFile, Heartbeat

VARIABLE medium

mediavars == <<medium, vars, hbvars>>

MediaInit == medium \in {"State-File", "failing State-File", "heartbeat"} /\ Init /\ HbInit

MediaNext ==
    \/ medium = "State-File" /\ Next /\ ioerrors' = 0 /\ UNCHANGED <<medium, hbvars>>
    \/ medium = "failing State-File" /\ Next /\ (\A i \in Host : call'[i].kind # "pool")
       /\ UNCHANGED <<medium, hbvars>>
    \/ medium = "heartbeat" /\ HbNext /\ UNCHANGED <<medium, vars>>

MediaSpec == MediaInit /\ [][MediaNext]_mediavars
=============================================================================
