--------------------------- MODULE MasterService ---------------------------
(***************************************************************************)
(* What propose_master and cancel_master promise the toolstacks of a pool, *)
(* without the lock, the State-File and the threads that bring it about.   *)
(* The role of the master is one thing that at most one running host has.  *)
(* It is won only by a call of propose_master that had to wait for it,     *)
(* when nobody else has it, and lost only by the master's own doing: an    *)
(* answer FALSE to a call of its own, its cancel_master, or its end.       *)
(***************************************************************************)
CONSTANT Host

VARIABLES
    master,    \* the hosts that were told TRUE and have the role since
    call,      \* call[i]: what the toolstack of i waits for
    running    \* the hosts that run

vars == <<master, call, running>>

Init ==
    /\ master = {}
    /\ call = [i \in Host |-> "none"]
    /\ running = Host

(* propose_master is answered on host i: mine is the answer. *)
Answer(i, mine) ==
    /\ mine => master \subseteq {i}
    /\ master' = IF mine THEN {i} ELSE master \ {i}

Propose(i) ==
    /\ call[i] = "none"
    /\ call' = [call EXCEPT ![i] = "propose"]
    /\ UNCHANGED master

(* A call that is answered at once wins nothing: the master is told that   *)
(* it still has the role, anybody may be told that somebody else has it.   *)
ProposeAtOnce(i) ==
    /\ call[i] = "none"
    /\ master' \in {master, master \ {i}}
    /\ UNCHANGED call

ProposeReturns(i) ==
    /\ call[i] = "propose"
    /\ \E mine \in BOOLEAN : Answer(i, mine)
    /\ call' = [call EXCEPT ![i] = "none"]

Cancel(i) ==
    /\ call[i] = "none"
    /\ call' = [call EXCEPT ![i] = "cancel"]
    /\ master' = master \ {i}

CancelReturns(i) ==
    /\ call[i] = "cancel"
    /\ call' = [call EXCEPT ![i] = "none"]
    /\ UNCHANGED master

Stop(i) ==
    /\ running' = running \ {i}
    /\ master' = master \ {i}
    /\ UNCHANGED call

Call(i) ==
    /\ \/ Propose(i) \/ ProposeAtOnce(i) \/ ProposeReturns(i)
       \/ Cancel(i) \/ CancelReturns(i)
    /\ UNCHANGED running

Next == \E i \in running : Call(i) \/ Stop(i)

Spec == Init /\ [][Next]_vars
=============================================================================
