---------------------------- MODULE FaultHandler ----------------------------
(***************************************************************************)
(* How the hosts of a pool go through fault handling together: the         *)
(* triggers of the fault handler (update_hbdomain() and receive_hb() in    *)
(* daemon/heartbeat.c, sm_worker(), update_sfdomain() and start_fh() in    *)
(* daemon/sm.c) and the phases of fault_handler() with their rendezvous.   *)
(*                                                                         *)
(* The faults are hosts that stop, and their reboot; the heartbeat network *)
(* and the State-File stay good, so that only silent hosts time out.  What *)
(* the survival rules do when the network is split is in module Survival.  *)
(***************************************************************************)
EXTENDS Naturals, FiniteSets, FiniteSetsExt

CONSTANTS
    N,           \* number of configured hosts
    Starting,    \* hosts that run but have not yet joined the liveset
    Crashable,   \* hosts that may stop
    Restartable  \* hosts that come back after they stopped

Host == 0 .. N - 1

ASSUME FaultAssumption ==
    /\ N \in Nat \ {0}
    /\ Starting \subseteq Host /\ Crashable \subseteq Host /\ Restartable \subseteq Host

(* SM_PHASE, in the order fault_handler() runs through it. *)
Ring == <<"STARTED", "FHREADY", "FH1", "FH1DONE", "FH2", "FH2DONE", "FH3", "FH3DONE",
          "FH4", "FH4DONE">>
Phase == {Ring[n] : n \in 1 .. 10} \cup {"STARTING"}
NextPhase(p) == LET n == CHOOSE n \in 1 .. 10 : Ring[n] = p IN Ring[(n % 10) + 1]

VARIABLES
    mode,           \* mode[i]: "up", "dead" or "starting"
    phase,          \* psm->phase
    hbdomain,       \* phb->hbdomain
    sfdomain,       \* psf->sfdomain
    liveset,        \* psm->current_liveset
    proposed,       \* psm->proposed_liveset
    need_fh,        \* smvar.need_fh
    join_block,     \* smvar.join_block: the thread is in fault_handler()
    last_hbdomain,  \* smvar.last_hbdomain
    last_sfdomain,  \* smvar.last_sfdomain
    agreed,         \* the loop of the consistent view has been left
    stable,         \* stable_hb.hbdomain, stable_sf.sfdomain and their verdict
    hbview,         \* hbview[i][j]: what i has from j by heartbeat
    sfview,         \* sfview[i][j]: what i has from j through the State-File
    hbcall,         \* the call of start_fh() the heartbeat thread is about to make
    sfcall          \* the same of the SM worker thread

domains == <<hbdomain, sfdomain>>
smvars == <<phase, liveset, proposed, join_block, agreed, stable>>
fhvars == <<need_fh, last_hbdomain, last_sfdomain>>
views == <<hbview, sfview>>
calls == <<hbcall, sfcall>>
vars == <<mode, domains, smvars, fhvars, views, calls>>

(* What a host tells the others, in a heartbeat as in its section. *)
Report(j) == [phase |-> phase[j], hb |-> hbdomain[j], sf |-> sfdomain[j]]
Reports == [phase : Phase, hb : SUBSET Host, sf : SUBSET Host]

NoReport == [phase |-> "STARTING", hb |-> {}, sf |-> {}]
NoCopy == [hb |-> {}, sf |-> {}, wins |-> FALSE]

Up(i) == mode[i] = "up"

(* Mutant: the packets of a rebooted host refresh its last heartbeat. *)
SilentWhenDead(i, k) == mode[k] = "dead"

(* The heartbeats and sections of k do not count at i: k is dead, or k is  *)
(* starting while i takes it for alive.                                    *)
Silent(i, k) == mode[k] = "dead" \/ (mode[k] = "starting" /\ k \in liveset[i])

Init ==
    /\ mode = [i \in Host |-> IF i \in Starting THEN "starting" ELSE "up"]
    /\ phase = [i \in Host |-> IF i \in Starting THEN "STARTING" ELSE "STARTED"]
    /\ hbdomain = [i \in Host |-> Host]
    /\ sfdomain = [i \in Host |-> Host]
    /\ liveset = [i \in Host |-> IF i \in Starting THEN {} ELSE Host \ Starting]
    /\ proposed = liveset
    /\ need_fh = [i \in Host |-> FALSE]
    /\ join_block = [i \in Host |-> FALSE]
    /\ last_hbdomain = hbdomain
    /\ last_sfdomain = sfdomain
    /\ agreed = [i \in Host |-> FALSE]
    /\ stable = [i \in Host |-> NoCopy]
    /\ hbview = [i \in Host |-> [j \in Host |-> IF j = i THEN NoReport ELSE Report(j)]]
    /\ sfview = hbview
    /\ hbcall = [i \in Host |-> "none"]
    /\ sfcall = [i \in Host |-> "none"]

-----------------------------------------------------------------------------
(* The heartbeat threads and the SM worker thread. *)

(* receive_hb.  A packet in FHREADY makes the receiver call start_fh(TRUE). *)
HbReceive(i, j) ==
    /\ Up(i) /\ Up(j) /\ i # j /\ hbcall[i] = "none"
    /\ \/ hbview[i][j] # Report(j)
       \/ phase[j] = "FHREADY" /\ phase[i] = "STARTED" /\ ~ need_fh[i]
    /\ hbview' = [hbview EXCEPT ![i][j] = Report(j)]
    /\ hbcall' = [hbcall EXCEPT ![i] = IF phase[j] = "FHREADY" THEN "force" ELSE "none"]
    /\ UNCHANGED <<mode, domains, smvars, fhvars, sfview, sfcall>>

(* update_hbdomain drops hosts that were silent for T1, several of them in *)
(* one pass when their time is over together ...                           *)
update_hbdomain(i) ==
    /\ Up(i) /\ hbcall[i] = "none"
    /\ \E gone \in (SUBSET {k \in hbdomain[i] : Silent(i, k)}) \ {{}} :
          hbdomain' = [hbdomain EXCEPT ![i] = @ \ gone]
    /\ hbcall' = [hbcall EXCEPT ![i] = "changed"]
    /\ UNCHANGED <<mode, sfdomain, smvars, fhvars, views, sfcall>>

(* ... and takes in a starting host, unless a fault is being handled. *)
update_hbdomain_join(i) ==
    /\ Up(i) /\ hbcall[i] = "none" /\ ~ join_block[i]
    /\ \E k \in Host \ (hbdomain[i] \cup liveset[i]) :
          /\ mode[k] = "starting"
          /\ hbdomain' = [hbdomain EXCEPT ![i] = @ \cup {k}]
    /\ hbcall' = [hbcall EXCEPT ![i] = "changed"]
    /\ UNCHANGED <<mode, sfdomain, smvars, fhvars, views, sfcall>>

(* readsf publishes all sections together, also the last one a dead host   *)
(* wrote.                                                                  *)
readsf(i) ==
    /\ Up(i)
    /\ sfview' = [sfview EXCEPT ![i] = [j \in Host |-> IF j = i THEN @[j] ELSE Report(j)]]
    /\ sfview' # sfview
    /\ UNCHANGED <<mode, domains, smvars, fhvars, hbview, calls>>

update_sfdomain(i) ==
    /\ Up(i) /\ sfcall[i] = "none"
    /\ \E gone \in (SUBSET {k \in sfdomain[i] : Silent(i, k)}) \ {{}} :
          sfdomain' = [sfdomain EXCEPT ![i] = @ \ gone]
    /\ sfcall' = [sfcall EXCEPT ![i] = "changed"]
    /\ UNCHANGED <<mode, hbdomain, smvars, fhvars, views, hbcall>>

update_sfdomain_join(i) ==
    /\ Up(i) /\ sfcall[i] = "none" /\ ~ join_block[i]
    /\ \E k \in Host \ (sfdomain[i] \cup liveset[i]) :
          /\ mode[k] = "starting"
          /\ sfdomain' = [sfdomain EXCEPT ![i] = @ \cup {k}]
    /\ sfcall' = [sfcall EXCEPT ![i] = "changed"]
    /\ UNCHANGED <<mode, hbdomain, smvars, fhvars, views, hbcall>>

(* hb_degraded and sf_degraded are assigned, not accumulated, in a loop    *)
(* over the indices: the highest lost one decides.                         *)
Degraded(i, last, now) == last \ now # {} /\ Max(last \ now) \in liveset[i]

(* The phases whose rounds a new request is taken to be covered by. *)
Covering == {"FHREADY", "FH1", "FH1DONE", "FH2", "FH2DONE"}

(* Mutant: a host has to be lost on both media. *)
start_fh_both(i, call) ==
    /\ last_hbdomain' = [last_hbdomain EXCEPT ![i] = hbdomain[i]]
    /\ last_sfdomain' = [last_sfdomain EXCEPT ![i] = sfdomain[i]]
    /\ LET wanted == \/ /\ Degraded(i, last_hbdomain[i], hbdomain[i])
                        /\ Degraded(i, last_sfdomain[i], sfdomain[i])
                     \/ call = "force" /\ phase[i] = "STARTED"
       IN  need_fh' = [need_fh EXCEPT ![i] = @ \/ (wanted /\ phase[i] \notin Covering)]

start_fh(i, call) ==
    /\ last_hbdomain' = [last_hbdomain EXCEPT ![i] = hbdomain[i]]
    /\ last_sfdomain' = [last_sfdomain EXCEPT ![i] = sfdomain[i]]
    /\ LET wanted == \/ Degraded(i, last_hbdomain[i], hbdomain[i])
                     \/ Degraded(i, last_sfdomain[i], sfdomain[i])
                     \/ call = "force" /\ phase[i] = "STARTED"
       IN  need_fh' = [need_fh EXCEPT ![i] = @ \/ (wanted /\ phase[i] \notin Covering)]

HbStartFh(i) ==
    /\ Up(i) /\ hbcall[i] # "none"
    /\ start_fh(i, hbcall[i])
    /\ hbcall' = [hbcall EXCEPT ![i] = "none"]
    /\ UNCHANGED <<mode, domains, smvars, views, sfcall>>

SfStartFh(i) ==
    /\ Up(i) /\ sfcall[i] # "none"
    /\ start_fh(i, sfcall[i])
    /\ sfcall' = [sfcall EXCEPT ![i] = "none"]
    /\ UNCHANGED <<mode, domains, smvars, views, hbcall>>

-----------------------------------------------------------------------------
(* The state manager thread: wait_fh_event() and fault_handler(). *)

wait_fh_event(i) ==
    /\ Up(i) /\ ~ join_block[i] /\ need_fh[i]
    /\ need_fh' = [need_fh EXCEPT ![i] = FALSE]
    /\ phase' = [phase EXCEPT ![i] = "FHREADY"]
    /\ join_block' = [join_block EXCEPT ![i] = TRUE]
    /\ UNCHANGED <<mode, domains, liveset, proposed, agreed, stable, last_hbdomain,
                   last_sfdomain, views, calls>>

(* Mutant: nobody is waited for who takes part in fault handling at all. *)
rendezvous_wait_joined(i) ==
    \A j \in (liveset[i] \cap hbdomain[i]) \ {i} :
        hbview[i][j].phase \notin {"STARTED", "STARTING"} \/ phase[i] \in {"FH4DONE", "STARTED"}

(* rendezvous_wait: everybody of the liveset I hear is in my phase or in   *)
(* the next one.  Round phase 2 the State-File has to say so as well.  (My *)
(* own entry follows when my next packet is sent and section written.)     *)
rendezvous_wait(i) ==
    LET here == {phase[i], NextPhase(phase[i])}
    IN  /\ \A j \in (liveset[i] \cap hbdomain[i]) \ {i} : hbview[i][j].phase \in here
        /\ phase[i] \in {"FH1DONE", "FH2"} =>
              \A j \in (liveset[i] \cap sfdomain[i]) \ {i} : sfview[i][j].phase \in here

InHandler(i, p) == Up(i) /\ join_block[i] /\ phase[i] = p

(* The rendezvous after which nothing but the phase changes.  (After the   *)
(* one of FH1 comes wait_until_HBSF_state_stable, a delay of at most T1    *)
(* and T2, and the weight is committed.)                                   *)
Advance(i) ==
    /\ \E p \in {"FHREADY", "FH1", "FH1DONE", "FH2DONE", "FH3DONE", "FH4DONE"} : InHandler(i, p)
    /\ rendezvous_wait(i)
    /\ phase' = [phase EXCEPT ![i] = NextPhase(@)]
    /\ UNCHANGED <<mode, domains, liveset, proposed, join_block, agreed, stable, fhvars, views, calls>>

(* wait_until_all_hosts_have_consistent_view: the test of the loop. *)
Consistent(i) ==
    LET here(d) == d \cap liveset[i]
    IN  \A j \in liveset[i] \ {i} :
            /\ j \in hbdomain[i] => /\ here(hbdomain[i]) = here(hbview[i][j].hb)
                                    /\ here(sfdomain[i]) = here(hbview[i][j].sf)
            /\ j \in sfdomain[i] => /\ here(sfdomain[i]) = here(sfview[i][j].sf)
                                    /\ here(hbdomain[i]) = here(sfview[i][j].hb)

Agree(i) ==
    /\ InHandler(i, "FH2") /\ ~ agreed[i] /\ rendezvous_wait(i)
    /\ Consistent(i)
    /\ agreed' = [agreed EXCEPT ![i] = TRUE]
    /\ UNCHANGED <<mode, domains, phase, liveset, proposed, join_block, stable, fhvars, views, calls>>

(* The first survival rule on the objects as they are when copied; all     *)
(* hosts have the same weight.                                             *)
Wins(i) ==
    LET Size(j) == IF j \notin sfdomain[i] THEN 0
                   ELSE IF j = i THEN Cardinality(sfdomain[i] \cap hbdomain[i])
                   ELSE Cardinality(sfview[i][j].sf \cap sfview[i][j].hb)
        winner == CHOOSE w \in Host : \A k \in Host :
                     IF k < w THEN Size(k) < Size(w) ELSE Size(k) <= Size(w)
    IN  \/ sfdomain[i] \cap liveset[i] # {} /\ sfdomain[i] \cap liveset[i] \subseteq hbdomain[i]
        \/ winner = i /\ Size(i) > 0
        \/ i \in sfview[i][winner].sf \cap sfview[i][winner].hb /\ winner \in sfdomain[i] \cap hbdomain[i]

(* The loop has been left and the locks let go; now the objects are copied *)
(* to stable_hb and stable_sf, on which test_Survival_Rule will decide.    *)
Snapshot(i) ==
    /\ InHandler(i, "FH2") /\ agreed[i]
    /\ stable' = [stable EXCEPT ![i] = [hb |-> hbdomain[i], sf |-> sfdomain[i], wins |-> Wins(i)]]
    /\ agreed' = [agreed EXCEPT ![i] = FALSE]
    /\ phase' = [phase EXCEPT ![i] = "FH2DONE"]
    /\ UNCHANGED <<mode, domains, liveset, proposed, join_block, fhvars, views, calls>>

(* test_Survival_Rule, won: the copies become the last domains, and hosts  *)
(* missing in them are out of the proposal and of the domains.             *)
Survive(i) ==
    /\ InHandler(i, "FH3") /\ rendezvous_wait(i) /\ stable[i].wins
    /\ LET kept == stable[i].hb \cap stable[i].sf \cap liveset[i]
       IN  /\ proposed' = [proposed EXCEPT ![i] = @ \cap kept]
           /\ hbdomain' = [hbdomain EXCEPT ![i] = @ \cap kept]
           /\ sfdomain' = [sfdomain EXCEPT ![i] = @ \cap kept]
    /\ last_hbdomain' = [last_hbdomain EXCEPT ![i] = stable[i].hb]
    /\ last_sfdomain' = [last_sfdomain EXCEPT ![i] = stable[i].sf]
    /\ stable' = [stable EXCEPT ![i] = NoCopy]
    /\ phase' = [phase EXCEPT ![i] = "FH3DONE"]
    /\ UNCHANGED <<mode, liveset, join_block, agreed, need_fh, views, calls>>

(* A host stops.  Its section stays on the disk; what it knew is lost. *)
Stop(k) ==
    /\ mode' = [mode EXCEPT ![k] = "dead"]
    /\ liveset' = [liveset EXCEPT ![k] = {}]
    /\ proposed' = [proposed EXCEPT ![k] = {}]
    /\ join_block' = [join_block EXCEPT ![k] = FALSE]
    /\ agreed' = [agreed EXCEPT ![k] = FALSE]
    /\ stable' = [stable EXCEPT ![k] = NoCopy]
    /\ need_fh' = [need_fh EXCEPT ![k] = FALSE]
    /\ last_hbdomain' = [last_hbdomain EXCEPT ![k] = {}]
    /\ last_sfdomain' = [last_sfdomain EXCEPT ![k] = {}]
    /\ hbview' = [hbview EXCEPT ![k] = [j \in Host |-> NoReport]]
    /\ sfview' = [sfview EXCEPT ![k] = [j \in Host |-> NoReport]]
    /\ hbcall' = [hbcall EXCEPT ![k] = "none"]
    /\ sfcall' = [sfcall EXCEPT ![k] = "none"]
    /\ UNCHANGED <<phase, domains>>

(* test_Survival_Rule, lost: the host fences itself. *)
self_fence(i) ==
    /\ InHandler(i, "FH3") /\ rendezvous_wait(i) /\ ~ stable[i].wins
    /\ Stop(i)

(* The sleep until lost hosts have fenced themselves, and the new liveset. *)
UpdateLiveset(i) ==
    /\ InHandler(i, "FH4") /\ rendezvous_wait(i)
    /\ liveset' = [liveset EXCEPT ![i] = @ \cap proposed[i]]
    /\ phase' = [phase EXCEPT ![i] = "FH4DONE"]
    /\ UNCHANGED <<mode, domains, proposed, join_block, agreed, stable, fhvars, views, calls>>

EndFaultHandler(i) ==
    /\ InHandler(i, "STARTED") /\ rendezvous_wait(i)
    /\ join_block' = [join_block EXCEPT ![i] = FALSE]
    /\ UNCHANGED <<mode, domains, phase, liveset, proposed, agreed, stable, fhvars, views, calls>>

-----------------------------------------------------------------------------
Crash(k) ==
    /\ k \in Crashable /\ mode[k] # "dead"
    /\ Stop(k)

(* A daemon that starts hears nobody yet and is in no liveset. *)
Restart(k) ==
    /\ k \in Restartable /\ mode[k] = "dead"
    /\ mode' = [mode EXCEPT ![k] = "starting"]
    /\ phase' = [phase EXCEPT ![k] = "STARTING"]
    /\ hbdomain' = [hbdomain EXCEPT ![k] = {k}]
    /\ sfdomain' = [sfdomain EXCEPT ![k] = {}]
    /\ UNCHANGED <<liveset, proposed, join_block, agreed, stable, fhvars, views, calls>>

-----------------------------------------------------------------------------
HbThread(i) == update_hbdomain(i) \/ HbStartFh(i)
WorkerThread(i) == update_sfdomain(i) \/ SfStartFh(i)
Joining(i) == update_hbdomain_join(i) \/ update_sfdomain_join(i)

SmThread(i) ==
    \/ wait_fh_event(i) \/ Advance(i) \/ Agree(i) \/ Snapshot(i) \/ Survive(i)
    \/ self_fence(i) \/ UpdateLiveset(i) \/ EndFaultHandler(i)

(* Nothing is left to handle.  (A host that waits at a rendezvous is not   *)
(* quiet: when everybody waits TLC reports a deadlock.)                    *)
Quiet == (\A i \in Host : ~ join_block[i] /\ ~ need_fh[i]) /\ UNCHANGED vars

Next ==
    \/ Quiet
    \/ \E i \in Host : HbThread(i) \/ WorkerThread(i) \/ Joining(i) \/ SmThread(i)
    \/ \E i \in Host : readsf(i) \/ \E j \in Host : HbReceive(i, j)
    \/ \E k \in Host : Crash(k) \/ Restart(k)

Spec == Init /\ [][Next]_vars

(* Threads are scheduled, heartbeats and sections get through, and silence *)
(* ends in a timeout.  Neither stops nor restarts are promised.            *)
Fairness ==
    /\ \A i \in Host : WF_vars(HbThread(i)) /\ WF_vars(WorkerThread(i)) /\ WF_vars(SmThread(i))
    /\ \A i \in Host : WF_vars(readsf(i)) /\ \A j \in Host : WF_vars(HbReceive(i, j))

FairSpec == Spec /\ Fairness
-----------------------------------------------------------------------------
(* The values the SM, HB and SF objects and the thread states can have. *)
TypeOK ==
    /\ mode \in [Host -> {"up", "dead", "starting"}] /\ phase \in [Host -> Phase]
    /\ hbdomain \in [Host -> SUBSET Host] /\ sfdomain \in [Host -> SUBSET Host]
    /\ liveset \in [Host -> SUBSET Host] /\ proposed \in [Host -> SUBSET Host]
    /\ need_fh \in [Host -> BOOLEAN] /\ join_block \in [Host -> BOOLEAN]
    /\ last_hbdomain \in [Host -> SUBSET Host] /\ last_sfdomain \in [Host -> SUBSET Host]
    /\ agreed \in [Host -> BOOLEAN]
    /\ stable \in [Host -> [hb : SUBSET Host, sf : SUBSET Host, wins : BOOLEAN]]
    /\ hbview \in [Host -> [Host -> Reports]] /\ sfview \in [Host -> [Host -> Reports]]
    /\ hbcall \in [Host -> {"none", "changed", "force"}]
    /\ sfcall \in [Host -> {"none", "changed"}]

(* Two running hosts that count each other in are never more than one      *)
(* phase apart: what the rendezvous of fault_handler() are for.            *)
InStep ==
    \A i, j \in Host :
        Up(i) /\ Up(j) /\ j \in liveset[i] \cap hbdomain[i] /\ i \in liveset[j] \cap hbdomain[j] =>
            phase[i] = phase[j] \/ phase[i] = NextPhase(phase[j]) \/ phase[j] = NextPhase(phase[i])

(* The view that is copied when fault_handler() leaves phase 2, and that   *)
(* the survival rule decides on, is one all hosts agree on.                *)
ViewTakenConsistent ==
    [][\A i \in Host : phase[i] = "FH2" /\ phase'[i] = "FH2DONE" => Consistent(i)]_vars

(* A host in the liveset that is no longer heard on either medium is being *)
(* dealt with: the fault handler runs, or it has been or is about to be    *)
(* asked for.                                                              *)
NotForgotten ==
    \A i \in Host : Up(i) /\ ~ liveset[i] \subseteq hbdomain[i] \cup sfdomain[i] =>
        \/ join_block[i] \/ need_fh[i] \/ hbcall[i] # "none" \/ sfcall[i] # "none"

(* A single loss is never overlooked: a request that start_fh() takes as   *)
(* covered by the round under way is about the host that round removes.    *)
SingleLossHandled == Cardinality({k \in Host : ~ Up(k)}) <= 1 => NotForgotten

(* A host that stopped leaves the livesets of the running hosts. *)
DeadRemoved ==
    \A i, k \in Host : (Up(i) /\ ~ Up(k)) ~> (~ Up(i) \/ k \notin liveset[i])
=============================================================================
