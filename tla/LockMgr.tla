------------------------------ MODULE LockMgr ------------------------------
(***************************************************************************)
(* The distributed lock of the HA daemon (daemon/lock_mgr.c), by which the *)
(* hosts of a pool elect their master, together with the exchange of the   *)
(* lock fields through the State-File (daemon/statefile.c) it runs on.     *)
(*                                                                         *)
(* Hosts are the configured indices 0..N-1; a lower index has the higher   *)
(* priority.  Each host owns a request flag and a map of the hosts it      *)
(* grants the lock to.  Its State-File thread writes them to the host's    *)
(* section and reads the sections of the others, one at a time, with other *)
(* hosts running in between; its lock manager thread answers what it last  *)
(* read; its script service thread runs propose_master and cancel_master.  *)
(***************************************************************************)
EXTENDS Naturals, FiniteSets

CONSTANTS
    N,             \* number of configured hosts (_num_host)
    Proposers,     \* hosts whose toolstack calls propose_master
    Cancellers,    \* hosts whose toolstack calls cancel_master
    Crashable,     \* hosts that may be fenced, crash or stop their daemon
    Patient,       \* whether toolstacks let a withdrawn request settle
    MaxIoErrors    \* bound: State-File cycles that fail, over all hosts

Host == 0 .. N - 1

ASSUME ConstAssumption ==
    /\ N \in Nat \ {0}
    /\ Proposers \subseteq Host
    /\ Cancellers \subseteq Host
    /\ Crashable \subseteq Host
    /\ Patient \in BOOLEAN
    /\ MaxIoErrors \in Nat

(* The lock fields of one host: a request flag and a grant host map. *)
Fields == [request : BOOLEAN, grant : SUBSET Host]

VARIABLES
    lm,                  \* lm[i][j]: psf->lm[j] in the SF object of host i
    statefile,           \* statefile[j]: lock fields in j's section on disk
    section,             \* section[i][j]: StateFile.host[j], i's I/O buffer
    toread,              \* toread[i]: sections this cycle has still to read
    sfpc,                \* sfpc[i]: where the State-File thread is
    read_once,           \* read_once[i]: local of sfthread
    sf_access,           \* sf_access[i]: psf->SF_access
    liveset,             \* liveset[i]: psm->current_liveset
    pending_request,     \* lmvar.pending_request
    cancel_request,      \* lmvar.cancel_request
    first_cleanup_done,  \* lmvar.first_cleanup_done
    lm_past_test,        \* the lock manager thread tested SF_access before it was lost
    scpc,                \* scpc[i]: where the script service thread is
    accepted,            \* accepted[i]: the toolstack of i was told TRUE
    up,                  \* up[i]: the host runs
    ioerrors             \* State-File errors so far

sfvars == <<statefile, section, toread, sfpc, read_once, ioerrors>>
lmvars == <<pending_request, cancel_request, first_cleanup_done, lm_past_test>>
scvars == <<scpc, accepted>>
smvars == <<liveset, up>>
vars == <<lm, sf_access, sfvars, lmvars, scvars, smvars>>

-----------------------------------------------------------------------------
(* What the lock manager of host i reads off its copies lmvar.sf and       *)
(* lmvar.sm.  The copies are refreshed by callbacks under the writer locks *)
(* of the objects, so they are the objects' values in every step below.    *)

is_online(i, j) == j \in liveset[i]

(* Host j has the lock in the view of host i. *)
is_locked(i, j) ==
    /\ is_online(i, j)
    /\ \A k \in liveset[i] : j \in lm[i][k].grant

nobody_locked(i) == \A j \in Host : ~ is_locked(i, j)

(* get_lock_node() returns the lowest index that has the lock: is it j? *)
get_lock_node_is(i, j) ==
    is_locked(i, j) /\ \A k \in Host : k < j => ~ is_locked(i, k)

is_requesting(i) == pending_request[i] \/ lm[i][i].request

(* Mutant: the grants given to lower priority hosts are not looked at. *)
am_i_ready_regardless(i) == \A j \in liveset[i] : i \notin lm[i][j].grant

(* My last cancellation was processed, and I grant no lower priority host. *)
am_i_ready_to_request(i) ==
    /\ \A j \in liveset[i] : i \notin lm[i][j].grant
    /\ \A j \in liveset[i] : j > i => j \notin lm[i][i].grant

-----------------------------------------------------------------------------
(* lm_initialize_lm_fields: a daemon starts granting everybody, so that it *)
(* disturbs no lock held when it joins.  The model starts when every host  *)
(* has booted, has written its section and has read the others', the       *)
(* condition for forming the first liveset.                                *)
InitFields == [request |-> FALSE, grant |-> Host]

Init ==
    /\ lm = [i \in Host |-> [j \in Host |-> InitFields]]
    /\ statefile = [j \in Host |-> InitFields]
    /\ section = [i \in Host |-> [j \in Host |-> InitFields]]
    /\ toread = [i \in Host |-> {}]
    /\ sfpc = [i \in Host |-> "cycle"]
    /\ read_once = [i \in Host |-> TRUE]
    /\ sf_access = [i \in Host |-> TRUE]
    /\ liveset = [i \in Host |-> {}]
    /\ pending_request = [i \in Host |-> FALSE]
    /\ cancel_request = [i \in Host |-> FALSE]
    /\ first_cleanup_done = [i \in Host |-> FALSE]
    /\ lm_past_test = [i \in Host |-> FALSE]
    /\ scpc = [i \in Host |-> "idle"]
    /\ accepted = [i \in Host |-> FALSE]
    /\ up = [i \in Host |-> TRUE]
    /\ ioerrors = 0

-----------------------------------------------------------------------------
(* The State-File thread.  A cycle writes the host's section, reads the    *)
(* sections of the others and publishes what it read.                      *)

StartRead(i) ==
    /\ sfpc' = [sfpc EXCEPT ![i] = "read"]
    /\ toread' = [toread EXCEPT ![i] = Host \ {i}]

(* write_hostspecific: the lock fields of the host go to its section.  The *)
(* copy to the I/O buffer and the write are one step: in between the       *)
(* thread takes nothing from the other hosts and shows them nothing.       *)
write_hostspecific(i) ==
    /\ up[i] /\ sfpc[i] = "cycle" /\ read_once[i]
    /\ statefile' = [statefile EXCEPT ![i] = lm[i][i]]
    /\ StartRead(i)
    /\ UNCHANGED <<lm, sf_access, section, read_once, ioerrors, lmvars, scvars, smvars>>

(* The State-File is lost.  The lock manager thread tests SF_access, lets  *)
(* its mutex go and only then takes the writer lock for its pass: it may   *)
(* be past the test by now.                                                *)
LoseAccess(i) ==
    /\ ioerrors < MaxIoErrors /\ ioerrors' = ioerrors + 1
    /\ sf_access' = [sf_access EXCEPT ![i] = FALSE]
    /\ \E past \in BOOLEAN :
          lm_past_test' = [lm_past_test EXCEPT ![i] = past /\ (@ \/ sf_access[i])]
    /\ UNCHANGED <<lm, section, pending_request, cancel_request, first_cleanup_done, scvars, smvars>>

(* A write that is reported as failed may have reached the disk. *)
write_hostspecific_failed(i) ==
    /\ up[i] /\ sfpc[i] = "cycle" /\ read_once[i]
    /\ LoseAccess(i)
    /\ \/ UNCHANGED statefile
       \/ statefile' = [statefile EXCEPT ![i] = lm[i][i]]
    /\ StartRead(i)
    /\ UNCHANGED read_once

(* Without a good read since the last failure the cycle writes nothing. *)
SfSkipWrite(i) ==
    /\ up[i] /\ sfpc[i] = "cycle" /\ ~ read_once[i]
    /\ StartRead(i)
    /\ UNCHANGED <<lm, sf_access, statefile, section, read_once, ioerrors, lmvars, scvars, smvars>>

(* readsf: the sections are read one by one; a section whose read fails is *)
(* retried on the next attempt, so that any order can occur.               *)
SfRead(i, j) ==
    /\ up[i] /\ sfpc[i] = "read" /\ j \in toread[i]
    /\ section' = [section EXCEPT ![i][j] = statefile[j]]
    /\ toread' = [toread EXCEPT ![i] = @ \ {j}]
    /\ UNCHANGED <<lm, sf_access, statefile, sfpc, read_once, ioerrors, lmvars, scvars, smvars>>

(* Every section was read: publish the fields of the other hosts.  When a  *)
(* write of the global section was pending the thread does that next, and  *)
(* leaves read_once as it was.                                             *)
SfPublish(i) ==
    /\ up[i] /\ sfpc[i] = "read" /\ toread[i] = {}
    /\ lm' = [lm EXCEPT ![i] = [j \in Host |-> IF j = i THEN lm[i][i] ELSE section[i][j]]]
    /\ sf_access' = [sf_access EXCEPT ![i] = TRUE]
    /\ \E pending_write \in BOOLEAN :
          read_once' = [read_once EXCEPT ![i] = @ \/ ~ pending_write]
    /\ lm_past_test' = [lm_past_test EXCEPT ![i] = FALSE]
    /\ sfpc' = [sfpc EXCEPT ![i] = "cycle"]
    /\ UNCHANGED <<statefile, section, toread, ioerrors, pending_request, cancel_request,
                   first_cleanup_done, scvars, smvars>>

(* Mutant: a failed cycle forgets what the other hosts published before. *)
readsf_failed_forget(i) ==
    /\ up[i] /\ sfpc[i] = "read" /\ toread[i] = Host \ {i}
    /\ ioerrors < MaxIoErrors /\ ioerrors' = ioerrors + 1
    /\ lm' = [lm EXCEPT ![i] = [j \in Host |-> IF j = i THEN @[j] ELSE [request |-> FALSE, grant |-> {}]]]
    /\ sf_access' = [sf_access EXCEPT ![i] = FALSE]
    /\ read_once' = [read_once EXCEPT ![i] = FALSE]
    /\ sfpc' = [sfpc EXCEPT ![i] = "cycle"]
    /\ toread' = [toread EXCEPT ![i] = {}]
    /\ UNCHANGED <<statefile, section, lmvars, scvars, smvars>>

(* Every attempt failed: nothing read in this cycle is published, so that  *)
(* the failure may as well come before the first section is read.          *)
readsf_failed(i) ==
    /\ up[i] /\ sfpc[i] = "read" /\ toread[i] = Host \ {i}
    /\ LoseAccess(i)
    /\ read_once' = [read_once EXCEPT ![i] = FALSE]
    /\ sfpc' = [sfpc EXCEPT ![i] = "cycle"]
    /\ toread' = [toread EXCEPT ![i] = {}]
    /\ UNCHANGED statefile

-----------------------------------------------------------------------------
(* The lock manager thread. *)

(* The hosts whose request host i sees and may answer. *)
Requesters(i) == {j \in liveset[i] : lm[i][j].request}

(* The request flag of i after a pass: raised for a pending request when i *)
(* is ready, lowered by a cancel.                                          *)
PassRequest(i) ==
    /\ ~ cancel_request[i]
    /\ lm[i][i].request \/ (pending_request[i] /\ am_i_ready_to_request(i))

(* Mutant: nobody grants itself. *)
PassGrantOthers(i) ==
    {j \in Requesters(i) : j \in lm[i][i].grant \/ ~ PassRequest(i) \/ i > j}

(* The grants of i after a pass: those of hosts that no longer request are *)
(* withdrawn; requesters are granted unless i itself requests with a       *)
(* higher priority.                                                        *)
PassGrant(i) ==
    {j \in Requesters(i) : j \in lm[i][i].grant \/ ~ PassRequest(i) \/ i >= j}

(* Mutant: a cancel is acknowledged only when there is a request to drop. *)
lock_mgr_lazy_cancel(i) ==
    /\ up[i] /\ is_online(i, i) /\ (sf_access[i] \/ lm_past_test[i])
    /\ lm' = [lm EXCEPT ![i][i] = [request |-> PassRequest(i), grant |-> PassGrant(i)]]
    /\ pending_request' = [pending_request EXCEPT
          ![i] = @ /\ ~ am_i_ready_to_request(i) /\ ~ cancel_request[i]]
    /\ cancel_request' = [cancel_request EXCEPT ![i] = @ /\ ~ lm[i][i].request]
    /\ first_cleanup_done' = [first_cleanup_done EXCEPT ![i] = TRUE]
    /\ lm_past_test' = [lm_past_test EXCEPT ![i] = FALSE]
    /\ UNCHANGED <<sf_access, sfvars, scvars, smvars>>

lock_mgr(i) ==
    /\ up[i] /\ is_online(i, i) /\ (sf_access[i] \/ lm_past_test[i])
    /\ lm' = [lm EXCEPT ![i][i] = [request |-> PassRequest(i), grant |-> PassGrant(i)]]
    /\ pending_request' = [pending_request EXCEPT
          ![i] = @ /\ ~ am_i_ready_to_request(i) /\ ~ cancel_request[i]]
    /\ cancel_request' = [cancel_request EXCEPT ![i] = FALSE]
    /\ first_cleanup_done' = [first_cleanup_done EXCEPT ![i] = TRUE]
    /\ lm_past_test' = [lm_past_test EXCEPT ![i] = FALSE]
    /\ UNCHANGED <<sf_access, sfvars, scvars, smvars>>

-----------------------------------------------------------------------------
(* The script service thread: one call at a time on each host. *)

(* lm_request_lock returns; mine says whether the index it found is its    *)
(* own one.                                                                *)
Return(i, mine) ==
    /\ scpc' = [scpc EXCEPT ![i] = "idle"]
    /\ accepted' = [accepted EXCEPT ![i] = mine]

(* The earlier request of i, if any, is withdrawn and seen withdrawn by    *)
(* the hosts of its liveset, and a grant to i that is still on its way is  *)
(* one that i already sees.                                                *)
Withdrawn(i) ==
    /\ ~ lm[i][i].request /\ i \notin lm[i][i].grant /\ ~ statefile[i].request
    /\ \A k \in liveset[i] \ {i} :
          /\ ~ section[k][i].request /\ ~ lm[k][i].request
          /\ i \in lm[k][k].grant => i \in statefile[k].grant
          /\ i \in statefile[k].grant => i \in section[i][k].grant
          /\ i \in section[i][k].grant => i \in lm[i][k].grant

Settled(i) == Withdrawn(i) /\ ~ pending_request[i] /\ ~ cancel_request[i]

(* script_service_do_propose_master on a host in the ONLINE state, and     *)
(* lm_request_lock once the first cleanup is done: has someone locked?     *)
ProposeMaster(i) ==
    /\ up[i] /\ scpc[i] = "idle" /\ i \in Proposers
    /\ is_online(i, i) /\ first_cleanup_done[i]
    /\ Patient => Settled(i) \/ accepted[i]
    /\ \/ /\ ~ nobody_locked(i)
          /\ Return(i, get_lock_node_is(i, i))
       \/ /\ nobody_locked(i)
          /\ scpc' = [scpc EXCEPT ![i] = "request"]
          /\ UNCHANGED accepted
    /\ UNCHANGED <<lm, sf_access, sfvars, lmvars, smvars>>

LockRequest(i) ==
    /\ up[i] /\ scpc[i] = "request"
    /\ pending_request' = [pending_request EXCEPT ![i] = TRUE]
    /\ scpc' = [scpc EXCEPT ![i] = "check"]
    /\ UNCHANGED <<lm, sf_access, sfvars, cancel_request, first_cleanup_done, lm_past_test, accepted, smvars>>

(* Mutant: the loser's request is left standing. *)
LockLeaveStanding(i, mine) ==
    /\ Return(i, mine)
    /\ UNCHANGED <<lm, sf_access, sfvars, lmvars, smvars>>

(* The loop is left: TRUE, or withdraw the request and FALSE. *)
LockLeave(i, mine) ==
    /\ Return(i, mine)
    /\ cancel_request' = [cancel_request EXCEPT ![i] = @ \/ ~ mine]
    /\ UNCHANGED <<lm, sf_access, sfvars, pending_request, first_cleanup_done, lm_past_test, smvars>>

(* The first test of the loop, before any wait. *)
LockCheck(i) ==
    /\ up[i] /\ scpc[i] = "check"
    /\ \/ /\ ~ nobody_locked(i)
          /\ LockLeave(i, get_lock_node_is(i, i))
       \/ /\ nobody_locked(i)
          /\ scpc' = [scpc EXCEPT ![i] = "wait"]
          /\ UNCHANGED <<lm, sf_access, sfvars, lmvars, accepted, smvars>>

(* Woken: a cancelled request or a lost State-File ends the loop before    *)
(* the holder is looked up again.                                          *)
LockWoken(i) ==
    /\ up[i] /\ scpc[i] = "wait"
    /\ \/ /\ ~ is_requesting(i) \/ ~ sf_access[i]
          /\ LockLeave(i, FALSE)
       \/ /\ is_requesting(i) /\ sf_access[i]
          /\ ~ nobody_locked(i)
          /\ LockLeave(i, get_lock_node_is(i, i))

(* script_service_do_cancel_master and lm_cancel_lock: the toolstack gives *)
(* the role up when it calls.                                              *)
CancelMaster(i) ==
    /\ up[i] /\ scpc[i] = "idle" /\ is_online(i, i) /\ i \in Cancellers
    /\ cancel_request' = [cancel_request EXCEPT ![i] = TRUE]
    /\ scpc' = [scpc EXCEPT ![i] = "cancel"]
    /\ accepted' = [accepted EXCEPT ![i] = FALSE]
    /\ UNCHANGED <<lm, sf_access, sfvars, pending_request, first_cleanup_done, lm_past_test, smvars>>

CancelAcknowledged(i) ==
    /\ up[i] /\ scpc[i] = "cancel" /\ ~ cancel_request[i]
    /\ scpc' = [scpc EXCEPT ![i] = "idle"]
    /\ UNCHANGED <<lm, sf_access, sfvars, lmvars, accepted, smvars>>

-----------------------------------------------------------------------------
(* What the state manager does to the lock: it forms the liveset, and      *)
(* removes from it hosts that have been fenced (the fault handler sleeps   *)
(* until the watchdogs of a lost host have expired).                       *)

form_new_liveset(i) ==
    /\ up[i] /\ liveset[i] = {} /\ sf_access[i]
    /\ liveset' = [liveset EXCEPT ![i] = Host]
    /\ UNCHANGED <<lm, sf_access, sfvars, lmvars, scvars, up>>

Down(i) == {j \in liveset[i] : ~ up[j]}

(* Mutant: a lost host is dropped before it is known to be fenced. *)
FaultHandlerDropEarly(i) ==
    /\ up[i]
    /\ \E gone \in (SUBSET (liveset[i] \ {i})) \ {{}} :
          liveset' = [liveset EXCEPT ![i] = @ \ gone]
    /\ UNCHANGED <<lm, sf_access, sfvars, lmvars, scvars, up>>

FaultHandlerDrop(i) ==
    /\ up[i]
    /\ \E gone \in (SUBSET Down(i)) \ {{}} :
          liveset' = [liveset EXCEPT ![i] = @ \ gone]
    /\ UNCHANGED <<lm, sf_access, sfvars, lmvars, scvars, up>>

(* The host is fenced or its daemon ends; its section stays as it is. *)
Crash(i) ==
    /\ up[i] /\ i \in Crashable
    /\ up' = [up EXCEPT ![i] = FALSE]
    /\ accepted' = [accepted EXCEPT ![i] = FALSE]
    /\ UNCHANGED <<lm, sf_access, sfvars, lmvars, scpc, liveset>>

-----------------------------------------------------------------------------
SfThread(i) ==
    \/ write_hostspecific(i) \/ SfSkipWrite(i)
    \/ (\E j \in Host : SfRead(i, j)) \/ SfPublish(i)

SfError(i) == write_hostspecific_failed(i) \/ readsf_failed(i)

(* Steps the script service takes by itself once it was called. *)
ScThread(i) ==
    \/ LockRequest(i) \/ LockCheck(i) \/ LockWoken(i)
    \/ CancelAcknowledged(i)

SmThread(i) == form_new_liveset(i) \/ FaultHandlerDrop(i)

Next ==
    \E i \in Host :
        \/ SfThread(i) \/ SfError(i) \/ lock_mgr(i) \/ ScThread(i)
        \/ ProposeMaster(i) \/ CancelMaster(i)
        \/ SmThread(i) \/ Crash(i)

Spec == Init /\ [][Next]_vars

(* The threads of a running host are scheduled, and the State-File thread  *)
(* wakes the lock manager in every cycle.  A write of the global section   *)
(* is not pending in every cycle for ever: only a call of the toolstack or *)
(* a new master makes one pending.  Calls of the toolstack, I/O errors and *)
(* crashes are not promised.                                               *)
Fairness ==
    \A i \in Host :
        /\ WF_vars(SfThread(i)) /\ WF_vars(lock_mgr(i)) /\ WF_vars(ScThread(i))
        /\ WF_vars(SmThread(i))
        /\ SF_vars(SfPublish(i) /\ read_once'[i])

FairSpec == Spec /\ Fairness

-----------------------------------------------------------------------------
(* The values the fields of the SF and SM objects, of lmvar and of the     *)
(* thread states can have.                                                 *)
TypeOK ==
    /\ lm \in [Host -> [Host -> Fields]]
    /\ statefile \in [Host -> Fields]
    /\ section \in [Host -> [Host -> Fields]]
    /\ toread \in [Host -> SUBSET Host]
    /\ sfpc \in [Host -> {"cycle", "read"}]
    /\ read_once \in [Host -> BOOLEAN]
    /\ sf_access \in [Host -> BOOLEAN]
    /\ liveset \in [Host -> SUBSET Host]
    /\ pending_request \in [Host -> BOOLEAN]
    /\ cancel_request \in [Host -> BOOLEAN]
    /\ first_cleanup_done \in [Host -> BOOLEAN]
    /\ lm_past_test \in [Host -> BOOLEAN]
    /\ scpc \in [Host -> {"idle", "request", "check", "wait", "cancel"}]
    /\ accepted \in [Host -> BOOLEAN]
    /\ up \in [Host -> BOOLEAN]
    /\ ioerrors \in 0 .. MaxIoErrors

(* Host i holds the lock: it requests it, and all hosts of its liveset     *)
(* grant it as far as i sees.                                              *)
Holds(i) == up[i] /\ lm[i][i].request /\ is_locked(i, i)

(* At most one running host holds the lock: what the exchange of request   *)
(* and grant flags in lock_mgr() is for.                                   *)
LockExclusive == \A i, j \in Host : Holds(i) /\ Holds(j) => i = j

(* At most one running host was told by lm_request_lock() that it is the   *)
(* master and has not given the role up since.                             *)
MasterExclusive == \A i, j \in Host : accepted[i] /\ accepted[j] => i = j

(* A host that holds the lock keeps it, whatever the others publish and    *)
(* whoever leaves the liveset, until it cancels its own request or dies:   *)
(* no stale section makes a holder lose the lock behind its back.          *)
LockStable ==
    [][\A i \in Host : Holds(i) => Holds(i)' \/ cancel_request[i] \/ ~ up'[i]]_vars

(* A call of propose_master or cancel_master returns: the wait loops of    *)
(* lm_request_lock() and lm_cancel_lock() end.                             *)
CallsReturn == \A i \in Host : scpc[i] # "idle" ~> scpc[i] = "idle" \/ ~ up[i]

(* When hosts compete for the lock one of them gets it, as long as no      *)
(* toolstack calls cancel_master, no access fails and nobody dies: the     *)
(* priorities break the tie, and the withdrawals that lm_request_lock()    *)
(* leaves to the lock manager do not undo the election.                    *)
Elected ==
    [](\A i \in Host : up[i] /\ scpc[i] # "cancel" /\ ioerrors = 0) =>
        ((\E i \in Host : scpc[i] = "wait") ~> (\E i \in Host : accepted[i]))

-----------------------------------------------------------------------------
(* The parts of the inductive invariant behind LockExclusive,              *)
(* MasterExclusive and LockStable for patient toolstacks.                  *)

Proposing(i) == scpc[i] \in {"request", "check", "wait"}

(* No copy of a host's fields, wherever it is, shows a request next to a   *)
(* grant to a host of lower priority.                                      *)
GrantDiscipline ==
    \A i, a, b \in Host : a < b =>
        /\ lm[i][a].request => b \notin lm[i][a].grant
        /\ section[i][a].request => b \notin section[i][a].grant
        /\ statefile[a].request => b \notin statefile[a].grant

(* A formed liveset has every running host in it. *)
LivesetCoversUp ==
    \A i, j \in Host : liveset[i] # {} /\ up[j] => j \in liveset[i]

(* The lock is used only by hosts that formed their liveset. *)
UsersOnline ==
    \A i \in Host :
        lm[i][i].request \/ Proposing(i) \/ accepted[i] => liveset[i] # {}

(* What the script service and the lock manager of one host agree on. *)
CallerState(i) ==
    /\ Proposing(i) => ~ cancel_request[i]
    /\ scpc[i] = "request" => ~ lm[i][i].request
    /\ Proposing(i) /\ ~ lm[i][i].request => Withdrawn(i)
    /\ pending_request[i] /\ ~ cancel_request[i] =>
          scpc[i] \in {"check", "wait"} /\ ~ lm[i][i].request
    /\ accepted[i] =>
          /\ scpc[i] = "idle" /\ lm[i][i].request /\ is_locked(i, i)
          /\ ~ cancel_request[i] /\ ~ pending_request[i]

CallerStates == \A i \in Host : up[i] => CallerState(i)

DeadNotAccepted == \A i \in Host : accepted[i] => up[i]

(* A request of i travels from its section to k, the grant of k travels    *)
(* back: each stage that has seen it implies the stages before it.         *)
Chain(i, k) ==
    /\ i \in lm[i][k].grant => i \in section[i][k].grant
    /\ i \in section[i][k].grant => i \in statefile[k].grant
    /\ i \in statefile[k].grant => i \in lm[k][k].grant
    /\ i \in lm[k][k].grant => lm[k][i].request
    /\ lm[k][i].request => section[k][i].request
    /\ section[k][i].request => statefile[i].request

RequestChain ==
    \A i \in Host : up[i] /\ lm[i][i].request =>
        \A k \in liveset[i] \ {i} : Chain(i, k)

(* The inductive invariant of lock_mgr() and lm_request_lock() over the    *)
(* State-File: every conjunct is needed to carry the others over a step.   *)
LockInv ==
    /\ TypeOK /\ GrantDiscipline /\ LivesetCoversUp /\ UsersOnline
    /\ CallerStates /\ DeadNotAccepted /\ RequestChain

-----------------------------------------------------------------------------
(* What the toolstack of a host waits for, in the terms of MasterService. *)
CallOf(i) ==
    IF scpc[i] = "idle" THEN "none" ELSE IF scpc[i] = "cancel" THEN "cancel" ELSE "propose"

Service == INSTANCE MasterService WITH
    master <- {i \in Host : accepted[i]},
    call <- [i \in Host |-> CallOf(i)],
    running <- {i \in Host : up[i]}

(* The lock manager, the State-File threads and the script service of all  *)
(* hosts together implement the role of a single master that is won by an  *)
(* answer of lm_request_lock() and lost only by its holder's own doing:    *)
(* no stale section, no lost host and no lost access moves it.             *)
ImplementsService == Service!Spec
=============================================================================
