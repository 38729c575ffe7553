----------------------------- MODULE StateFile -----------------------------
(***************************************************************************)
(* The fields of the State-File that are set on request: the master and    *)
(* the pool state in the global section, which all hosts write, and the    *)
(* excluded flag in the section of each host (daemon/statefile.c,          *)
(* lib/statefileio.c), with the calls that set them: set_pool_state and    *)
(* set_excluded of the script service (daemon/sc_func.c), the new master   *)
(* of the lock manager and the start of the pool (daemon/sm.c).            *)
(*                                                                         *)
(* The setters change the SF object and note the change in modified_mask;  *)
(* the State-File thread carries it to the disk in its cycle.              *)
(***************************************************************************)
EXTENDS Naturals, FiniteSets

CONSTANTS
    N,             \* number of configured hosts
    PoolSetters,   \* hosts whose toolstack calls set_pool_state
    MasterSetters, \* hosts that acquire the lock of the lock manager
    Excluders,     \* hosts whose toolstack calls set_excluded or clear_excluded
    MaxIoErrors    \* bound: accesses of the State-File that fail, over all hosts

Host == 0 .. N - 1

ASSUME StateFileAssumption ==
    /\ N \in Nat \ {0} /\ MaxIoErrors \in Nat
    /\ PoolSetters \subseteq Host /\ MasterSetters \subseteq Host /\ Excluders \subseteq Host

PoolStates == {"init", "active", "invalid"}
Nobody == N
Global == [pool : PoolStates, master : Host \cup {Nobody}]

Calls == [kind : {"pool"}, value : PoolStates] \cup [kind : {"excluded"}, value : BOOLEAN]
NoCall == [kind |-> "none"]

VARIABLES
    disk,       \* the global section on the disk
    flag,       \* flag[j]: the excluded flag in the section of j on the disk
    listed,     \* listed[j]: j is in the current_liveset of its own section on the disk
    newseq,     \* newseq[i]: i's section was written since i last read it
    object,     \* object[i]: pool_state and master of the SF object
    excluded,   \* excluded[i]: i's own excluded flag in the SF object
    mask,       \* mask[i]: psf->modified_mask
    buffer,     \* buffer[i]: StateFile.global, the I/O buffer
    hbuffer,    \* hbuffer[i]: the excluded flag in StateFile.host[i]
    hlisted,    \* hlisted[i]: i is in the current_liveset of StateFile.host[i]
    repending,  \* repending[i]: excluded_pending_write, local
    toread,     \* toread[i]: the sections still to be read in this cycle
    sfpc,       \* sfpc[i]: where the State-File thread is
    read_once,  \* read_once[i]: local of sfthread
    sf_access,  \* psf->SF_access
    seen,       \* seen[i]: own section seen updated since the call began
    acked,      \* acked[i]: the same, published as time_last_SF
    call,       \* call[i]: the call the script service executes
    mode,       \* mode[i]: "starting", "formed" (the liveset), "started", "aborted" or "exited"
    ioerrors    \* failed accesses so far

sections == <<disk, flag, listed, newseq>>
obj == <<object, excluded, mask, sf_access>>
thread == <<buffer, hbuffer, hlisted, repending, toread, sfpc, read_once>>
clocks == <<seen, acked>>
vars == <<sections, obj, thread, clocks, call, mode, ioerrors>>

(* A pool that starts for the first time; every host has read the State-   *)
(* File and waits for the others.                                          *)
Init ==
    /\ disk = [pool |-> "init", master |-> Nobody]
    /\ flag = [i \in Host |-> FALSE]
    /\ listed = [i \in Host |-> FALSE]
    /\ newseq = [i \in Host |-> FALSE]
    /\ object = [i \in Host |-> disk]
    /\ excluded = flag
    /\ mask = [i \in Host |-> {}]
    /\ buffer = object
    /\ hbuffer = flag /\ hlisted = listed
    /\ repending = [i \in Host |-> FALSE]
    /\ toread = [i \in Host |-> {}]
    /\ sfpc = [i \in Host |-> "cycle"]
    /\ read_once = [i \in Host |-> TRUE]
    /\ sf_access = [i \in Host |-> TRUE]
    /\ seen = [i \in Host |-> FALSE]
    /\ acked = [i \in Host |-> FALSE]
    /\ call = [i \in Host |-> NoCall]
    /\ mode = [i \in Host |-> "starting"]
    /\ ioerrors = 0

-----------------------------------------------------------------------------
(* The State-File thread. *)

(* The thread runs; an aborted daemon ends the cycle it is in. *)
Running(i, pc) == mode[i] # "exited" /\ sfpc[i] = pc

IoError == ioerrors < MaxIoErrors /\ ioerrors' = ioerrors + 1

(* psm->current_liveset of i has i. *)
Member(i) == mode[i] \in {"formed", "started"}

(* One read of every section. *)
StartRead(i) ==
    /\ sfpc' = [sfpc EXCEPT ![i] = "read"]
    /\ toread' = [toread EXCEPT ![i] = {"global", "hosts"}]

(* write_hostspecific, under the locks: the flag and the liveset go to the *)
(* I/O buffer.                                                             *)
write_hostspecific(i) ==
    /\ Running(i, "cycle") /\ mode[i] # "aborted" /\ read_once[i]
    /\ hbuffer' = [hbuffer EXCEPT ![i] = excluded[i]]
    /\ hlisted' = [hlisted EXCEPT ![i] = Member(i)]
    /\ repending' = [repending EXCEPT ![i] = "excluded" \in mask[i]]
    /\ mask' = [mask EXCEPT ![i] = @ \ {"excluded"}]
    /\ sfpc' = [sfpc EXCEPT ![i] = "write"]
    /\ UNCHANGED <<sections, object, excluded, sf_access, buffer, toread, read_once, clocks, call, mode, ioerrors>>

SkipWrite(i) ==
    /\ Running(i, "cycle") /\ mode[i] # "aborted" /\ ~ read_once[i]
    /\ StartRead(i)
    /\ UNCHANGED <<sections, obj, buffer, hbuffer, hlisted, repending, read_once, clocks, call, mode, ioerrors>>

(* The section of i reaches the disk with a new sequence number. *)
WriteSection(i) ==
    /\ flag' = [flag EXCEPT ![i] = hbuffer[i]]
    /\ listed' = [listed EXCEPT ![i] = hlisted[i]]
    /\ newseq' = [newseq EXCEPT ![i] = TRUE]

sf_writehostspecific(i) ==
    /\ Running(i, "write")
    /\ WriteSection(i)
    /\ repending' = [repending EXCEPT ![i] = FALSE]
    /\ StartRead(i)
    /\ UNCHANGED <<disk, obj, buffer, hbuffer, hlisted, read_once, clocks, call, mode, ioerrors>>

(* Mutant: the pending change is not noted again. *)
sf_writehostspecific_forgets(i) ==
    /\ Running(i, "write") /\ IoError
    /\ sf_access' = [sf_access EXCEPT ![i] = FALSE]
    /\ StartRead(i)
    /\ UNCHANGED <<sections, object, excluded, mask, buffer, hbuffer, hlisted, repending, read_once, clocks,
                   call, mode>>

(* A write that is reported as failed may have reached the disk. *)
sf_writehostspecific_failed(i) ==
    /\ Running(i, "write") /\ IoError
    /\ WriteSection(i) \/ UNCHANGED <<flag, listed, newseq>>
    /\ mask' = [mask EXCEPT ![i] = @ \cup {f \in {"excluded"} : repending[i]}]
    /\ sf_access' = [sf_access EXCEPT ![i] = FALSE]
    /\ repending' = [repending EXCEPT ![i] = FALSE]
    /\ StartRead(i)
    /\ UNCHANGED <<disk, object, excluded, buffer, hbuffer, hlisted, read_once, clocks, call, mode>>

(* readsf.  A section whose read fails is tried again after the others.    *)
sf_readglobal(i) ==
    /\ Running(i, "read") /\ "global" \in toread[i]
    /\ buffer' = [buffer EXCEPT ![i] = disk]
    /\ toread' = [toread EXCEPT ![i] = @ \ {"global"}]
    /\ UNCHANGED <<sections, obj, hbuffer, hlisted, repending, sfpc, read_once, clocks, call, mode, ioerrors>>

(* The host's own section is read like the others; a new sequence number   *)
(* in it renews updateclock.                                               *)
sf_readhostspecific(i) ==
    /\ Running(i, "read") /\ "hosts" \in toread[i]
    /\ hbuffer' = [hbuffer EXCEPT ![i] = flag[i]]
    /\ hlisted' = [hlisted EXCEPT ![i] = listed[i]]
    /\ newseq' = [newseq EXCEPT ![i] = FALSE]
    /\ seen' = [seen EXCEPT ![i] = @ \/ (newseq[i] /\ call[i] # NoCall)]
    /\ toread' = [toread EXCEPT ![i] = @ \ {"hosts"}]
    /\ UNCHANGED <<disk, flag, listed, obj, buffer, repending, sfpc, read_once, acked, call, mode, ioerrors>>

(* All attempts failed: nothing is published. *)
readsf_failed(i) ==
    /\ Running(i, "read") /\ toread[i] # {} /\ IoError
    /\ sf_access' = [sf_access EXCEPT ![i] = FALSE]
    /\ read_once' = [read_once EXCEPT ![i] = FALSE]
    /\ toread' = [toread EXCEPT ![i] = {}]
    /\ sfpc' = [sfpc EXCEPT ![i] = "cycle"]
    /\ UNCHANGED <<sections, object, excluded, mask, buffer, hbuffer, hlisted, repending, clocks, call, mode>>

(* The global fields after a read: a modified one goes from the object to  *)
(* the buffer, any other one from the buffer to the object.  (Mutant: only *)
(* one modified field is looked at.)                                       *)
MergedFirst(i) ==
    [master |-> IF "master" \in mask[i] THEN object[i].master ELSE buffer[i].master,
     pool |-> IF "pool" \in mask[i] /\ "master" \notin mask[i] THEN object[i].pool ELSE buffer[i].pool]

Merged(i) ==
    [master |-> IF "master" \in mask[i] THEN object[i].master ELSE buffer[i].master,
     pool |-> IF "pool" \in mask[i] THEN object[i].pool ELSE buffer[i].pool]

(* Everything was read: publish it, and write the global section next when *)
(* a field of it was modified.  (read_once stays as it was in that case.)  *)
(* A member that its section does not list is taken for one that reboots:  *)
(* time_last_SF is not renewed, for the own host either.                   *)
readsf(i) ==
    /\ Running(i, "read") /\ toread[i] = {}
    /\ object' = [object EXCEPT ![i] = Merged(i)]
    /\ buffer' = [buffer EXCEPT ![i] = Merged(i)]
    /\ excluded' = [excluded EXCEPT ![i] = IF "excluded" \in mask[i] THEN @ ELSE hbuffer[i]]
    /\ mask' = [mask EXCEPT ![i] = @ \cap {"excluded"}]
    /\ sf_access' = [sf_access EXCEPT ![i] = TRUE]
    /\ acked' = [acked EXCEPT ![i] = IF Member(i) /\ ~ hlisted[i] THEN @ ELSE seen[i]]
    /\ LET pending_write == mask[i] \cap {"master", "pool"} # {}
       IN  /\ read_once' = [read_once EXCEPT ![i] = @ \/ ~ pending_write]
           /\ sfpc' = [sfpc EXCEPT ![i] = IF pending_write THEN "global" ELSE "cycle"]
    /\ UNCHANGED <<sections, hbuffer, hlisted, repending, toread, seen, call, mode, ioerrors>>

sf_writeglobal(i) ==
    /\ Running(i, "global")
    /\ disk' = buffer[i]
    /\ sfpc' = [sfpc EXCEPT ![i] = "cycle"]
    /\ UNCHANGED <<flag, listed, newseq, obj, buffer, hbuffer, hlisted, repending, toread, read_once,
                   clocks, call, mode, ioerrors>>

(* The failure is logged, and that is all. *)
sf_writeglobal_failed(i) ==
    /\ Running(i, "global") /\ IoError
    /\ disk' = buffer[i] \/ UNCHANGED disk
    /\ sfpc' = [sfpc EXCEPT ![i] = "cycle"]
    /\ UNCHANGED <<flag, listed, newseq, obj, buffer, hbuffer, hlisted, repending, toread, read_once,
                   clocks, call, mode>>

-----------------------------------------------------------------------------
(* The setters. *)

sf_set_pool_state(i, s) ==
    /\ object' = [object EXCEPT ![i].pool = s]
    /\ mask' = [mask EXCEPT ![i] = @ \cup {"pool"}]
    /\ UNCHANGED <<excluded, sf_access>>

(* test_Start_Criteria: the pool was INIT when the host came up, and all   *)
(* hosts are ready.  The liveset is formed, ...                            *)
form_new_liveset(i) ==
    /\ mode[i] = "starting"
    /\ mode' = [mode EXCEPT ![i] = "formed"]
    /\ UNCHANGED <<sections, obj, thread, clocks, call, ioerrors>>

(* ... then the pool state is set.  (The phase becomes STARTED a little    *)
(* later.)                                                                 *)
FormPool(i) ==
    /\ mode[i] = "formed"
    /\ mode' = [mode EXCEPT ![i] = "started"]
    /\ sf_set_pool_state(i, "active")
    /\ UNCHANGED <<sections, thread, clocks, call, ioerrors>>

(* The lock manager has the lock. *)
sf_set_master(i) ==
    /\ mode[i] = "started" /\ i \in MasterSetters /\ object[i].master # i
    /\ object' = [object EXCEPT ![i].master = i]
    /\ mask' = [mask EXCEPT ![i] = @ \cup {"master"}]
    /\ UNCHANGED <<sections, excluded, sf_access, thread, clocks, call, mode, ioerrors>>

(* check_pool_state in the SM worker thread, and sm_abort: no new cycle of *)
(* the State-File thread begins.                                           *)
check_pool_state(i) ==
    /\ \/ object[i].pool = "invalid" /\ mode[i] \in {"starting", "formed", "started"}
       \/ object[i].pool = "init" /\ mode[i] = "started"
    /\ mode' = [mode EXCEPT ![i] = "aborted"]
    /\ call' = [call EXCEPT ![i] = NoCall]
    /\ seen' = [seen EXCEPT ![i] = FALSE]
    /\ acked' = [acked EXCEPT ![i] = FALSE]
    /\ UNCHANGED <<sections, obj, thread, ioerrors>>

(* A call of the script service: the change is made, and the time of the   *)
(* last update of the own section has to pass the present.  (The tests and *)
(* the setter take the lock one after the other; a step of the State-File  *)
(* thread in between commutes with the setter.)                            *)
Begin(i, c) ==
    /\ mode[i] \in {"starting", "formed", "started"} /\ call[i] = NoCall /\ sf_access[i]
    /\ call' = [call EXCEPT ![i] = c]
    /\ seen' = [seen EXCEPT ![i] = FALSE]
    /\ acked' = [acked EXCEPT ![i] = FALSE]
    /\ UNCHANGED <<sections, thread, mode, ioerrors>>

(* The transitions that sf_set_pool_state() is documented for. *)
script_service_do_set_pool_state(i) ==
    /\ i \in PoolSetters
    /\ \E s \in {"active", "invalid"} :
          Begin(i, [kind |-> "pool", value |-> s]) /\ sf_set_pool_state(i, s)

do_set_clear_excluded_sub(i) ==
    /\ i \in Excluders /\ object[i].pool = "active"
    /\ \E b \in BOOLEAN :
          /\ Begin(i, [kind |-> "excluded", value |-> b])
          /\ excluded' = [excluded EXCEPT ![i] = b]
    /\ mask' = [mask EXCEPT ![i] = @ \cup {"excluded"}]
    /\ UNCHANGED <<object, sf_access>>

(* The loop that waits for the disk ends; after a successful set_excluded  *)
(* the daemon exits.                                                       *)
CallReturns(i) ==
    /\ mode[i] \in {"starting", "formed", "started"} /\ call[i] # NoCall /\ (~ sf_access[i] \/ acked[i])
    /\ call' = [call EXCEPT ![i] = NoCall]
    /\ seen' = [seen EXCEPT ![i] = FALSE]
    /\ acked' = [acked EXCEPT ![i] = FALSE]
    /\ mode' = [mode EXCEPT ![i] =
          IF sf_access[i] /\ call[i] = [kind |-> "excluded", value |-> TRUE] THEN "exited" ELSE @]
    /\ UNCHANGED <<sections, obj, thread, ioerrors>>

-----------------------------------------------------------------------------
SfThread(i) ==
    \/ write_hostspecific(i) \/ SkipWrite(i) \/ sf_writehostspecific(i)
    \/ sf_readglobal(i) \/ sf_readhostspecific(i) \/ readsf(i) \/ sf_writeglobal(i)

SfError(i) ==
    \/ sf_writehostspecific_failed(i) \/ readsf_failed(i) \/ sf_writeglobal_failed(i)

Toolstack(i) ==
    sf_set_master(i) \/ script_service_do_set_pool_state(i) \/ do_set_clear_excluded_sub(i)

(* Every daemon has ended. *)
Ended == (\A i \in Host : mode[i] \in {"aborted", "exited"}) /\ UNCHANGED vars

Next ==
    \/ \E i \in Host :
          \/ SfThread(i) \/ SfError(i) \/ form_new_liveset(i) \/ FormPool(i)
          \/ Toolstack(i) \/ check_pool_state(i) \/ CallReturns(i)
    \/ Ended

Spec == Init /\ [][Next]_vars

-----------------------------------------------------------------------------
(* The values of the sections, the SF object and the thread states. *)
TypeOK ==
    /\ disk \in Global /\ flag \in [Host -> BOOLEAN] /\ listed \in [Host -> BOOLEAN]
    /\ newseq \in [Host -> BOOLEAN] /\ hlisted \in [Host -> BOOLEAN]
    /\ object \in [Host -> Global] /\ excluded \in [Host -> BOOLEAN]
    /\ mask \in [Host -> SUBSET {"master", "pool", "excluded"}]
    /\ buffer \in [Host -> Global] /\ hbuffer \in [Host -> BOOLEAN]
    /\ repending \in [Host -> BOOLEAN]
    /\ toread \in [Host -> SUBSET {"global", "hosts"}]
    /\ sfpc \in [Host -> {"cycle", "write", "read", "global"}]
    /\ read_once \in [Host -> BOOLEAN] /\ sf_access \in [Host -> BOOLEAN]
    /\ seen \in [Host -> BOOLEAN] /\ acked \in [Host -> BOOLEAN]
    /\ call \in [Host -> Calls \cup {NoCall}]
    /\ mode \in [Host -> {"starting", "formed", "started", "aborted", "exited"}]
    /\ ioerrors \in 0 .. MaxIoErrors

(* An excluded flag that was set or cleared is not lost: as long as it is  *)
(* not in the host's section it is noted as modified or on its way to the  *)
(* disk, although writes fail and the section is read back in between.     *)
ExcludedKept ==
    \A i \in Host : excluded[i] # flag[i] => "excluded" \in mask[i] \/ sfpc[i] = "write"

(* A host that started finds the pool state INIT, and aborts, only after   *)
(* an access failed: no host that writes the global section puts the INIT  *)
(* back it read before the others set ACTIVE.                              *)
StartedNotInit ==
    ioerrors = 0 => \A i \in Host : mode[i] = "started" => object[i].pool # "init"

(* What carries ExcludedKept over a cycle: the flag in the I/O buffer is   *)
(* current unless it was modified since, a failing write can tell whether  *)
(* a change was under way, and what was read back is what is on the disk.  *)
ExcludedInv ==
    \A i \in Host :
        /\ excluded[i] # flag[i] => "excluded" \in mask[i] \/ sfpc[i] = "write"
        /\ sfpc[i] = "write" /\ "excluded" \notin mask[i] =>
              hbuffer[i] = excluded[i] /\ (repending[i] \/ excluded[i] = flag[i])
        /\ sfpc[i] = "read" /\ "hosts" \notin toread[i] => hbuffer[i] = flag[i]

(* What carries StartedNotInit: a host that has seen ACTIVE or INVALID, or *)
(* set it, has it noted as modified, about to be written, or on the disk,  *)
(* and nobody is about to write INIT.                                      *)
PoolInv ==
    \A i \in Host :
        /\ mode[i] \in {"started", "aborted"} \/ "pool" \in mask[i] => object[i].pool # "init"
        /\ "master" \in mask[i] => mode[i] \notin {"starting", "formed"}
        /\ sfpc[i] = "global" => buffer[i].pool # "init"
        /\ sfpc[i] = "read" /\ "global" \notin toread[i] /\ buffer[i].pool # "init" => disk.pool # "init"
        /\ object[i].pool # "init" /\ "pool" \notin mask[i] =>
              /\ disk.pool # "init" \/ sfpc[i] = "global"
              /\ sfpc[i] = "read" /\ "global" \notin toread[i] => buffer[i].pool # "init"

(* The inductive invariant behind ExcludedKept and StartedNotInit: what    *)
(* write_hostspecific() and readsf() may rely on at each point of a cycle. *)
SfInv == TypeOK /\ ExcludedInv /\ (ioerrors = 0 => PoolInv)

(* When a call returns success, what it set is on the disk. *)
OnDisk(i, c) ==
    IF c.kind = "pool" THEN disk.pool = c.value ELSE flag[i] = c.value
WrittenOnReturn ==
    [][\A i \in Host : CallReturns(i) /\ sf_access[i] => OnDisk(i, call[i])]_vars
=============================================================================
