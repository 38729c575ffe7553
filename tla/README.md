# A TLA+ verification project for xha

xha is the high-availability daemon of XenServer. One daemon runs on every host
of a pool. The daemons agree on the *liveset* (the hosts that run), restart or
fence what has failed, and elect a master for the toolstack (Xapi). They talk to
each other over two media, UDP heartbeats and a shared *State-File* on a disk
which has one section per host and one global section, and a host that cannot be
sure it is counted among the living is reset by its watchdog.

This directory holds TLA+ models of the daemon, TLC configurations that check
them on small pools, and proofs checked by TLAPS for pools of any size. Source
paths are relative to `src/`; `PROJECT.json` maps every definition to its lines.

## 1. Inventory

| Component | State | Operations | Talks to |
|---|---|---|---|
| lock manager, `daemon/lock_mgr.c` | `lmvar` (pending and cancel request), the lock fields of the SF object | `lm_request_lock`, `lm_cancel_lock`, the pass of the `lock_mgr` thread | SF object (fields of all hosts), SM object (liveset), script service |
| State-File, `daemon/statefile.c`, `lib/statefileio.c` | `sfvar`, the SF object, the sections on disk | the cycle: `write_hostspecific`, `readsf`, `sf_writeglobal`; acceleration, enable/disable | all other objects; the disk |
| heartbeat, `daemon/heartbeat.c` | `hbvar` (sequence numbers), the HB object (`hbdomain`, `raw`, last times) | `send_hb`, `receive_hb`, `update_hbdomain` | network; calls `start_fh`; SF acceleration |
| state manager, `daemon/sm.c` | `smvar` (phase, `need_fh`, `join_block`, copies of the objects), the SM object (livesets) | start and join, `start_fh`, `fault_handler` with its rendezvous, `test_Survival_Rule`, worker thread (`update_sfdomain`) | HB and SF objects of all hosts, watchdog |
| Xapi monitor, `daemon/xapi_mon.c` | restart counters, the Xapi object | health check, restart, self-fence | processes, SM |
| watchdog, `daemon/watchdog.c` | instances, their counters | create, set, close, stop; `self_fence` | hypervisor |
| shared objects, `daemon/com.c` | objects with a reader/writer lock and callbacks | lock, unlock, register callbacks | everybody |
| script service, `daemon/sc_sv.c`, `sc_func.c` | sockets, daemon state | propose and cancel master, exclude, pool state, weight, disarm, stop | lock manager, SM, SF |
| host weight, `daemon/hostweight.c`, `lib/weightio.c` | weight file, SM object | set and commit weight | SM |
| main, `daemon/main.c` | start and termination phases | initialise, terminate | everybody |
| bond monitor, `daemon/bond_mon.c` | status of the network bond | poll | script service |
| commands, `commands/*.c` | - | `calldaemon`, `weightctl`, `cleanupwatchdog` and tools | script service, weight file, watchdog |
| logging, fault injection, configuration, scripts, stubs | - | - | I/O and tools |

The hard parts are the ones where hosts act on what they *last read* of each
other:

* the lock is granted and withdrawn by flags that travel through the disk, one
  section at a time, while hosts crash and accesses fail;
* after a fault every host decides alone whether it belongs to the survivors;
* the hosts go through the phases of fault handling together although each one
  sees the others' phase late, and a second host may stop on the way;
* a host that stopped may be back before the others have noticed;
* a condition is tested under a lock and used after the lock was dropped
  (`lock_mgr.c:607`, `sm.c:2421`, `sm.c:1268`);

and, inside one daemon, the threads that share objects whose writers run
callbacks under two locks (`com.c:1153`), and the ends of things: a start that
fails half-way, a termination next to scripts and threads that go on.

What makes the components correct:

* lock manager: one master at a time, the master does not lose the lock behind
  its back, calls return, competing hosts elect one of them;
* survival rule: no two groups survive, the survivors are fully connected and
  agree on each other, somebody survives as long as somebody can reach the
  State-File, the largest partition wins;
* fault handler: hosts stay in step, no rendezvous blocks for ever, no loss is
  overlooked, a dead host leaves the liveset;
* State-File: an excluded flag or a pool state that was set is not lost between
  the SF object, the I/O buffer and the disk, whoever else writes;
* start and join: two starting groups do not form two pools, who is let in was let
  in by everybody, and in the end everybody is in or has given up;
* heartbeat: a running host is never taken for silent, a rebooted one is heard
  again soon, but not before the old one was removed;
* inside a daemon: no threads wait in a ring, no object goes away under its users,
  a host that was disarmed is reset only by a thread that had decided so before, a
  stopped daemon leaves no timer behind, Xapi
  is restarted only so often and the host fenced only for cause, no weight
  and no latency is lost, every script gets an answer it can rely on.

The hazards in `PROJECT.json` list the places with the property that guards each.

## 2. Modules and plan

| Module | Models | Checked by | Proofs |
|---|---|---|---|
| `LockMgr` | the distributed lock over the State-File | `MCLockMgr` | `LockMgrProofs` |
| `MasterService` | what propose_master and cancel_master promise (abstract) | implemented by `LockMgr` | `LockMgrProofs` |
| `Survival` | who survives a fault | `MCSurvival` | `SurvivalProofs` |
| `FaultHandler` | triggers, phases and rendezvous of fault handling | `MCFaultHandler` | `FaultHandlerProofs` |
| `StateFile` | global section, excluded flag, calls that wait for the disk | `MCMedia`, `MCStateFile` | `StateFileProofs` |
| `Heartbeat` | sequence numbers, T1, reboot of a sender | `MCMedia` | `HeartbeatProofs` |
| `Join` | start criteria, join, letting others in | `MCJoin` | `JoinProofs` |
| `Com`, `Paths` | shared objects, their locks and callbacks; the lock sequences of the threads | `MCHost` | `ComProofs` |
| `Fencing` | start and end of a daemon, watchdog timers, disarming | `MCHost` | `DaemonProofs` |
| `XapiMon` | the Xapi monitor | `MCHost` | `DaemonProofs` |
| `Weights` | host weights from `weightctl` to the SM object | `MCHost` | `DaemonProofs` |
| `Script` | the script service and its clients | `MCHost` | `DaemonProofs` |
| `Query` | ha_query_liveset over the objects, bond monitor | `MCHost` | `DaemonProofs` |

Composition. What the hosts say to each other is composed inside the modules that need it:
`LockMgr` with the State-File and the liveset, `FaultHandler` with both media,
`Join` with both media, the workers and the fault handler as a step,
`Fencing` with main, the State-File, heartbeat, SM and script threads.
`MCMedia` puts the two media, `MCHost` the components of one daemon side by side: a
behaviour chooses one at its start (`medium`, `focus`) and leaves the others alone,
since what each needs of the others is already among its own actions. Interleaving them would
multiply the states and add no behaviour.

## 3. `LockMgr`: the lock by which the master is elected

### How it corresponds to the code

Hosts are the configured indices; a lower index has the higher priority. `lm[i][j]`
is `psf->lm[j]` in the SF object of host `i`: a request flag and a grant map.
Three threads of each host take steps:

* State-File thread. `write_hostspecific` writes the host's fields to its section,
  `SfRead(i, j)` reads one section into the I/O buffer, `SfPublish` copies the
  buffer to the object. The failing variants leave the write done or not done,
  keep what was published, and lower `sf_access` and `read_once` as the code
  does. The copy of the fields into the buffer and the write are one step:
  between the two the thread neither reads what others wrote nor shows anything
  to them, so that a pass of the lock manager in between can be moved after
  the write.
* Lock manager thread. `lock_mgr(i)` is one pass: it raises or lowers its request
  (`PassRequest`) and recomputes its grants (`PassGrant`). The pass runs under the
  writer lock of the SF object, hence is one step; the test of `SF_access` comes
  before the lock is taken, and `lm_past_test` keeps the pass possible when the
  access was lost in between.
* Script service thread. `ProposeMaster`, `LockRequest`, `LockCheck`, `LockWoken`
  are `lm_request_lock` between two releases of its mutex; `CancelMaster`,
  `CancelAcknowledged` are `lm_cancel_lock`. `accepted[i]` says that the toolstack
  was told TRUE and has not cancelled since.

The state manager appears as `form_new_liveset` (all hosts booted together) and
`FaultHandlerDrop`, which takes a host out of the liveset only when it is down:
the fault handler sleeps until the watchdogs of lost hosts have expired. That
is an assumption here, about clocks that no module measures.
Rejoining and network faults are left out.

`Patient` is an assumption on the toolstack: it proposes again only when its
earlier request has settled (`Settled`: withdrawn here, seen withdrawn by the
others, and every grant still on its way already visible) or when it is still
the accepted master. The run `LockMgrImpatient` shows what happens otherwise.

### What it promises (`MasterService`)

Toolstacks do not see requests, grants or sections. For them there is one role:
`master`, the hosts that were told TRUE and have it since, and a call at a time per host. A call of
propose_master that has to wait may win the role when nobody else has it;
a call that is answered at once wins nothing; the role is lost only by an answer FALSE, a
cancel or the end of the host. `LockMgr` is shown to implement this with `master` the
accepted hosts that run (`ImplementsService`). A master that proposes again may be told
FALSE by a view that is stale; the abstract service allows for it.

### Runs

| Run | Instance | Checks | States |
|---|---|---|---|
| `LockMgrElection` | 2 hosts compete, patient, host 0 may crash, fair | `LockInv` (with the type and `GrantDiscipline`), `LockExclusive`, `Elected`, `ImplementsService` | 85,494 |
| `LockMgrCalls` | host 1 proposes, cancels on both hosts, one failed State-File cycle, fair | `CallsReturn`, `LockStable` | 132,564 |
| `LockMgrImpatient` | impatient toolstacks | `MasterExclusive` is violated | - |

Two hosts are the smallest pool with competition and with a priority between
requesters; the safety properties are proved for any number, so that the runs
serve to find mistakes early. Only `MaxIoErrors` is a bound: one failure at any
point, the lost access included.

`Fairness` is weak fairness of each thread (they are POSIX threads woken by
condition variables and timeouts, and the State-File thread signals the lock manager in
every cycle), and strong fairness of a publication without a pending global
write, because only a call of the toolstack or a new master makes one pending.
Toolstack calls, errors and crashes are not assumed to happen.

`LockMgrImpatient`: host A loses, or cancels, and its request is withdrawn. The
grant of B is still in A's view. A proposes again, sees a full set of grants
(`lock_mgr.c:465`) and answers TRUE, while B, who has seen the withdrawal, is
elected as well. The code does not test that its own request stands.

### Proofs (`LockMgrProofs`)

All for any `N`, any proposers, cancellers, crashing hosts and number of errors,
from `ConstAssumption` alone; `LockInvariant` and those after it also assume `Patient`.

* `TypeCorrect`: `TypeOK`.
* `Discipline`: `GrantDiscipline`, no copy of a host's fields shows a request
  next to a grant to a lower priority host. It is inductive with `TypeOK`: only the
  pass creates fields, every other step copies them.
* `LockInvariant`: `LockInv`. `LockExclusive` is not inductive, since it says
  nothing about grants under way. `LockInv` adds
  `RequestChain` (for a requesting host, each stage on the way of its request to
  a peer and of the grant back implies the stage before), `CallerStates` (what the
  calling thread knows at each point of `lm_request_lock`), `LivesetCoversUp`,
  `UsersOnline` and `DeadNotAccepted`. Without the chain a stale grant could be counted;
  without `CallerStates` a request could be raised while an older grant is still
  on its way.
* `LockIsExclusive`: if two hosts held the lock, the chain of the higher priority
  one says that the other saw its request, and granted it while requesting
  itself; the lower priority one is granted by the higher, which contradicts the
  discipline.
* `MasterIsExclusive`: an accepted host holds the lock.
* `LockIsStable`: every step other than its own cancel or death keeps the grants
  a holder sees, since what it will read is what the chain says.

* `LockImplementsService`: every step of the detailed model is a step of
  `MasterService` or leaves its variables alone. That a waiting call wins only when
  nobody else has the role is `LockExclusive` again; the other steps follow from
  `CallerStates` and `DeadNotAccepted`.

`CallsReturn` and `Elected` are liveness and stay with TLC.

## 4. `Survival`: who survives a fault

A scenario is chosen in `Init`: the hosts that run and those that are excluded,
the pairs that still exchange heartbeats, the hosts that still reach the
State-File, weights. It has lasted for T1 and T2, so that domains are what
`update_hbdomain` and `update_sfdomain` make of it; what is not heard any more is
what was heard before the fault (`Fresh`). Each host then takes the steps of
`wait_until_all_hosts_have_consistent_view` (`ViewConsistent`, or `ViewTimeout` and
the merge `MergeRemove` / `MergeDone`) and of `test_Survival_Rule`
(`WinByFirstRule`, `WinBySecondRule`, `Lose`). The SR2 flag may be stale from an
earlier fault, on all hosts. Fencing is armed.

The run `Survival` goes through every scenario of 4 hosts with weights 1 and 2
(666,112 states) and checks `NoSplitBrain`, `SurvivorsConnected`, `NoLoserKept`, `SomeoneSurvives`
and `LargestPartitionSurvives`. Four hosts give overlapping cliques, chains, rings and even splits. Hosts
read nothing from each other after the scenario is fixed, so that the order
of their steps does not matter, and the run fixes it (`LowestFirst`). Weights 1 and 2 make every order of partitions by
weight and size possible: a small partition can outweigh a larger one.

### Proofs (`SurvivalProofs`)

For every scenario of any number of hosts and any weights, from `SurvivalAssumption`. Its
`MaxHostNum < 256` is what the score needs: size and index have eight bits each
(`sm.c:2078`), and `MAX_HOST_NUM` of the code is 64.

* `TypeCorrect`: `TypeOK`.
* `SplitBrainNever`, `SurvivorsStayConnected`, `LosersLeft`, `PoolSurvives`, `LargestWins`: the five
  properties of the run.

None of them is inductive, since they speak of decisions that were taken and the steps that
lead there compute on local copies. The invariant `IInv` says for each host what
it has computed so far. A host that found the views agreed (`Agreed`) decides from its
domains (`DecidesAgreed`). A host with State-File access that did not goes through the
merge, and what it has removed is a `Stage` of the merge of the *network*, a sequence of removals that
does not mention the host (`DecidesMerged`): the copies it works on are the
domains of the scenario without the removed hosts (`Reduced`). One without access removes everybody and
loses (`DecidesAlone`).

The rest is about that sequence. The next host to go is unique, so that two complete
stages are the same set (`StagesAgree`); the hosts left form a clique
(`CompleteClique`); the last host cannot go (`StageProper`), so that somebody
survives; and when the network is split cleanly the hosts of the winning
partition are never the lowest while another is left (`CleanStage`), for which the score has to
order partitions by weight, size and lowest host, in this order (`ScoreStrict`, `ScoreTie`).

`WeightOf` sums weights with a recursive function over a finite set and `Stage` counts steps. Both
need induction, which is done here on *sets* of numbers (`LeastNatural`: a set of numbers that is not
empty has a least one, from the library's well-founded minimum), as the theorems of
the library that take a predicate are out of the provers' reach.

## 5. `FaultHandler`: going through the phases together

`phase`, `hbdomain`, `sfdomain`, `liveset`, `proposed` are the fields of the SM, HB
and SF objects. Four threads act: heartbeat receiver (`HbReceive`,
`update_hbdomain`, then `start_fh` as a step of its own because the object locks are dropped in
between: `hbcall`), SM worker (`update_sfdomain`, `sfcall`), State-File
reader (`readsf`, all sections together) and state manager (`wait_fh_event`, one
step per rendezvous, `Agree` and `Snapshot` for the two halves of phase 2,
`Survive`, `self_fence`, `UpdateLiveset`, `EndFaultHandler`).

The faults are hosts that stop and reboot. `Silent(i, k)`: heartbeats and
sections of `k` do not count at `i` when `k` is dead, or when it is starting while `i`
still has it in its liveset (`heartbeat.c:1267-1285`, `statefile.c:783-790`). Network and
storage stay good and only silent hosts time out, so the timeout of phase 2
is not modelled here but in `Survival`; weights are equal and SR2 is FALSE. A host's
own entries in the views are omitted: they only delay it. The stability wait of phase 1 is a delay too.

| Run | Instance | Checks | States |
|---|---|---|---|
| `FaultReboot` | host 1 stops and reboots again and again, host 2 is starting, fair | `DeadRemoved` | 10,170 |
| `FaultDouble` | 3 hosts, hosts 1 and 2 may stop at any point | `InStep`, `SingleLossHandled` | 1,154,348 |
| `FaultForgotten` | the same | `NotForgotten` is violated | - |
| `FaultView` | hosts 1 and 2 may stop | `ViewTakenConsistent` is violated | - |

Deadlock is checked: the only stuttering step, `Quiet`, needs that no host is in
the handler or was asked for it, so that a rendezvous at which everybody waits
would be reported.

The fairness of `FaultReboot` is weak fairness of every thread, of reading the State-File and of
receiving a heartbeat: threads are scheduled, silence ends in a timeout, and a running
host on a good network is heard. Stops and reboots are not promised.

What the violations show:

* `FaultForgotten`: a host stops after its peer copied the view; the peer notices
  its silence on both media while it waits in FH2DONE; `start_fh` takes the round
  in progress to cover it (`sm.c:1809`), which it does not. The
  host stays in the liveset with nobody asking for the handler. With a single fault this
  cannot happen (`SingleLossHandled`): it takes a second one in the same round.
* `FaultView`: the view is tested, the locks are dropped, and the objects are
  copied under new locks (`sm.c:2421-2440`); a domain changed in between makes the
  survival rule decide on a view nobody agreed on. In `FaultDouble` a survivor may
  then fence itself in favour of a host that is dead.

The model has a second way to forget a member, without a round in progress:
`start_fh` assigns `hb_degraded` and `sf_degraded` in its loop (`sm.c:1781`, `1789`), so
that a starting host with a higher index lost in the same pass overwrites the
loss of a member. `NotForgotten` is violated this way as well when
`FaultForgotten.cfg` is given `Starting = {2}`.

Four hosts with two faults exceed what TLC can exhaust; the theorems cover them.

### Proofs (`FaultHandlerProofs`)

For any number of hosts, of which any may be starting, stop and reboot, from `FaultAssumption`; a host that
rebooted stays in its start, where `Join` takes over.

* `TypeCorrect`: `TypeOK`.
* `HostsInStep`: `InStep`. It is not inductive: a host leaves a phase on the report it *has* of the others, not
  on where they are. `Close` relates for each pair of hosts both phases and both reports (`Pair`): either
  they are in the same phase, and the reports show it or the phase before, or one is a phase ahead, and then the
  other was last heard in the phase that it is in. `Counted` says that running
  hosts stay in each other's domains and livesets, so that none is left out of a rendezvous.
* `LossHandled`: `SingleLossHandled`. As long as all run nothing is under way (`Undisturbed`). Once host `k` is the
  only one down, `Handled` follows the round: whoever is asked for a round has an
  origin, a host that lost `k` and whose reports say so from the beginning of the
  round (`Caused`); hence nobody agrees on a view with `k` in it, and the copy, the
  proposal and the liveset lose `k` in turn (`Removing`), on all hosts in the same
  round (`Together`); and before a round is asked for, the loss is yet to be compared with the domains
  recorded last (`Noticed`). So a request that `start_fh` drops is about a
  host that the round removes.

The invariants were checked with TLC on the instance of `FaultDouble` before they were proved.

## 6. `StateFile`: fields that are set on request

### How it corresponds to the code

A setter (`sf_set_pool_state`, `sf_set_master`, `sf_set_excluded` inside
`do_set_clear_excluded_sub`) changes the SF object and its `modified_mask`
under the writer lock. The State-File thread takes the change to the disk in its
cycle, which is split where the locks are dropped or the disk is accessed:

| Action | Code |
|---|---|
| `write_hostspecific` | the excluded flag goes to the buffer, its mask bit to `excluded_pending_write` (`repending`), and the liveset, of which only matters whether it has the host itself (`hlisted`, on the disk `listed`) |
| `sf_writehostspecific`, `_failed` | the write of the section; a failing one may have reached the disk, sets the mask bit again and lowers `SF_access` |
| `SkipWrite` | no write before the first complete read (`read_once`) |
| `sf_readglobal`, `sf_readhostspecific` | the sections are read one by one; a failed one is tried again after the others, so that their order is free; a new sequence number in the own section renews `updateclock` (`seen`) |
| `readsf`, `readsf_failed` | the result is published (`Merged`: a modified field goes from the object to the buffer, any other one the other way) or not at all; the time of the own section is not renewed (`acked`) when that section does not list the host while its liveset has it (`statefile.c:786`) |
| `sf_writeglobal`, `_failed` | the whole global section is written from the buffer; the failure is only logged |

`form_new_liveset` and `FormPool` are the start of the pool: the liveset is formed, then
the pool state is set (`sm.c:1268`, `sm.c:1275`). `check_pool_state` is the worker's test that
aborts the daemon. `script_service_do_set_pool_state` and
`do_set_clear_excluded_sub` begin a call, `CallReturns` ends its wait, and
the daemon with it after a successful set_excluded. The clocks are abstracted to
"seen since the call began". The excluded flags of other hosts, version and
generation mismatches and acceleration are left out; a checksum error is a failed
read. INIT, which the command line accepts too, is not among the values of
set_pool_state: `sf_set_pool_state` is documented for init to active and any to
invalid (`statefile.c:1040`).

### Runs

| Run | Instance | Checks | States |
|---|---|---|---|
| `Media` | 2 hosts start; host 0 sets pool state and excluded flag, host 1 becomes master; either no access fails, or two do anywhere and nobody calls set_pool_state (1,660,379 of the run's states are of the State-File) | `SfInv` (with the type), `ExcludedKept`, `StartedNotInit`, and the properties of section 7 | 1,824,726 |
| `StateFileReturn` | 1 host, set_excluded, no failures | `WrittenOnReturn` is violated | - |

Two hosts are enough for the race of the global section: one that has read INIT
and one that sets ACTIVE. `MaxIoErrors` is the only bound of `StateFile`, and the theorems do
without it. That `MCMedia` leaves set_pool_state out of the behaviours in which accesses fail costs no claim about it:
nothing is said of the pool state once an access failed, and the excluded flag goes its own way. The theorems are for
failures and calls together.

`StateFileReturn`: the host forms its liveset, and the State-File thread writes the host's
section, with that liveset, before the pool state is set. Then the pool becomes ACTIVE,
and set_excluded arrives before the section is read back. The read finds a new sequence
number, and as the section lists the host `time_last_SF` is renewed (`statefile.c:786`) and
passes the time of the call (`sc_func.c:1305`): the call returns success, the daemon exits,
and the flag stays off the disk. In a later cycle the same happens whenever the call
comes between the write and the read. With a section that was written before the liveset was formed the time
is not renewed, and the call waits one more cycle. set_pool_state waits
in the same way, and for the wrong section besides: `sf_writeglobal` comes
after the time is published, and its failure is not noticed.

### Proofs (`StateFileProofs`)

For any number of hosts, setters and failing accesses, from `StateFileAssumption`:

* `TypeCorrect`: `TypeOK`.
* `SfInvariant`: `SfInv`, that is `TypeOK`, `ExcludedInv`, and `PoolInv` as long as no
  access failed. `ExcludedKept` alone is not inductive: it says nothing about the
  buffer that is about to be written or copied back. `ExcludedInv` adds that the buffer
  is current unless the flag was modified since, that a failing write knows
  whether a change was under way, and that what was read back is on the disk.
  `PoolInv` says that whoever has seen or set ACTIVE or INVALID has it
  noted as modified, about to be written or on the disk, and that no buffer
  about to be written holds INIT; the latter holds because a host sets the master
  only once it has started.
* `ExcludedIsKept`, `StartedIsNotInit`: the two properties, from `SfInv`.

With failing accesses `StartedNotInit` does not hold: the mask is cleared before
`sf_writeglobal` is tried, so a host whose write of ACTIVE fails reads INIT
back and aborts.

## 7. `Heartbeat`: a sender as its peer hears it

One sender and one receiver. Two threads of the sender take a number
(`send_hb_number`) and send later (`send_hb`), so that packets can pass each other;
the network loses, delays and reorders them. The receiver alternates between
`receive_hb` (the unsigned comparison `is_newer`, the test `is_ignored` for a host that
says it is not in its own liveset) and `update_hbdomain` (T1, and the
forgotten number). The sender may be reset and count again from 0; the fault handler
and the join appear as `RemoveMember` and `Join`. Numbers have `Width` bits, 3 in the
run instead of 32, so that wraps happen all the time; `T1` is two ticks of the sending
interval, one packet may be lost or delayed, one reboot may happen. Three bits suffice: the comparison
only has to tell apart the few numbers that can be under way at once, and half of 8 is more.

The run `Media` checks:

* `NeverDeaf`: a running host whose packets arrive is not dropped, over the wrap and with two
  senders;
* `HeardSoon`: a rebooted host is heard within T1 and two packets once it was removed
  from the liveset. Two, since number 0 is not newer than a forgotten number;
* `NoEarlyReturn`: nothing a rebooted host says is used while the old one is a member.

### Proofs (`HeartbeatProofs`)

For every modulus of at least 8, every `T1` of at least two ticks, and any number of reboots and of lost or
delayed packets, from `HeartbeatAssumption`; the 32 bits of the code are one case.

* `HbTypeCorrect`: `HbTypeOK`.
* `RebootedNotHeard`: `NoEarlyReturn`. `Return` adds that only the incarnation in the receiver's liveset, or an earlier one,
  has ever said of itself that it is in the liveset, in its memory and in packets that travel.
* `RunningHostHeard`: `NeverDeaf`. `Regular` measures how far a number is behind the
  sender's (`Behind`), modulo the wrap: numbers that travel are of this tick, and the receiver's is either of this tick, or
  the newest number still travels and is newer for the receiver. When the count wraps between the two packets of a tick the older one is
  accepted after the newer one; the proof shows that this is harmless.
* `ReturnHeardSoon`: `HeardSoon`. `Returns` follows the wait: until T1 has passed `waiting` is
  bounded by `age`; after that the number is forgotten and the first packet that is not 0 is accepted (`Forgotten`).

## 8. `Join`: getting into a liveset

### How it corresponds to the code

`smat[i]` is the place of the SM thread between `sm()` and SM_PHASE_STARTED. Every wait
is a place of its own, since the objects go on changing: `wait_all_hosts_recognize_I_was_down`,
the copy of the objects (`criteria_copy`) and the decision on the copy (`criteria_*`),
`wait_until_all_hosts_booted`, the timeouts (`timeout_*`), `join` and its wait.
`process_join_request` is the worker of every host. Packets carry the livesets and the
join flag (`Packet`), sections the liveset, the starting flag and the domain (`Section`); a host
acts on the packet it last used and on the section that was last written.

Abstractions: the disk has no reader lag, only the writer's; weights are
equal; the State-File is not lost while a host starts (no SR2); who hears whom is
transitive and does not change; the fault handler that removes a host is one step. Tboot and Tenable
are long: a wait ends in vain only when everything was said and heard
(`Settled`), but then several hosts time out together (`due`), in any order. Two things are a moment next to T1, T2 and
the start of a host. One is giving up: while some hosts still have to, nobody starts and nobody
is missed (`due = {}` in `start`, `silent_hb`, `silent_sf`). The other is saying that one is in: from `form_new_liveset()` or
the end of `join()` the code waits for nothing before it clears `starting` and writes its section, so nobody
starts while a host that is in still has a section that says "starting" (`Told` in `start`). What this leaves out is named below.

### The run `Join`

Eleven situations (`MCJoin`) of up to three hosts: HA is enabled; the pool boots, completely, with a
host missing (which may be excluded or not), without a network, in two parts; a host was reset, has no
network, meets the wrong pool state, joins a liveset whose only member dies, or comes back excluded.
105,984 states.

* `NeverApart`: two hosts in livesets are never in separate ones: both count the same host in, which is in.
  They need not have each other: two that join at once, or one that forms its liveset from an older
  copy, lack each other until the workers add them.
* `Consent`: whom `join()` is about to let in is, at that moment and not only when they sent the heartbeats it counts,
  proposed by the running hosts of the liveset it joins.
* `FormsWhatAllPropose`: covers `sm.c:1268`, where the liveset that is formed is read again
  without the lock: what the workers may have done to it meanwhile is still what all propose, except those that by
  then have formed a liveset.
* `Settles`: in the end every host is in or has given up, and those that hear each other
  agree. Fairness: threads are scheduled, heartbeats and writes go on, time passes.

### Proofs

All in `JoinProofs`, for any number of hosts and any links and excluded hosts. `StepIs` first sorts the 26 actions into
eleven kinds of steps (who waits, gives up, forms, proposes, lets in, ...) and keeps of each what the
proofs use, so that every later lemma has a short case for each kind.

* `JoinTypeCorrect` and `FormsTogether` hold in every situation. `FormsWhatAllPropose` is far from
  inductive. `StartInv` adds what a host knows when it stops waiting: it copied all configured
  hosts (`WaitsForAll`), whom it copied it still hears or they are gone (`CopiesHeard`, which needs `NothingYet`: who has
  no liveset ignores nobody), so that each of them has said it proposes the host (`HeardNothingYet`: nobody heard a
  proposal of who made none), and a proposal stands until its host forms a liveset or gives up (`WaitsForAll`, `AllPropose`).
* `StaysTogether` and `JoinsByConsent`: `NeverApart` and `Consent` for every situation in which one host of the liveset
  stays up (`OneStays`), whoever else starts, crashes or gives up. That host is the `Anchor`: its section is always there
  and never says "starting", hence whoever starts finds a liveset and none is proposed at boot, and every
  liveset, on disk or in a host, has it. For `Consent` the invariant says that a host that has begun to ask
  was forgotten by everybody first (`NotYetProposed`, `Unheard`, and the guard `recognized_down`), so that any proposal it
  hears of is a new one, and that such a proposal is not withdrawn while it asks (`Stands`).
* `EnablesTogether`: `NeverApart` when HA is enabled (`Enables`: no liveset, pool state INIT), whoever
  dies and whatever the network is. With INIT a host can only wait for all (`ReadsInit`); when the first has seen all propose,
  nobody is left to decide (`NoneBefore`), and who is not in a liveset from then on has given up (`CountsAll`).

Not proved, only checked in the situations of the run: `NeverApart` and `Consent` when a pool that is ACTIVE boots without a
liveset, or when the last host of a liveset may die. There the argument rests on `Settled` and on
which hosts time out together, not on what a host has read.

### Observations

* Two hosts that join at once lack each other for a while, until `sm.c:1627` brings them together.
* A host that asks a member which dies gives up with JOIN_FAILED instead of starting again.
* The liveset formed after Tboot is taken from a copy made before the wait (`sm.c:1389`), and the copy may mix times: the
  heartbeat of a host that has just formed {0, 2} says that it no longer wants to join while its section still says "starting". Host 2,
  timing out with that copy, forms {2}. The two share host 2 and the workers bring them together.
* The timing assumption above excludes a window that the code has. When the time of several hosts ends together,
  the first forms its liveset, and the others know only after its next write of the State-File. If in that window, one write
  long, a further host starts and is heard, a second partition may become the largest in the eyes of its hosts
  (`am_I_in_largest_partition` looks at the objects of the moment, `start_flags` at the copy), and form another liveset. With the guards on `due` removed TLC
  finds this with three hosts in the parts {0} and {1, 2}: 0 and 2 time out, 0 forms {0}, 1 starts, 2 hears it and forms {2}. `NeverApart` is
  therefore a statement about pools where nobody appears or is lost in the instant in which Tboot ends.
* The time a write takes matters in the same way. Without `Told`, `NeverApart` fails with three hosts that boot in one part and none that dies: 0 forms
  {0, 1} by timeout, 1 hears it, copies again and forms {1}, and while the section of 1 still says "starting" 2 starts, waits
  for T1 and T2 and is let in by 0 alone. In the code 1 would have written many times in T1 and T2, and the watchdog of its
  State-File thread fences it when it cannot write. A death in place of the start is not excluded by `Told`; it is checked only in the situations listed.
* With links that are not transitive hosts may form different livesets at boot; that case is outside the model.

## 9. Inside one daemon: the run `Host`

204,352 states. `HostTypeOK` is the conjunction of the components' type invariants. Deadlock is not checked because a stopped daemon, finished
scripts and threads that are through are what these behaviours end in. Waiting for each other is
excluded by `NoRing` and the liveness properties.

### `Com` and `Paths`

`Com` has the objects with their counters, the thread table, the reader/writer lock and
`com_mutex`, and runs programs of calls; `Paths` lists what the threads call, in order, including
the private locks that callbacks take. Each call is split where it lets `com_mutex` go.
`main` goes through phase 0, where an object may be opened before it is created;
then any two of fourteen threads (`MaxActive`) run one pass. Two are enough for every pair of lock
orders; that more threads do not make a ring either is proved.

* `UseAccounted`: use counts and thread table agree, and no object goes away under a user.
* `ReadersUndisturbed`: the checksum a reader checks is the one the last writer left.
* `NoRing`: no threads wait for each other in a ring.

Proofs (`ComProofs`), for any threads, objects, programs and callbacks, with `CallersAssumption`, the discipline the callers
of com.c keep: objects are locked in an order (`Rank`) and none twice, a handle is closed by who
opened it, an object is opened with none locked, nothing is waited for under a private lock,
`main` opens every object for good, and no more threads run at once than the thread table has entries. The assumption is about the
programs alone, and TLC evaluates it on those of `Paths` with `LockOrder` (SM, HB, SF,
XAPIMON): the code does keep it. A path that takes two objects the other way round makes the run fail at the assumption.

* `ComTypeCorrect`: `ComTypeOK`.
* `UsesAccounted`: `UseAccounted`. The invariant `ComInv` says what each thread uses at its place in its program, and that the
  thread table records exactly that (`TableKept`, `InUse`); that the reference count of an object is at least the number of
  those who have it open, and above it once `main` has created it for good (`Refs`).
* `ReadersSafe`: `ReadersUndisturbed`, from `Locked` and `Exclusive` (who holds a lock is at a
  place where it may) and `MutexHeld`.
* `NoDeadlock`: `NoRing`. The holder of a private lock is about to release it and waits for nothing (`PrivateHeld`); so a
  thread that runs callbacks waits for nobody in a ring; the holder of `com_mutex` runs callbacks (`MutexHeld`), so nobody in a ring
  waits for `com_mutex`; the waits that remain are for objects, each for one of a higher rank than those that are held, and a
  finite set of threads has one with the highest.

### `Fencing`

`main` calls the components' functions up and down (`init_funcs`), any call may fail (`MaxFaults`, one)
and is undone; the State-File, heartbeat, SM and script threads act meanwhile. A timer is off, far ahead, set, fencing or expired.

`self_fence` tests `smvar.fencing` without a lock and `watchdog_selffence` comes after the reason was logged
(`sm.c:536`-`539`), so they are two steps (`self_fence`, `self_fence_reset`) between which a disarm may be answered. `main` looks at
the heartbeat's watchdog without `hbvar.lock` and leaves the handle as it is (`heartbeat.c:385`), while a script's disarm closes it
too (`heartbeat.c:714`): one of the two may close an instance that is freed. What that does is left open (`close_freed`):
nothing, another timer is stopped, or the allocator aborts the daemon (`Abort`).

* `NotResetAfterwards`: after a script was told that fencing is disarmed nobody passes the test of `self_fence` any more, and
  no timer runs, unless a caller that had passed it before has fenced; then the host is reset although the script was told
  otherwise, which the code cannot rule out. And a daemon that came to its end leaves no timer that a thread had set. Both
  unless a call of the system failed. A daemon that is aborted for the second free, or that exits after set_excluded,
  did not come to its end: it may leave the timer of the State-File, and the host is reset. After a failed start a timer may stay: one
  made by `hb_initialize` or `sf_initialize` before the thread that failed is not closed by the undoing of
  the others.
* `TimersRecorded`: the file that cleanupwatchdog reads has every timer, although it is written outside the lock.
* `StopsEventually`: a daemon that is asked to stop does, or the host is reset. Fairness: main and
  the heartbeat thread are scheduled, timers that fence expire.

Proved in `DaemonProofs` for any timers and any number of failing calls (`FenInv`): `FenTypeCorrect`; `NoTimerForgotten`
(`TimersRecorded`), since a list that is about to be written holds every timer known, as none is made while the script service may close one (`Lifecycle`,
`Recorded`); and `NotResetOnceDisarmed` (`NotResetAfterwards`), which needs what each object of fencing says of its
timer (`Objects`) and that every timer has its handle until `main` has closed it on the way down, while `watchdog_mutex` can be had (`Handles`).

### `XapiMon`

The monitor's loop with its counters; `attempts` is kept next to the code and counts the attempts since Xapi
last ran for a day. `RestartsBounded` and `FencedForCause` are checked as invariants, `DeadXapiFenced` is liveness: a
Xapi that stays ill ends with a fenced host, if the monitor stays enabled and fencing armed. Fairness: the
thread is scheduled, its waits are bounded by timeouts. Bounds of the run: 2 restarts, 2 failing forks, 2 days.

Proved in `DaemonProofs` for every limit (`XmonInvariant`): the invariant adds `CountsAgree` (within a restart the code's count is the
real one; outside it is, or it will be cleared because the last success is a day old) and
`ForksCounted` (only failures in a row are counted). Without the first `RestartsBounded` says nothing about a
count that survives several health checks. `ObjectTruthful`, what the XAPIMON object tells of a check or restart
under way, is proved only.

### `Weights`

Two runs of `weightctl` rewrite the file while main and the script service load it; a writer may be killed or fail.
`NoUpdateLost`: the file is what the successful runs made it. `SetTakesEffect`: when they have their
answers the daemon works with it, unless its own two threads were loading at once: `lockf` belongs to the
process (`hostweight.c:302`), and the older table may then win. One class of room and two classes to set make the table overflow happen.

Proved in `DaemonProofs` for any number of runs, classes and weights (`WeightInv`): `NoWeightLost` (`NoUpdateLost`), because a run
that has read or is writing has the lock, and what it has read is what was confirmed (`Serial`); `WeightInEffect` (`SetTakesEffect`),
because as long as the daemon does not work with the file somebody is still going to see to it (`Loads`, `Pending`). `Room` keeps every table within
`MAX_HOST_WEIGHT_CLASS_NUM`; that the sum over the classes is a number (`TotalNat`) is again an induction on a set.

### `Script`

Two clients, slow or killed, on two of the sockets, with one pending connection. `ExcludedHolds`: who was told
that its host is excluded can rely on it, also with a clear_excluded waiting behind. `EveryoneAnswered`: whoever has sent its request is answered or learns that the daemon is
gone, whatever others do. Fairness: the service threads are scheduled and what they wait for answers (checked by `CallsReturn`), clients promise
nothing.

Proved in `DaemonProofs` for any clients, sockets and length of the backlog (`ScriptInv`): `ExclusionHolds` (`ExcludedHolds`). Only the thread
of one socket executes the requests that set and clear the flag (`OwnRequests`), and from the wait for the disk to the check
after the answer it keeps it set (`FlagSet`).

### `Query`

The query takes the objects one after the other while their threads go on. `LatencyKept`: no latency is
lost between an object and the answers. `OnlineIsLive`, which is proved only: a host that answers online is in the
liveset it shows.
(A daemon that has aborted is shown as online, `sc_func.c:228`; the property leaves it out.) The
run has one peer and one medium with two latencies. That a host was last heard long ago or a health check takes long, the
other causes of a warning, is left open (`overdue`); what the SM object keeps of the warnings decides only what is logged, and is left out.

Proved in `DaemonProofs` for any hosts, media and latencies (`QueryInvariant`): the invariant adds that what was measured since a
medium was asked is still in its object and that a medium that was not asked yet has nothing in the answer
(`TakenOnce`), and that a host ends its start only in its liveset (`StartedIsLive`).

### The host

`HostTypeCorrect`: `HostTypeOK` in every behaviour of the host (`HostSpec`). Each step of the host is a step of one component
and leaves the others alone, so that the conjunction of the components' inductive invariants (`HostInv`) is one of the host.

## 10. What is proved and what is only checked

| Proved for all instances | Where | Assumptions |
|---|---|---|
| safety of the lock, and that it implements `MasterService` | `LockMgrProofs` | `ConstAssumption`, patient toolstacks |
| excluded flag and pool state | `StateFileProofs` | `StateFileAssumption` |
| survival rule: all its properties | `SurvivalProofs` | `SurvivalAssumption` (fewer than 256 hosts) |
| fault handler: phases in step, a single loss is handled | `FaultHandlerProofs` | `FaultAssumption` |
| heartbeat: never deaf, heard again, not too early | `HeartbeatProofs` | `HeartbeatAssumption` |
| shared objects: use, readers, no ring | `ComProofs` | `ComAssumption`, `CallersAssumption` |
| watchdog timers and fencing | `DaemonProofs` | `FencingAssumption` |
| Xapi monitor: type, restarts, causes, object | `DaemonProofs` | `XapiMonAssumption` |
| host weight: no update lost, set takes effect | `DaemonProofs` | `WeightsAssumption` |
| script service: an excluded host stays so | `DaemonProofs` | `ScriptAssumption` |
| query: type, latencies, status | `DaemonProofs` | `QueryAssumption` |
| types and limits of the whole daemon | `DaemonProofs` | all of the components |
| start and join: types, what is formed by all | `JoinProofs` | `JoinAssumption` |
| start and join: one liveset | `JoinProofs` | `JoinAssumption`, one host stays up or HA is being enabled |
| start and join: consent of those joined | `JoinProofs` | `JoinAssumption`, one host stays up |

Only model-checked: all liveness (`Elected`, `CallsReturn`, `DeadRemoved`, `StopsEventually`, `DeadXapiFenced`,
`EveryoneAnswered`, `Settles`), which needs fairness and is outside the prover; the violations; and, of the safety of `Join`,
`NeverApart` and `Consent` in the situations no theorem covers (section 8).
The prover does not instantiate induction theorems over a predicate; where a sum or a sequence of
steps needs induction, the proofs take the least element of a set of numbers instead. The types of
`Survival`, `FaultHandler` and `Heartbeat` are proved and stated in no configuration. The mutants in
`PROJECT.json` are definitions marked *Mutant* in the modules; each one breaks the property it is
listed with, which shows that the property depends on that part of the code.

## 11. Not modelled

* Clocks and their drift: timeouts are steps that may happen, so nothing is said about whether T1, T2
  and the watchdog timeouts are long enough for each other.
* The warning before a timeout and the acceleration of the State-File: they change when a thread runs, which is
  free in the models.
* `com_deregister_callback`: the functions that call it are compiled out.
* Layout, checksums and versions of the State-File's sections and of packets; a bad one is a failed read or a lost packet.
* Parsing of the configuration, logging, fault injection, the tools that dump or initialise the State-File, formatting of
  answers, shell scripts, stubs and the hypervisor patch: I/O without a state the properties are about.
