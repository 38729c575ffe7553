-------------------------------- MODULE Join --------------------------------
(***************************************************************************)
(* How a host starts and gets into a liveset: the SM thread from sm() to   *)
(* SM_PHASE_STARTED (sm.c), that is test_Start_Criteria() and join(), and  *)
(* process_join_request() of the SM workers that let it in.                *)
(*                                                                         *)
(* What a host says of itself reaches another one with its next heartbeat, *)
(* and everybody with its next write of the State-File.  Which hosts boot, *)
(* which hear each other and which already form a liveset is chosen        *)
(* initially; a host that left without a word is removed by the fault      *)
(* handler (module FaultHandler), which is one step here.  Tboot and       *)
(* Tenable are long: a host waits in vain only when everybody has said all *)
(* there is to say, but then several hosts may give up at the same time.   *)
(* Next to T1, T2 and the start of a host two things are a moment: nobody  *)
(* starts or is missed while some hosts still have to give up, and nobody  *)
(* starts while a host that is in has not said so in its section.          *)
(* All weights are equal, and the State-File is never lost (no SR2).       *)
(***************************************************************************)
EXTENDS Naturals, FiniteSets, FiniteSetsExt

CONSTANTS
    Host,       \* host indices
    Scenario    \* what the run starts from, see JoinInit

ASSUME JoinAssumption ==
    /\ Host \subseteq Nat /\ IsFiniteSet(Host)
    /\ \A s \in Scenario :
          /\ s \in [config : SUBSET Host, boots : SUBSET Host, live : SUBSET Host,
                    excluded : SUBSET Host, dies : SUBSET Host, parts : SUBSET SUBSET Host,
                    pool : {"INIT", "ACTIVE"}]
          /\ s.boots \cup s.live \cup s.excluded \cup s.dies \cup UNION s.parts \subseteq s.config
          /\ \A p, q \in s.parts : p = q \/ p \cap q = {}

VARIABLES
    config,     \* the configured hosts
    parts,      \* the hosts that hear each other are in one part
    pool,       \* the pool state in the State-File
    excluded,   \* the hosts whose excluded flag is set
    dying,      \* the hosts that may still crash
    smat,       \* smat[i]: where the SM thread of host i is
    current,    \* current[i]: psm->current_liveset
    proposed,   \* proposed[i]: psm->proposed_liveset
    ctl_join,   \* ctl_join[i]: phb->ctl.join
    starting,   \* starting[i]: psf->ctl.starting
    copies,     \* copies[i]: what test_Start_Criteria() of i decides on
    hbdom,      \* hbdom[i]: phb->hbdomain
    hbraw,      \* hbraw[i][j]: what i last used of j's heartbeats
    disk,       \* disk[j]: j's section of the State-File
    sfdom,      \* the hosts whose sections are up to date
    due         \* the hosts whose time is over

joinvars == <<config, parts, pool, excluded, dying, smat, current, proposed, ctl_join, starting,
              copies, hbdom, hbraw, disk, sfdom, due>>
scene == <<config, parts, pool, excluded, dying>>
media == <<hbdom, hbraw, disk, sfdom>>
smvars == <<current, proposed, ctl_join, starting>>

Linked(i, j) == \E p \in parts : {i, j} \subseteq p

NoCopies == [exists |-> FALSE, hb |-> {}, sf |-> {}, nonstarting |-> {}, joining |-> {},
             excludedmap |-> {}, pool |-> "ACTIVE", excluded |-> FALSE]

Packet(i) == [current |-> current[i], proposed |-> proposed[i], joining |-> ctl_join[i]]
Section(i) == [current |-> current[i], starting |-> starting[i], hbdomain |-> hbdom[i]]

(* A liveset whose hosts know of each other, except that those of it that  *)
(* boot have just been reset; everybody else is off.                       *)
StartsFrom(s) ==
    LET Runs(i) == i \in s.live \ s.boots
        Live(i) == IF Runs(i) THEN s.live ELSE {}
    IN  /\ config = s.config /\ parts = s.parts /\ pool = s.pool /\ excluded = s.excluded
        /\ dying = s.dies
        /\ smat = [i \in Host |-> IF i \in s.boots THEN "off"
                                  ELSE IF Runs(i) THEN "started" ELSE "never"]
        /\ current = [i \in Host |-> Live(i)] /\ proposed = current
        /\ ctl_join = [i \in Host |-> FALSE] /\ starting = [i \in Host |-> FALSE]
        /\ copies = [i \in Host |-> NoCopies]
        /\ hbdom = [i \in Host |-> {i} \cup Live(i)]
        /\ hbraw = [i \in Host |-> [j \in Host |->
               [current |-> Live(i), proposed |-> Live(i), joining |-> FALSE]]]
        /\ disk = [j \in Host |-> [current |-> IF j \in s.live THEN s.live ELSE {},
                                   starting |-> FALSE,
                                   hbdomain |-> IF j \in s.live THEN s.live ELSE {j}]]
        /\ sfdom = s.live
        /\ due = {}

JoinInit == \E s \in Scenario : StartsFrom(s)

Running(i) == smat[i] \notin {"off", "never", "aborted"}

(* The host is in a liveset, and says so itself. *)
Member(i) == Running(i) /\ i \in current[i]

(* Whose time is over does not wait again before test_Start_Criteria() has *)
(* ended; the wait for all hosts to propose lasts longer, and join() has   *)
(* its own time.                                                           *)
GoTo(i, where) ==
    /\ smat' = [smat EXCEPT ![i] = where]
    /\ due' = IF where \in {"copy", "decide", "loop"} THEN due ELSE due \ {i}

(* Mutant: the time goes on after the end. *)
sm_abort_due(i) == smat' = [smat EXCEPT ![i] = "aborted"] /\ UNCHANGED due

(* sm_abort(): heartbeats and writes end. *)
sm_abort(i) == smat' = [smat EXCEPT ![i] = "aborted"] /\ due' = due \ {i}

-----------------------------------------------------------------------------
(* Who is in says so in its section: from form_new_liveset() to the write  *)
(* the code waits for nothing, while who starts waits for T1 and T2.       *)
Told == \A i \in Host : Member(i) => ~ disk[i].starting

(* start_statefile() and start_heartbeat() *)
start(i) ==
    /\ smat[i] = "off" /\ due = {} /\ Told
    /\ starting' = [starting EXCEPT ![i] = TRUE]
    /\ GoTo(i, "down")
    /\ UNCHANGED <<scene, current, proposed, ctl_join, copies, media>>

(* wait_all_hosts_up_on_heartbeat() and _on_statefile() have waited for T1 *)
(* and T2: a host that has been running as long was heard, and a section   *)
(* that nobody updates, or that is from before a reset, does not count.    *)
HasListened(i) ==
    /\ \A j \in Host \ {i} : Running(j) /\ smat[j] # "down" =>
          (Linked(i, j) => j \in hbdom[i]) /\ j \in sfdom
    /\ i \in sfdom
    /\ \A j \in sfdom : Running(j) /\ (smat[j] = "down" => disk[j].starting)

(* wait_all_hosts_recognize_I_was_down(), and set_heartbeat_join() *)
recognized_down(i) ==
    \A j \in Host \ {i} :
        /\ j \in hbdom[i] => i \notin hbraw[i][j].current
        /\ j \in sfdom => i \notin disk[j].current

wait_all_hosts_recognize_I_was_down(i) ==
    /\ smat[i] = "down" /\ HasListened(i) /\ recognized_down(i)
    /\ ctl_join' = [ctl_join EXCEPT ![i] = TRUE]
    /\ copies' = [copies EXCEPT ![i] = [NoCopies EXCEPT !.pool = pool, !.excluded = i \in excluded]]
    /\ GoTo(i, "copy")
    /\ UNCHANGED <<scene, current, proposed, starting, media>>

recognize_timeout(i) ==
    /\ smat[i] = "down" /\ i \in due
    /\ sm_abort(i)
    /\ UNCHANGED <<scene, smvars, copies, media>>

-----------------------------------------------------------------------------
(* test_Start_Criteria().  The pool state and the excluded flag were read  *)
(* once; the objects are copied under their locks, ...                     *)
Copied(i) ==
    [copies[i] EXCEPT
        !.hb = hbdom[i], !.sf = sfdom, !.excludedmap = excluded,
        !.nonstarting = {j \in sfdom : ~ disk[j].starting},
        !.joining = {j \in hbdom[i] : IF j = i THEN TRUE ELSE hbraw[i][j].joining},
        !.exists = \E j \in sfdom : ~ disk[j].starting]

criteria_copy(i) ==
    /\ smat[i] = "copy" \/ (smat[i] = "loop" /\ Copied(i) # copies[i])
    /\ copies' = [copies EXCEPT ![i] = Copied(i)]
    /\ GoTo(i, "decide")
    /\ UNCHANGED <<scene, smvars, media>>

(* am_I_in_new_liveset(): what the first host of the set says of me.       *)
am_I_in_new_liveset(i, set) == set # {} /\ i \in disk[Min(set)].current

(* form_new_liveset(), in the SM and in the HB object.                     *)
form_new_liveset(i, liveset) ==
    /\ proposed' = [proposed EXCEPT ![i] = liveset]
    /\ current' = [current EXCEPT ![i] = liveset]
    /\ ctl_join' = [ctl_join EXCEPT ![i] = FALSE]
    /\ GoTo(i, "formed")
    /\ UNCHANGED starting

(* ... and then looked at.  There is a liveset before the pool is enabled: *)
(* an error.                                                               *)
criteria_invalid(i) ==
    /\ smat[i] = "decide" /\ copies[i].exists /\ copies[i].pool = "INIT"
    /\ sm_abort(i)
    /\ UNCHANGED <<scene, smvars, copies, media>>

(* No liveset, and everybody is there: this is proposed, ...               *)
criteria_all_up(i) ==
    /\ smat[i] = "decide" /\ ~ copies[i].exists
    /\ copies[i].hb = config /\ copies[i].sf = config
    /\ proposed' = [proposed EXCEPT ![i] = copies[i].hb]
    /\ GoTo(i, "booting")
    /\ UNCHANGED <<scene, current, ctl_join, starting, copies, media>>

(* Mutant: nobody is waited for. *)
wait_until_all_hosts_booted_not(i) ==
    /\ smat[i] = "booting"
    /\ GoTo(i, "booted")
    /\ UNCHANGED <<scene, smvars, copies, media>>

(* ... and everybody has to propose it: wait_until_all_hosts_booted().     *)
wait_until_all_hosts_booted(i) ==
    /\ smat[i] = "booting"
    /\ \A j \in hbdom[i] \ {i} : i \in hbraw[i][j].proposed
    /\ GoTo(i, "booted")
    /\ UNCHANGED <<scene, smvars, copies, media>>

(* What is then formed is what the SM object proposes by now, without the  *)
(* lock it was copied under.                                               *)
criteria_booted(i) ==
    /\ smat[i] = "booted"
    /\ form_new_liveset(i, proposed[i])
    /\ pool' = IF copies[i].pool = "INIT" THEN "ACTIVE" ELSE pool
    /\ UNCHANGED <<config, parts, excluded, dying, copies, media>>

(* There is a liveset, and it has me in already; ...                       *)
criteria_in_new(i) ==
    /\ smat[i] = "decide" /\ copies[i].exists /\ copies[i].pool = "ACTIVE"
    /\ am_I_in_new_liveset(i, copies[i].nonstarting)
    /\ form_new_liveset(i, disk[Min(copies[i].nonstarting)].current)
    /\ UNCHANGED <<scene, copies, media>>

(* ... or I hear everybody, and can join it.                               *)
criteria_join(i) ==
    /\ smat[i] = "decide" /\ copies[i].exists /\ copies[i].pool = "ACTIVE"
    /\ ~ am_I_in_new_liveset(i, copies[i].nonstarting)
    /\ copies[i].sf \subseteq copies[i].hb
    /\ proposed' = [proposed EXCEPT ![i] = copies[i].nonstarting]
    /\ current' = [current EXCEPT ![i] = copies[i].nonstarting]
    /\ GoTo(i, "join")
    /\ UNCHANGED <<scene, ctl_join, starting, copies, media>>

(* Neither: wait until something changes.                                  *)
criteria_loop(i) ==
    /\ smat[i] = "decide"
    /\ IF copies[i].exists
       THEN /\ copies[i].pool = "ACTIVE" /\ ~ am_I_in_new_liveset(i, copies[i].nonstarting)
            /\ ~ copies[i].sf \subseteq copies[i].hb
       ELSE copies[i].hb # config \/ copies[i].sf # config
    /\ GoTo(i, "loop")
    /\ UNCHANGED <<scene, smvars, copies, media>>

(* am_I_in_largest_partition(), of the objects as they are now.            *)
HbOf(i, j) == IF j = i THEN hbdom[i] ELSE disk[j].hbdomain

partition_size(i, j) == IF j \in sfdom THEN Cardinality(sfdom \cap HbOf(i, j)) ELSE 0

(* Mutant: a partition that is not smaller than others is the largest. *)
am_I_in_largest_partition_tie(i) ==
    \A j \in Host : partition_size(i, j) <= partition_size(i, i)

am_I_in_largest_partition(i) ==
    \E w \in sfdom :
        /\ \A j \in Host : \/ partition_size(i, j) < partition_size(i, w)
                           \/ partition_size(i, j) = partition_size(i, w) /\ w <= j
        /\ w = i \/ (i \in disk[w].hbdomain /\ w \in hbdom[i])

(* The time for test_Start_Criteria() is over.  (A wait for all hosts that *)
(* fails ends here as well: it lasts longer than the loop.)                *)
WaitedInVain(i) ==
    smat[i] \in {"loop", "booting"} /\ i \in due

timeout_exists(i) ==
    /\ WaitedInVain(i) /\ copies[i].exists
    /\ IF am_I_in_new_liveset(i, copies[i].nonstarting)
       THEN form_new_liveset(i, disk[Min(copies[i].nonstarting)].current)
       ELSE sm_abort(i) /\ UNCHANGED smvars
    /\ UNCHANGED <<scene, copies, media>>

(* Excluded, while some other host is not - by the copy, too.              *)
Blocked(i) == copies[i].excluded /\ copies[i].excludedmap # config

timeout_abort(i) ==
    /\ WaitedInVain(i) /\ ~ copies[i].exists
    /\ copies[i].pool = "INIT" \/ Blocked(i) \/ ~ am_I_in_largest_partition(i)
    /\ sm_abort(i)
    /\ UNCHANGED <<scene, smvars, copies, media>>

(* The largest partition starts, without those that do not want to join -  *)
(* by the copy that was made before the wait.                              *)
timeout_form(i) ==
    /\ WaitedInVain(i) /\ ~ copies[i].exists
    /\ copies[i].pool = "ACTIVE" /\ ~ Blocked(i) /\ am_I_in_largest_partition(i)
    /\ form_new_liveset(i, copies[i].hb \cap copies[i].joining)
    /\ UNCHANGED <<scene, copies, media>>

-----------------------------------------------------------------------------
(* The excluded flag is cleared before join(), which proposes the host, ...*)
ClearExcluded(i) == excluded' = excluded \ {i}

join(i) ==
    /\ smat[i] = "join"
    /\ ClearExcluded(i)
    /\ proposed' = [proposed EXCEPT ![i] = @ \cup {i}]
    /\ GoTo(i, "asking")
    /\ UNCHANGED <<config, parts, pool, dying, current, ctl_join, starting, copies, media>>

(* Mutant: somebody who proposes it is enough. *)
joined_by_one(i) == \E j \in current[i] \ {i} : i \in hbraw[i][j].proposed

(* ... waits until everybody in the liveset proposes it, and is in.        *)
joined(i) == \A j \in current[i] \ {i} : i \in hbraw[i][j].proposed

join_success(i) ==
    /\ smat[i] = "asking" /\ joined(i)
    /\ current' = [current EXCEPT ![i] = @ \cup {i}]
    /\ ctl_join' = [ctl_join EXCEPT ![i] = FALSE]
    /\ GoTo(i, "formed")
    /\ UNCHANGED <<scene, proposed, starting, copies, media>>

join_timeout(i) ==
    /\ smat[i] = "asking" /\ i \in due /\ ~ joined(i)
    /\ proposed' = [proposed EXCEPT ![i] = @ \ {i}]
    /\ ctl_join' = [ctl_join EXCEPT ![i] = FALSE]
    /\ sm_abort(i)
    /\ UNCHANGED <<scene, current, starting, copies, media>>

(* clear_statefile_starting() and the rest.                                *)
started(i) ==
    /\ smat[i] = "formed"
    /\ ClearExcluded(i)
    /\ starting' = [starting EXCEPT ![i] = FALSE]
    /\ GoTo(i, "started")
    /\ UNCHANGED <<config, parts, pool, dying, current, proposed, ctl_join, copies, media>>

-----------------------------------------------------------------------------
(* process_join_request() of host i, once per round of its worker, and as  *)
(* soon as the SM thread has anything in current_liveset: who asks to be   *)
(* in is proposed, and is in when everybody proposes it; who is in by its  *)
(* own account is in.                                                      *)
Asks(i, j) ==
    j \in hbdom[i] \ {i} /\ j \notin hbraw[i][j].current /\ j \in hbraw[i][j].proposed
IsIn(i, j) == j \in hbdom[i] \ {i} /\ j \in hbraw[i][j].current

Accepted(i) == {j \in Host : Asks(i, j) /\ j \in sfdom} \cup ({j \in Host : IsIn(i, j)} \ current[i])

Allowed(i) ==
    {j \in Host \ current[i] : Asks(i, j) /\
        \A k \in current[i] :
            j \in IF k = i THEN proposed[i] \cup Accepted(i) ELSE hbraw[i][k].proposed}

(* Mutant: only those that ask get in. *)
process_join_request_asked(i) ==
    /\ Running(i) /\ current[i] # {}
    /\ proposed' = [proposed EXCEPT ![i] = @ \cup Accepted(i)]
    /\ current' = [current EXCEPT ![i] = @ \cup Allowed(i)]
    /\ UNCHANGED <<scene, smat, ctl_join, starting, copies, media, due>>

process_join_request(i) ==
    /\ Running(i) /\ current[i] # {}
    /\ proposed' = [proposed EXCEPT ![i] = @ \cup Accepted(i)]
    /\ current' = [current EXCEPT ![i] = @ \cup Allowed(i) \cup {j \in Host : IsIn(i, j)}]
    /\ UNCHANGED <<scene, smat, ctl_join, starting, copies, media, due>>

-----------------------------------------------------------------------------
(* The media.  A packet is used unless it is from a host that is in my     *)
(* liveset and not in its own.                                             *)
ignored(i, j) == j \notin current[j] /\ j \in current[i]

receive_hb(i, j) ==
    /\ i # j /\ Running(i) /\ Running(j) /\ Linked(i, j) /\ ~ ignored(i, j)
    /\ hbraw' = [hbraw EXCEPT ![i][j] = Packet(j)]
    /\ hbdom' = [hbdom EXCEPT ![i] = @ \cup {j}]
    /\ UNCHANGED <<scene, smat, smvars, copies, disk, sfdom, due>>

(* Silent for T1, or not listened to. *)
silent_hb(i, j) ==
    /\ Running(i) /\ j \in hbdom[i] \ {i} /\ (~ Running(j) \/ ignored(i, j)) /\ due = {}
    /\ hbdom' = [hbdom EXCEPT ![i] = @ \ {j}]
    /\ UNCHANGED <<scene, smat, smvars, copies, hbraw, disk, sfdom, due>>

write_hostspecific(i) ==
    /\ Running(i)
    /\ disk' = [disk EXCEPT ![i] = Section(i)]
    /\ sfdom' = sfdom \cup {i}
    /\ UNCHANGED <<scene, smat, smvars, copies, hbdom, hbraw, due>>

silent_sf(j) ==
    /\ j \in sfdom /\ ~ Running(j) /\ due = {}
    /\ sfdom' = sfdom \ {j}
    /\ UNCHANGED <<scene, smat, smvars, copies, hbdom, hbraw, disk, due>>

(* The fault handler of the hosts that count k in, which is gone or back   *)
(* as somebody who is not in a liveset.                                    *)
Forgotten(k) == {i \in Host : Member(i) /\ k \in current[i] /\ k \notin hbdom[i]}

fault_handler(k) ==
    /\ ~ Member(k) /\ smat[k] \in {"off", "never", "down", "aborted"} /\ Forgotten(k) # {}
    /\ \A i \in Host : Member(i) /\ k \in current[i] => i \in Forgotten(k)
    /\ current' = [i \in Host |-> IF i \in Forgotten(k) THEN current[i] \ {k} ELSE current[i]]
    /\ proposed' = [i \in Host |-> IF i \in Forgotten(k) THEN proposed[i] \ {k} ELSE proposed[i]]
    /\ UNCHANGED <<scene, smat, ctl_join, starting, copies, media, due>>

(* A host of the liveset crashes. *)
dies(i) ==
    /\ smat[i] = "started" /\ i \in dying
    /\ dying' = dying \ {i}
    /\ sm_abort(i)
    /\ UNCHANGED <<config, parts, pool, excluded, smvars, copies, media>>

(* Whatever is said has been heard and acted on, except that a fault may   *)
(* take longer to handle: those that still wait will have waited in vain.  *)
Waiting == {i \in Host : smat[i] \in {"down", "loop", "booting", "asking"}}

Settled ==
    /\ \A i \in Host : Running(i) =>
          /\ smat[i] \in {"down", "loop", "booting", "asking", "started"}
          /\ disk[i] = Section(i) /\ i \in sfdom
          /\ \A j \in Host \ {i} :
                IF Running(j) /\ Linked(i, j) /\ ~ ignored(i, j)
                THEN hbraw[i][j] = Packet(j) /\ j \in hbdom[i]
                ELSE j \notin hbdom[i]
          /\ current[i] # {} =>
                Accepted(i) \subseteq proposed[i]
                /\ Allowed(i) \cup {j \in Host : IsIn(i, j)} \subseteq current[i]
    /\ \A j \in sfdom : Running(j)
    /\ \A i \in Host :
          /\ smat[i] = "down" => ~ recognized_down(i)
          /\ smat[i] = "loop" => Copied(i) = copies[i]
          /\ smat[i] = "booting" => ~ \A j \in hbdom[i] \ {i} : i \in hbraw[i][j].proposed
          /\ smat[i] = "asking" => ~ joined(i)

TimePasses ==
    /\ ~ Waiting \subseteq due /\ Settled
    /\ due' = Waiting
    /\ UNCHANGED <<scene, smat, smvars, copies, media>>

-----------------------------------------------------------------------------
SmThread(i) ==
    \/ wait_all_hosts_recognize_I_was_down(i) \/ recognize_timeout(i)
    \/ criteria_copy(i) \/ criteria_invalid(i) \/ criteria_all_up(i)
    \/ wait_until_all_hosts_booted(i) \/ criteria_booted(i)
    \/ criteria_in_new(i) \/ criteria_join(i) \/ criteria_loop(i)
    \/ timeout_exists(i) \/ timeout_abort(i) \/ timeout_form(i)
    \/ join(i) \/ join_success(i) \/ join_timeout(i) \/ started(i)

MediaStep ==
    \/ \E i, j \in Host : receive_hb(i, j) \/ silent_hb(i, j)
    \/ \E i \in Host : write_hostspecific(i) \/ silent_sf(i)

JoinNext ==
    \/ \E i \in Host : start(i) \/ SmThread(i) \/ process_join_request(i)
    \/ MediaStep
    \/ (\E k \in Host : fault_handler(k) \/ dies(k)) \/ TimePasses

(* Heartbeats and writes go on, the threads are scheduled, and time passes.*)
JoinFairness ==
    /\ \A i \in Host : WF_joinvars(SmThread(i)) /\ WF_joinvars(process_join_request(i))
    /\ \A i, j \in Host : WF_joinvars(receive_hb(i, j)) /\ WF_joinvars(silent_hb(i, j))
    /\ \A i \in Host : WF_joinvars(write_hostspecific(i)) /\ WF_joinvars(silent_sf(i))
    /\ \A k \in Host : WF_joinvars(fault_handler(k))
    /\ WF_joinvars(TimePasses)

JoinSpec == JoinInit /\ [][JoinNext]_joinvars /\ JoinFairness

-----------------------------------------------------------------------------
(* The values of the objects and the places of the threads. *)
JoinTypeOK ==
    /\ smat \in [Host -> {"never", "off", "down", "copy", "decide", "loop", "booting", "booted",
                          "join", "asking", "formed", "started", "aborted"}]
    /\ pool \in {"INIT", "ACTIVE"} /\ excluded \subseteq Host
    /\ current \in [Host -> SUBSET Host] /\ proposed \in [Host -> SUBSET Host]
    /\ ctl_join \in [Host -> BOOLEAN] /\ starting \in [Host -> BOOLEAN]
    /\ hbdom \in [Host -> SUBSET Host] /\ sfdom \subseteq Host
    /\ due \subseteq {i \in Host : smat[i] \in {"down", "copy", "decide", "loop", "booting", "asking"}}

(* Two hosts in livesets are never in separate ones, whether they hear     *)
(* each other or not, although each formed or joined its liveset by what   *)
(* it last heard: both count the same host in, which is in.  (Two that     *)
(* join at once may not yet have each other.)                              *)
NeverApart ==
    \A i, j \in Host : Member(i) /\ Member(j) => \E k \in current[i] \cap current[j] : Member(k)

(* Whom join() is about to let in is proposed by the hosts it joins: what  *)
(* it last heard of them still holds.                                      *)
Consent ==
    \A i, j \in Host :
        smat[j] = "asking" /\ joined(j) /\ i \in current[j] \ {j} /\ Running(i) => j \in proposed[i]

(* A host that no longer waits for others forms what all of them propose,  *)
(* although form_new_liveset() is given the proposal of the moment, except *)
(* that by then some may have formed a liveset, with or without it.        *)
FormsWhatAllPropose ==
    \A i \in Host : smat[i] = "booted" =>
        \A j \in proposed[i] : Running(j) /\ ~ Member(j) => i \in proposed[j]

(* In the end every host is in or has given up, and the hosts that are in  *)
(* and hear each other have the same liveset.                              *)
Settles ==
    <>[] /\ \A i \in Host : smat[i] \in {"off", "never", "started", "aborted"}
         /\ \A i, j \in Host : Member(i) /\ Member(j) /\ Linked(i, j) => current[i] = current[j]
=============================================================================
