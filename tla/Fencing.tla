------------------------------ MODULE Fencing ------------------------------
(***************************************************************************)
(* The life of one daemon and of its watchdog timers: main.c brings the    *)
(* components up and down, the heartbeat and the State-File thread each    *)
(* keep a timer of the hypervisor from expiring (watchdog.c), a script may *)
(* disarm fencing (sc_func.c), and self_fence() lets the host be reset.    *)
(* The ids of the timers are kept in a file, from which cleanupwatchdog    *)
(* stops the timers of a daemon that is gone.                              *)
(*                                                                         *)
(* Times are abstracted: a timer that was just made is set so far ahead    *)
(* (WATCHDOG_TIMEOUT_MAX) that it does not expire, any other may.          *)
(***************************************************************************)
EXTENDS Naturals, Sequences, FiniteSets

CONSTANTS
    Timer,      \* the hypervisor's timers for this domain
    NoTimer,    \* INVALID_WATCHDOG_HANDLE_VALUE, and no file
    MaxFaults   \* bound: calls of the system that fail

ASSUME FencingAssumption ==
    /\ IsFiniteSet(Timer) /\ NoTimer \notin Timer /\ (\A S \in SUBSET Timer : NoTimer # S)
    /\ MaxFaults \in Nat

init_funcs == <<"com", "sf", "lm", "bm", "hb", "xapimon", "script", "hostweight", "sm">>

Watched == {"hb", "sf"}

VARIABLES
    stage,      \* main(): "up", "run", "down" (also to undo a failed start) or "exited"
    phase,      \* of the initialisation
    init_index,
    terminate_requested,
    hbthread,   \* "none", "runs", "terminate" (asked to stop), "ended", or "closing": main() has
                \* joined it, read its timer's handle, and is about to close the timer
    sfthread,   \* whether sfvar.sf_thread is set
    service,    \* what the script service does
    sm,         \* how far the SM thread is: "none", "starting", "armed", "online"
    fencing,    \* of the SM, HB and SF object, and of smvar
    watchdog,   \* hbvar.watchdog and sfvar.watchdog
    instance,   \* the timers watchdog.c knows of
    timer,      \* the hypervisor's view of each
    recorder,   \* recorder[thread]: what it is about to put in the file
    file,       \* WATCHDOG_INSTANCE_ID_FILE
    fencer,     \* who calls self_fence(): "none", "passed" its test, or "keeps" watchdog_mutex for ever
    freed_twice, \* an instance was freed a second time
    faults,     \* calls that failed so far
    disarmed    \* a request to disarm was answered with success

fenvars == <<stage, phase, init_index, terminate_requested, hbthread, sfthread, service, sm,
             fencing, watchdog, instance, timer, recorder, file, fencer,
             freed_twice, faults, disarmed>>
mainvars == <<stage, phase, init_index>>
dogvars == <<instance, timer, recorder, file, fencer, freed_twice>>
threads == <<hbthread, sfthread, service, sm>>

FenInit ==
    /\ stage = "up" /\ phase = 0 /\ init_index = 1
    /\ terminate_requested = FALSE
    /\ hbthread = "none" /\ sfthread = FALSE /\ service = "none" /\ sm = "none"
    /\ fencing = [SM |-> "NONE", HB |-> "ARMED", SF |-> "ARMED", smvar |-> "NONE"]
    /\ watchdog = [c \in Watched |-> NoTimer]
    /\ instance = {}
    /\ timer = [w \in Timer |-> "off"]
    /\ recorder = [main |-> NoTimer, service |-> NoTimer]
    /\ file = NoTimer
    /\ fencer = "none" /\ freed_twice = FALSE
    /\ faults = 0
    /\ disarmed = FALSE

(* watchdog_mutex can be had. *)
MutexFree == fencer # "keeps"

Alive == stage # "exited" /\ ~ \E w \in Timer : timer[w] = "expired"

-----------------------------------------------------------------------------
(* watchdog.c, called by t. *)

(* Mutant: the new timer is not put in the file. *)
watchdog_create_unrecorded(t, c, w) ==
    /\ timer[w] = "off" /\ MutexFree
    /\ timer' = [timer EXCEPT ![w] = "far"]
    /\ instance' = instance \cup {w}
    /\ watchdog' = [watchdog EXCEPT ![c] = w]
    /\ UNCHANGED <<recorder, file, fencer, freed_twice>>

(* The hypercall may fail when there is no timer left, or for any reason.  *)
watchdog_create(t, c, w) ==
    /\ timer[w] = "off" /\ MutexFree
    /\ timer' = [timer EXCEPT ![w] = "far"]
    /\ instance' = instance \cup {w}
    /\ recorder' = [recorder EXCEPT ![t] = instance']
    /\ watchdog' = [watchdog EXCEPT ![c] = w]
    /\ UNCHANGED <<file, fencer, freed_twice>>

(* The hypervisor does what it is asked, or the call fails. *)
do_watchdog_hypercall(w, to) ==
    \/ timer' = [timer EXCEPT ![w] = to] /\ UNCHANGED faults
    \/ faults < MaxFaults /\ faults' = faults + 1 /\ UNCHANGED timer

(* An instance that was freed is used and freed again: its id is that of   *)
(* no timer, or whatever the memory holds now.                             *)
close_freed ==
    /\ UNCHANGED timer \/ \E v \in Timer : timer' = [timer EXCEPT ![v] = "off"]
    /\ freed_twice' = TRUE
    /\ UNCHANGED faults

(* A failed hypercall is only logged; the instance is forgotten.           *)
watchdog_close(t, w) ==
    /\ MutexFree
    /\ \/ w \in instance /\ do_watchdog_hypercall(w, "off") /\ UNCHANGED freed_twice
       \/ w \notin instance /\ close_freed
       \/ w = NoTimer /\ UNCHANGED <<timer, freed_twice, faults>>
    /\ instance' = instance \ {w}
    /\ recorder' = [recorder EXCEPT ![t] = instance']
    /\ UNCHANGED <<file, fencer>>

(* record_watchdog_instatnce(), after watchdog_mutex was let go: what it   *)
(* writes may be out of date.                                              *)
record_watchdog_instance(t) ==
    /\ Alive /\ recorder[t] # NoTimer
    /\ file' = IF recorder[t] = {} THEN NoTimer ELSE recorder[t]
    /\ recorder' = [recorder EXCEPT ![t] = NoTimer]
    /\ UNCHANGED <<mainvars, terminate_requested, threads, fencing, watchdog, instance, timer,
                   fencer, freed_twice, faults, disarmed>>

watchdog_set(c) ==
    /\ MutexFree
    /\ timer' = [timer EXCEPT ![watchdog[c]] = IF @ = "off" THEN "off" ELSE "set"]
    /\ UNCHANGED <<instance, recorder, file, fencer, freed_twice>>

(* Without an instance a timer is made for the purpose. *)
watchdog_selffence ==
    /\ MutexFree
    /\ fencer' = "keeps"
    /\ IF instance = {}
       THEN \/ \E w \in Timer : timer[w] = "off" /\ timer' = [timer EXCEPT ![w] = "fence"]
            \/ (\A w \in Timer : timer[w] # "off") /\ UNCHANGED timer
       ELSE timer' = [w \in Timer |-> IF w \in instance THEN "fence" ELSE timer[w]]
    /\ UNCHANGED <<instance, recorder, file, freed_twice>>

(* The hypervisor: a timer that is running expires and the host is reset.  *)
Expire(w) ==
    /\ \A v \in Timer : timer[v] # "expired"
    /\ timer[w] \in {"set", "fence"}
    /\ timer' = [timer EXCEPT ![w] = "expired"]
    /\ UNCHANGED <<mainvars, terminate_requested, threads, fencing, watchdog, instance, recorder,
                   file, fencer, freed_twice, faults, disarmed>>

-----------------------------------------------------------------------------
(* main() *)
Calling(func, in) ==
    /\ Alive /\ stage = in /\ recorder.main = NoTimer
    /\ init_index > 0 /\ init_funcs[init_index] = func

Called ==
    /\ IF init_index < Len(init_funcs)
       THEN init_index' = init_index + 1 /\ UNCHANGED <<phase, stage>>
       ELSE /\ phase' = phase + 1
            /\ stage' = IF phase = 1 THEN "run" ELSE stage
            /\ init_index' = IF phase = 1 THEN init_index ELSE 1

(* What has been done in this phase is undone. *)
Failed ==
    /\ faults < MaxFaults /\ faults' = faults + 1
    /\ stage' = "down" /\ init_index' = init_index - 1
    /\ UNCHANGED phase

Undone == init_index' = init_index - 1 /\ UNCHANGED <<stage, phase>>

(* A call that matters here neither way, or fails. *)
initialize_other ==
    /\ \E f \in {"com", "sf", "lm", "bm", "hb", "xapimon", "script", "hostweight", "sm"} :
          Calling(f, "up") /\ (phase = 0 \/ f \notin {"sf", "hb", "script", "sm"})
    /\ (Called /\ UNCHANGED faults) \/ Failed
    /\ UNCHANGED <<terminate_requested, threads, fencing, watchdog, dogvars, disarmed>>

(* sf_initialize(1): the timer, then the thread. *)
sf_initialize1 ==
    /\ Calling("sf", "up") /\ phase = 1
    /\ \/ /\ Failed
          /\ \/ UNCHANGED <<watchdog, dogvars>>
             \/ \E w \in Timer : watchdog_create("main", "sf", w)
          /\ UNCHANGED sfthread
       \/ /\ \E w \in Timer : watchdog_create("main", "sf", w)
          /\ sfthread' = TRUE /\ Called /\ UNCHANGED faults
    /\ UNCHANGED <<terminate_requested, hbthread, service, sm, fencing, disarmed>>

(* hb_initialize(1): the timer, the receiver, then the sender. *)
hb_initialize1 ==
    /\ Calling("hb", "up") /\ phase = 1
    /\ \/ /\ Failed
          /\ \/ UNCHANGED <<watchdog, dogvars>> /\ UNCHANGED hbthread
             \/ /\ \E w \in Timer : watchdog_create("main", "hb", w)
                /\ hbthread' \in {"none", "runs"}
       \/ /\ \E w \in Timer : watchdog_create("main", "hb", w)
          /\ hbthread' = "runs" /\ Called /\ UNCHANGED faults
    /\ UNCHANGED <<terminate_requested, sfthread, service, sm, fencing, disarmed>>

script_initialize1 ==
    /\ Calling("script", "up") /\ phase = 1
    /\ service' = "idle"
    /\ (Called /\ UNCHANGED faults) \/ Failed
    /\ UNCHANGED <<terminate_requested, hbthread, sfthread, sm, fencing, watchdog, dogvars, disarmed>>

sm_initialize1 ==
    /\ Calling("sm", "up") /\ phase = 1
    /\ \/ Called /\ sm' = "starting" /\ UNCHANGED faults
       \/ Failed /\ sm' \in {"none", "starting"}
    /\ UNCHANGED <<terminate_requested, hbthread, sfthread, service, fencing, watchdog, dogvars, disarmed>>

(* SIGTERM, or main_terminate() of the SM or the State-File thread. *)
main_terminate ==
    /\ Alive /\ (stage = "run" \/ sfthread) /\ ~ terminate_requested
    /\ terminate_requested' = TRUE
    /\ UNCHANGED <<mainvars, threads, fencing, watchdog, dogvars, faults, disarmed>>

main_loop ==
    /\ Alive /\ stage = "run" /\ terminate_requested
    /\ stage' = "down" /\ init_index' = Len(init_funcs)
    /\ UNCHANGED <<phase, terminate_requested, threads, fencing, watchdog, dogvars, faults, disarmed>>

(* The threads of the SM and of the script service go on. *)
sm_terminate ==
    /\ Calling("sm", "down")
    /\ fencing' = [fencing EXCEPT !.SM = "DISARMED", !.smvar = "DISARMED"]
    /\ Undone
    /\ UNCHANGED <<terminate_requested, threads, watchdog, dogvars, faults, disarmed>>

terminate_other ==
    /\ \E f \in {"com", "lm", "bm", "xapimon", "hostweight", "script"} : Calling(f, "down")
    /\ Undone
    /\ UNCHANGED <<terminate_requested, threads, fencing, watchdog, dogvars, faults, disarmed>>

(* hb_initialize(-1): ask the threads to stop, join them, ... *)
hb_terminate ==
    /\ Calling("hb", "down") /\ hbthread = "runs"
    /\ hbthread' = "terminate"
    /\ UNCHANGED <<mainvars, terminate_requested, sfthread, service, sm, fencing, watchdog, dogvars,
                   faults, disarmed>>

(* ... see whether there is a timer, without hbvar.lock, ...               *)
hb_terminate_test ==
    /\ Calling("hb", "down") /\ hbthread \in {"none", "ended"}
    /\ IF watchdog["hb"] # NoTimer
       THEN hbthread' = "closing" /\ UNCHANGED mainvars
       ELSE Undone /\ UNCHANGED hbthread
    /\ UNCHANGED <<terminate_requested, sfthread, service, sm, fencing, watchdog, dogvars, faults,
                   disarmed>>

(* ... and stop it.  The handle keeps its value.  When a script has        *)
(* disarmed fencing since the test, what it stood for is freed, or, if     *)
(* main() reads the handle a second time, it is none.                      *)
hb_terminate_close ==
    /\ Calling("hb", "down") /\ hbthread = "closing"
    /\ watchdog_close("main", watchdog["hb"])
    /\ hbthread' = "ended"
    /\ Undone
    /\ UNCHANGED <<terminate_requested, sfthread, service, sm, fencing, watchdog, disarmed>>

(* sf_initialize(-1), under sfvar.lock.  The thread goes on. *)
sf_terminate ==
    /\ Calling("sf", "down")
    /\ IF sfthread /\ watchdog["sf"] # NoTimer
       THEN watchdog_close("main", watchdog["sf"]) /\ watchdog' = [watchdog EXCEPT !["sf"] = NoTimer]
       ELSE UNCHANGED <<watchdog, dogvars, faults>>
    /\ Undone
    /\ UNCHANGED <<terminate_requested, threads, fencing, disarmed>>

main_exit ==
    /\ Alive /\ stage = "down" /\ init_index = 0
    /\ stage' = "exited"
    /\ UNCHANGED <<phase, init_index, terminate_requested, threads, fencing, watchdog, dogvars,
                   faults, disarmed>>

-----------------------------------------------------------------------------
(* Mutant: the request to stop is only read when there is a timer. *)
hb_receive_deaf ==
    /\ Alive /\ hbthread \in {"runs", "terminate"}
    /\ IF watchdog["hb"] # NoTimer
       THEN watchdog_set("hb") /\ hbthread' = IF hbthread = "terminate" THEN "ended" ELSE hbthread
       ELSE UNCHANGED <<dogvars, hbthread>>
    /\ UNCHANGED <<mainvars, terminate_requested, sfthread, service, sm, fencing, watchdog, faults, disarmed>>

(* The heartbeat thread, once per t1. *)
hb_receive ==
    /\ Alive /\ hbthread \in {"runs", "terminate"}
    /\ IF watchdog["hb"] # NoTimer THEN watchdog_set("hb") ELSE UNCHANGED dogvars
    /\ hbthread' = IF hbthread = "terminate" THEN "ended" ELSE hbthread
    /\ UNCHANGED <<mainvars, terminate_requested, sfthread, service, sm, fencing, watchdog, faults, disarmed>>

(* The State-File thread, once per cycle, and the SM worker under SR2. *)
sf_watchdog_set ==
    /\ Alive /\ sfthread /\ watchdog["sf"] # NoTimer
    /\ watchdog_set("sf")
    /\ UNCHANGED <<mainvars, terminate_requested, threads, fencing, watchdog, faults, disarmed>>

(* The SM thread has joined: fencing is armed, then the host is online.    *)
arm_fencing ==
    /\ Alive /\ sm = "starting"
    /\ fencing' = [fencing EXCEPT !.SM = "ARMED", !.smvar = "ARMED"]
    /\ sm' = "armed"
    /\ UNCHANGED <<mainvars, terminate_requested, hbthread, sfthread, service, watchdog, dogvars,
                   faults, disarmed>>

set_sm_phase ==
    /\ Alive /\ sm = "armed"
    /\ sm' = "online"
    /\ UNCHANGED <<mainvars, terminate_requested, hbthread, sfthread, service, fencing, watchdog,
                   dogvars, faults, disarmed>>

(* A host that has lost, or is asked to, resets itself - if fencing is     *)
(* armed; otherwise the caller goes on.  The test takes no lock, ...       *)
self_fence ==
    /\ Alive /\ fencing.smvar = "ARMED" /\ fencer = "none"
    /\ fencer' = "passed"
    /\ UNCHANGED <<mainvars, terminate_requested, threads, fencing, watchdog, instance, timer, recorder,
                   file, freed_twice, faults, disarmed>>

(* ... and who has passed it logs the reason, and fences whatever has been *)
(* said since.                                                             *)
self_fence_reset ==
    /\ Alive /\ fencer = "passed"
    /\ watchdog_selffence
    /\ UNCHANGED <<mainvars, terminate_requested, threads, fencing, watchdog, faults, disarmed>>

(* The allocator may notice that something was freed twice, and abort.     *)
Abort ==
    /\ Alive /\ freed_twice
    /\ stage' = "exited"
    /\ UNCHANGED <<phase, init_index, terminate_requested, threads, fencing, watchdog, dogvars, faults,
                   disarmed>>

-----------------------------------------------------------------------------
(* Mutant: fencing may be disarmed before the host is online. *)
disarm_begin_anytime ==
    /\ Alive /\ service = "idle" /\ sm # "none"
    /\ fencing' = [fencing EXCEPT !.SM = "DISARMED", !.smvar = "DISARMED"]
    /\ service' = "hb"
    /\ UNCHANGED <<mainvars, terminate_requested, hbthread, sfthread, sm, watchdog, dogvars, faults, disarmed>>

(* script_service_do_disarm_fencing().  Each object is asked in turn and   *)
(* its callback answers before the writer's lock is let go: SM, ...        *)
disarm_begin ==
    /\ Alive /\ service = "idle" /\ sm = "online"
    /\ fencing' = IF fencing.SM \in {"ARMED", "NONE"}
                  THEN [fencing EXCEPT !.SM = "DISARMED", !.smvar = "DISARMED"] ELSE fencing
    /\ service' = "hb"
    /\ UNCHANGED <<mainvars, terminate_requested, hbthread, sfthread, sm, watchdog, dogvars, faults, disarmed>>

Disarm(c, obj) ==
    /\ Alive /\ service = c /\ recorder.service = NoTimer
    /\ IF fencing[obj] = "ARMED" /\ watchdog[c] # NoTimer
       THEN watchdog_close("service", watchdog[c]) /\ watchdog' = [watchdog EXCEPT ![c] = NoTimer]
       ELSE UNCHANGED <<watchdog, dogvars, faults>>
    /\ fencing' = [fencing EXCEPT ![obj] = "DISARMED"]
    /\ UNCHANGED <<mainvars, terminate_requested, hbthread, sfthread, sm, disarmed>>

(* ... HB, ... *)
hb_hb_updated == Disarm("hb", "HB") /\ service' = "sf"

(* ... and SF. *)
sf_sf_updated == Disarm("sf", "SF") /\ service' = "answer"

(* All three are seen disarmed, and the script gets its answer. *)
disarm_end ==
    /\ Alive /\ service = "answer" /\ recorder.service = NoTimer
    /\ fencing.SM = "DISARMED" /\ fencing.HB = "DISARMED" /\ fencing.SF = "DISARMED"
    /\ service' = "idle" /\ disarmed' = TRUE
    /\ UNCHANGED <<mainvars, terminate_requested, hbthread, sfthread, sm, fencing, watchdog, dogvars, faults>>

(* A successful set_excluded ends the daemon with its timers running, so   *)
(* that the host is reset.                                                 *)
script_service_check_after_set_excluded ==
    /\ Alive /\ service = "idle"
    /\ stage' = "exited"
    /\ UNCHANGED <<phase, init_index, terminate_requested, threads, fencing, watchdog, dogvars, faults, disarmed>>

(* cleanupwatchdog, which the start script runs when the daemon is gone.   *)
cleanupwatchdog ==
    /\ stage = "exited" /\ file # NoTimer /\ \A w \in Timer : timer[w] # "expired"
    /\ timer' = [w \in Timer |-> IF w \in file THEN "off" ELSE timer[w]]
    /\ UNCHANGED <<mainvars, terminate_requested, threads, fencing, watchdog, instance, recorder, file,
                   fencer, freed_twice, faults, disarmed>>

-----------------------------------------------------------------------------
MainStep ==
    \/ initialize_other \/ sf_initialize1 \/ hb_initialize1 \/ script_initialize1 \/ sm_initialize1
    \/ main_loop \/ sm_terminate \/ terminate_other \/ hb_terminate \/ hb_terminate_test
    \/ hb_terminate_close \/ sf_terminate \/ main_exit \/ record_watchdog_instance("main")

ServiceStep ==
    \/ disarm_begin \/ hb_hb_updated \/ sf_sf_updated \/ disarm_end
    \/ script_service_check_after_set_excluded \/ record_watchdog_instance("service")

FenNext ==
    \/ MainStep \/ ServiceStep \/ main_terminate
    \/ hb_receive \/ sf_watchdog_set \/ arm_fencing \/ set_sm_phase \/ self_fence
    \/ self_fence_reset \/ Abort \/ cleanupwatchdog \/ \E w \in Timer : Expire(w)

(* main() and the heartbeat thread are scheduled, and timers expire. *)
FenFairness ==
    /\ WF_fenvars(MainStep) /\ WF_fenvars(hb_receive)
    /\ WF_fenvars(\E w \in Timer : timer[w] = "fence" /\ Expire(w))

FenSpec == FenInit /\ [][FenNext]_fenvars /\ FenFairness

-----------------------------------------------------------------------------
(* The values of the daemon's stages, handles and timers. *)
FenTypeOK ==
    /\ stage \in {"up", "run", "down", "exited"}
    /\ phase \in 0..2 /\ init_index \in 0..Len(init_funcs)
    /\ terminate_requested \in BOOLEAN /\ sfthread \in BOOLEAN
    /\ fencer \in {"none", "passed", "keeps"} /\ freed_twice \in BOOLEAN
    /\ hbthread \in {"none", "runs", "terminate", "ended", "closing"}
    /\ service \in {"none", "idle", "hb", "sf", "answer"}
    /\ sm \in {"none", "starting", "armed", "online"}
    /\ fencing \in [{"SM", "HB", "SF", "smvar"} -> {"NONE", "ARMED", "DISARMED"}]
    /\ watchdog \in [Watched -> Timer \cup {NoTimer}]
    /\ instance \subseteq Timer
    /\ timer \in [Timer -> {"off", "far", "set", "fence", "expired"}]
    /\ recorder \in [{"main", "service"} -> (SUBSET Timer) \cup {NoTimer}]
    /\ file \in (SUBSET Timer) \cup {NoTimer}
    /\ faults \in 0..MaxFaults /\ disarmed \in BOOLEAN

(* A script was told that fencing is disarmed: nobody passes the test of   *)
(* self_fence() any more, and no timer runs unless a caller that had       *)
(* passed it before fences the host after all.  And a daemon that came to  *)
(* its end has left no timer that a thread had set.  As long as the system *)
(* did what it was asked.                                                  *)
NotResetAfterwards ==
    faults = 0 =>
        /\ disarmed =>
              /\ fencing.smvar # "ARMED"
              /\ fencer # "keeps" => \A w \in Timer : timer[w] = "off"
        /\ stage = "exited" /\ init_index = 0 => \A w \in Timer : timer[w] # "set"

(* A timer watchdog.c knows of is in the file, whatever order two threads  *)
(* write it in, unless the thread that made it has still to write: a later *)
(* cleanupwatchdog finds them all.                                         *)
TimersRecorded ==
    \A w \in instance :
        \/ file # NoTimer /\ w \in file
        \/ \E t \in {"main", "service"} : recorder[t] # NoTimer /\ w \in recorder[t]

(* A daemon that is asked to stop does stop, or its host is reset: the     *)
(* joins and the locks on the way never block main() for ever.             *)
StopsEventually == terminate_requested ~> ~ Alive
=============================================================================
