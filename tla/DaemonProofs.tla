--------------------------- MODULE DaemonProofs ---------------------------
(***************************************************************************)
(* Proofs about the components of one host's daemon, for any number of     *)
(* timers, runs, clients, sockets, hosts and attempts, and about the host  *)
(* they make up (module MCHost).                                           *)
(***************************************************************************)
EXTENDS MCHost, ComProofs

-----------------------------------------------------------------------------
(* main() *)

LEMMA InitFuncs ==
  /\ Len(init_funcs) = 9
  /\ \A n \in 1 .. 9 : /\ init_funcs[n] = "sf" <=> n = 2
                       /\ init_funcs[n] = "hb" <=> n = 5
                       /\ init_funcs[n] = "script" <=> n = 7
                       /\ init_funcs[n] = "sm" <=> n = 9
  BY DEF init_funcs

LEMMA FenInitType == FenInit => FenTypeOK
<1> SUFFICES ASSUME FenInit PROVE FenTypeOK
  OBVIOUS
<1>1. fencing \in [{"SM", "HB", "SF", "smvar"} -> {"NONE", "ARMED", "DISARMED"}]
  BY DEF FenInit
<1>2. recorder \in [{"main", "service"} -> (SUBSET Timer) \cup {NoTimer}]
  BY DEF FenInit
<1>3. /\ watchdog \in [Watched -> Timer \cup {NoTimer}]
      /\ timer \in [Timer -> {"off", "far", "set", "fence", "expired"}]
  BY DEF FenInit
<1>4. terminate_requested \in BOOLEAN /\ sfthread \in BOOLEAN /\ freed_twice \in BOOLEAN /\ disarmed \in BOOLEAN
  BY Zenon DEF FenInit
<1>5. /\ phase \in 0..2 /\ init_index \in 0..Len(init_funcs) /\ faults \in 0..MaxFaults
  BY FencingAssumption, InitFuncs DEF FenInit
<1> QED
  BY <1>1, <1>2, <1>3, <1>4, <1>5 DEF FenInit, FenTypeOK

(* The daemon starts once and stops once; the script service disarms       *)
(* fencing only after the SM thread has gone online, when no timer is made *)
(* any more.                                                               *)
Lifecycle ==
    /\ stage = "up" => phase \in 0..1 /\ init_index > 0
    /\ sm # "none" => stage # "up"
    /\ service \in {"hb", "sf", "answer"} => sm = "online"
    /\ recorder["service"] # NoTimer => sm = "online"

(* A timer is closed, or what it was is used once more. *)
LEMMA CloseType ==
  ASSUME FenTypeOK, NEW t \in {"main", "service"}, NEW w, watchdog_close(t, w)
  PROVE  /\ timer' \in [Timer -> {"off", "far", "set", "fence", "expired"}]
         /\ instance' \subseteq Timer
         /\ recorder' \in [{"main", "service"} -> (SUBSET Timer) \cup {NoTimer}]
         /\ freed_twice' \in BOOLEAN /\ faults' \in 0..MaxFaults
         /\ UNCHANGED <<file, fencer>>
<1> USE DEF FenTypeOK
<1>1. /\ timer' \in [Timer -> {"off", "far", "set", "fence", "expired"}]
      /\ instance' \subseteq Timer
      /\ recorder' \in [{"main", "service"} -> (SUBSET Timer) \cup {NoTimer}]
      /\ faults' \in 0..MaxFaults
  BY FencingAssumption DEF watchdog_close, close_freed, do_watchdog_hypercall
<1>2. freed_twice' = freed_twice \/ freed_twice' = TRUE
  BY Zenon DEF watchdog_close, close_freed
<1> QED
  BY <1>1, <1>2 DEF watchdog_close

LEMMA FenTypeStep ==
  ASSUME FenTypeOK, Lifecycle, [FenNext]_fenvars
  PROVE  FenTypeOK'
<1> USE FencingAssumption, InitFuncs DEF MutexFree, FenTypeOK, Lifecycle, mainvars, dogvars, threads
<1>1. CASE initialize_other
  BY <1>1 DEF initialize_other, Calling, Called, Failed
<1>2. CASE sf_initialize1
  <2>1. sfthread' \in BOOLEAN /\ freed_twice' \in BOOLEAN /\ terminate_requested' \in BOOLEAN /\ disarmed' \in BOOLEAN
    BY <1>2, Zenon DEF sf_initialize1, watchdog_create
  <2>2. /\ watchdog' \in [Watched -> Timer \cup {NoTimer}]
        /\ instance' \subseteq Timer
        /\ timer' \in [Timer -> {"off", "far", "set", "fence", "expired"}]
        /\ recorder' \in [{"main", "service"} -> (SUBSET Timer) \cup {NoTimer}]
        /\ file' \in (SUBSET Timer) \cup {NoTimer}
        /\ fencer' = fencer
    BY <1>2 DEF sf_initialize1, watchdog_create
  <2>3. /\ stage' \in {"up", "run", "down", "exited"}
        /\ phase' \in 0..2 /\ init_index' \in 0..Len(init_funcs)
        /\ faults' \in 0..MaxFaults
    BY <1>2 DEF sf_initialize1, Calling, Called, Failed
  <2> QED
    BY <1>2, <2>1, <2>2, <2>3 DEF sf_initialize1
<1>3. CASE hb_initialize1
  BY <1>3 DEF hb_initialize1, Calling, Called, Failed, watchdog_create
<1>4. CASE script_initialize1
  BY <1>4 DEF script_initialize1, Calling, Called, Failed
<1>5. CASE sm_initialize1
  BY <1>5 DEF sm_initialize1, Calling, Called, Failed
<1>6. CASE main_loop
  BY <1>6 DEF main_loop
<1>7. CASE sm_terminate
  <2>1. fencing' \in [{"SM", "HB", "SF", "smvar"} -> {"NONE", "ARMED", "DISARMED"}]
    BY <1>7 DEF sm_terminate
  <2> QED
    BY <1>7, <2>1 DEF sm_terminate, Calling, Undone
<1>8. CASE terminate_other
  BY <1>8 DEF terminate_other, Calling, Undone
<1>9. CASE hb_terminate
  BY <1>9 DEF hb_terminate, Calling
<1>10. CASE hb_terminate_close
  <2>1. watchdog_close("main", watchdog["hb"])
    BY <1>10 DEF hb_terminate_close
  <2> QED
    BY <1>10, <2>1, CloseType DEF hb_terminate_close, Calling, Undone
<1>11. CASE sf_terminate
  <2>1. CASE watchdog_close("main", watchdog["sf"])
    BY <1>11, <2>1, CloseType DEF sf_terminate, Calling, Undone
  <2>2. CASE UNCHANGED <<watchdog, dogvars, faults>>
    BY <1>11, <2>2 DEF sf_terminate, Calling, Undone
  <2> QED
    BY <1>11, <2>1, <2>2 DEF sf_terminate, Calling, Undone
<1>12. CASE main_exit
  BY <1>12 DEF main_exit
<1>13. CASE record_watchdog_instance("main")
  BY <1>13 DEF record_watchdog_instance
<1>14. CASE disarm_begin
  <2>1. fencing' \in [{"SM", "HB", "SF", "smvar"} -> {"NONE", "ARMED", "DISARMED"}]
    BY <1>14 DEF disarm_begin
  <2> QED
    BY <1>14, <2>1 DEF disarm_begin
<1>15. CASE hb_hb_updated
  <2>1. CASE watchdog_close("service", watchdog["hb"])
    BY <1>15, <2>1, CloseType DEF hb_hb_updated, Disarm
  <2>2. CASE UNCHANGED <<watchdog, dogvars, faults>>
    BY <1>15, <2>2 DEF hb_hb_updated, Disarm
  <2> QED
    BY <1>15, <2>1, <2>2 DEF hb_hb_updated, Disarm
<1>16. CASE sf_sf_updated
  <2>1. CASE watchdog_close("service", watchdog["sf"])
    BY <1>16, <2>1, CloseType DEF sf_sf_updated, Disarm
  <2>2. CASE UNCHANGED <<watchdog, dogvars, faults>>
    BY <1>16, <2>2 DEF sf_sf_updated, Disarm
  <2> QED
    BY <1>16, <2>1, <2>2 DEF sf_sf_updated, Disarm
<1>17. CASE disarm_end
  BY <1>17 DEF disarm_end
<1>18. CASE script_service_check_after_set_excluded
  BY <1>18 DEF script_service_check_after_set_excluded
<1>19. CASE record_watchdog_instance("service")
  BY <1>19 DEF record_watchdog_instance
<1>20. CASE main_terminate
  BY <1>20 DEF main_terminate
<1>21. CASE hb_receive
  BY <1>21 DEF hb_receive, watchdog_set
<1>22. CASE sf_watchdog_set
  <2>1. timer' \in [Timer -> {"off", "far", "set", "fence", "expired"}]
    BY <1>22 DEF sf_watchdog_set, watchdog_set
  <2> QED
    BY <1>22, <2>1 DEF sf_watchdog_set, watchdog_set
<1>23. CASE arm_fencing
  <2>1. fencing' \in [{"SM", "HB", "SF", "smvar"} -> {"NONE", "ARMED", "DISARMED"}]
    BY <1>23 DEF arm_fencing
  <2> QED
    BY <1>23, <2>1 DEF arm_fencing
<1>24. CASE set_sm_phase
  BY <1>24 DEF set_sm_phase
<1>25. CASE self_fence
  BY <1>25 DEF self_fence
<1>26. CASE cleanupwatchdog
  BY <1>26 DEF cleanupwatchdog
<1>27. CASE \E w \in Timer : Expire(w)
  BY <1>27 DEF Expire
<1>28. CASE UNCHANGED fenvars
  BY <1>28 DEF fenvars
<1>29. CASE hb_terminate_test
  BY <1>29 DEF hb_terminate_test, Calling, Undone
<1>30. CASE self_fence_reset
  <2>1. fencer' = "keeps"
    BY <1>30 DEF self_fence_reset, watchdog_selffence
  <2>2. timer' \in [Timer -> {"off", "far", "set", "fence", "expired"}]
    <3>1. CASE instance = {}
      <4>1. CASE UNCHANGED timer
        BY <4>1
      <4>2. CASE \E w \in Timer : timer' = [timer EXCEPT ![w] = "fence"]
        BY <4>2
      <4> QED
        BY <1>30, <3>1, <4>1, <4>2, Zenon DEF self_fence_reset, watchdog_selffence
    <3>2. CASE timer' = [w \in Timer |-> IF w \in instance THEN "fence" ELSE timer[w]]
      BY <3>2
    <3> QED
      BY <1>30, <3>1, <3>2, Zenon DEF self_fence_reset, watchdog_selffence
  <2> QED
    BY <1>30, <2>1, <2>2 DEF self_fence_reset, watchdog_selffence
<1>31. CASE Abort
  BY <1>31 DEF Abort
<1> QED
  BY <1>1, <1>2, <1>3, <1>4, <1>5, <1>6, <1>7, <1>8, <1>9, <1>10, <1>11, <1>12, <1>13, <1>14, <1>15, <1>16,
     <1>17, <1>18, <1>19, <1>20, <1>21, <1>22, <1>23, <1>24, <1>25, <1>26, <1>27, <1>28, <1>29, <1>30, <1>31
  DEF FenNext, MainStep, ServiceStep

LEMMA LifecycleStep ==
  ASSUME FenTypeOK, Lifecycle, [FenNext]_fenvars
  PROVE  Lifecycle'
<1> USE FencingAssumption, InitFuncs DEF MutexFree, FenTypeOK, Lifecycle, mainvars, dogvars, threads
<1>1. CASE initialize_other
  BY <1>1 DEF initialize_other, Calling, Called, Failed
<1>2. CASE sf_initialize1
  BY <1>2 DEF sf_initialize1, Calling, Called, Failed, watchdog_create
<1>3. CASE hb_initialize1
  BY <1>3 DEF hb_initialize1, Calling, Called, Failed, watchdog_create
<1>4. CASE script_initialize1
  BY <1>4 DEF script_initialize1, Calling, Called, Failed
<1>5. CASE sm_initialize1
  BY <1>5 DEF sm_initialize1, Calling, Called, Failed
<1>6. CASE main_loop
  BY <1>6 DEF main_loop
<1>7. CASE sm_terminate
  BY <1>7 DEF sm_terminate, Calling, Undone
<1>8. CASE terminate_other
  BY <1>8 DEF terminate_other, Calling, Undone
<1>9. CASE hb_terminate
  BY <1>9 DEF hb_terminate, Calling
<1>10. CASE hb_terminate_close
  BY <1>10 DEF hb_terminate_close, Calling, Undone, watchdog_close, close_freed, do_watchdog_hypercall
<1>11. CASE sf_terminate
  BY <1>11 DEF sf_terminate, Calling, Undone, watchdog_close, close_freed, do_watchdog_hypercall
<1>12. CASE main_exit
  BY <1>12 DEF main_exit
<1>13. CASE record_watchdog_instance("main")
  BY <1>13 DEF record_watchdog_instance
<1>14. CASE disarm_begin
  BY <1>14 DEF disarm_begin
<1>15. CASE hb_hb_updated
  BY <1>15 DEF hb_hb_updated, Disarm, watchdog_close, close_freed, do_watchdog_hypercall
<1>16. CASE sf_sf_updated
  BY <1>16 DEF sf_sf_updated, Disarm, watchdog_close, close_freed, do_watchdog_hypercall
<1>17. CASE disarm_end
  BY <1>17 DEF disarm_end
<1>18. CASE script_service_check_after_set_excluded
  BY <1>18 DEF script_service_check_after_set_excluded
<1>19. CASE record_watchdog_instance("service")
  BY <1>19 DEF record_watchdog_instance
<1>20. CASE main_terminate
  BY <1>20 DEF main_terminate
<1>21. CASE hb_receive
  BY <1>21 DEF hb_receive, watchdog_set
<1>22. CASE sf_watchdog_set
  BY <1>22 DEF sf_watchdog_set, watchdog_set
<1>23. CASE arm_fencing
  BY <1>23 DEF arm_fencing
<1>24. CASE set_sm_phase
  BY <1>24 DEF set_sm_phase
<1>25. CASE self_fence
  BY <1>25 DEF self_fence
<1>26. CASE cleanupwatchdog
  BY <1>26 DEF cleanupwatchdog
<1>27. CASE \E w \in Timer : Expire(w)
  BY <1>27 DEF Expire
<1>28. CASE UNCHANGED fenvars
  BY <1>28 DEF fenvars
<1>29. CASE hb_terminate_test
  BY <1>29 DEF hb_terminate_test, Calling, Undone
<1>30. CASE self_fence_reset
  BY <1>30 DEF self_fence_reset, watchdog_selffence
<1>31. CASE Abort
  BY <1>31 DEF Abort
<1> HIDE DEF Lifecycle
<1> QED
  BY <1>1, <1>2, <1>3, <1>4, <1>5, <1>6, <1>7, <1>8, <1>9, <1>10, <1>11, <1>12, <1>13, <1>14, <1>15, <1>16,
     <1>17, <1>18, <1>19, <1>20, <1>21, <1>22, <1>23, <1>24, <1>25, <1>26, <1>27, <1>28, <1>29, <1>30, <1>31
  DEF FenNext, MainStep, ServiceStep

LEMMA LifecycleInit == FenInit => Lifecycle
  BY DEF FenInit, Lifecycle

-----------------------------------------------------------------------------
(* The file of the timers' ids *)

(* What a thread is about to write holds every timer known, because none   *)
(* is made while the script service may close one; so the file does once   *)
(* nothing is left to write.                                               *)
Recorded ==
    /\ \A t \in {"main", "service"} : recorder[t] # NoTimer => instance \subseteq recorder[t]
    /\ \/ instance = {}
       \/ file # NoTimer /\ instance \subseteq file
       \/ \E t \in {"main", "service"} : recorder[t] # NoTimer

LEMMA RecordedStep ==
  ASSUME FenTypeOK, Lifecycle, Recorded, [FenNext]_fenvars
  PROVE  Recorded'
<1> USE FencingAssumption, InitFuncs DEF MutexFree, FenTypeOK, Lifecycle, Recorded, mainvars, dogvars, threads
<1>1. CASE initialize_other
  BY <1>1 DEF initialize_other, Calling, Called, Failed
<1>2. CASE sf_initialize1
  BY <1>2 DEF sf_initialize1, Calling, Called, Failed, watchdog_create
<1>3. CASE hb_initialize1
  BY <1>3 DEF hb_initialize1, Calling, Called, Failed, watchdog_create
<1>4. CASE script_initialize1
  BY <1>4 DEF script_initialize1, Calling, Called, Failed
<1>5. CASE sm_initialize1
  BY <1>5 DEF sm_initialize1, Calling, Called, Failed
<1>6. CASE main_loop
  BY <1>6 DEF main_loop
<1>7. CASE sm_terminate
  BY <1>7 DEF sm_terminate, Calling, Undone
<1>8. CASE terminate_other
  BY <1>8 DEF terminate_other, Calling, Undone
<1>9. CASE hb_terminate
  BY <1>9 DEF hb_terminate, Calling
<1>10. CASE hb_terminate_close
  BY <1>10 DEF hb_terminate_close, Calling, Undone, watchdog_close, close_freed, do_watchdog_hypercall
<1>11. CASE sf_terminate
  BY <1>11 DEF sf_terminate, Calling, Undone, watchdog_close, close_freed, do_watchdog_hypercall
<1>12. CASE main_exit
  BY <1>12 DEF main_exit
<1>13. CASE record_watchdog_instance("main")
  BY <1>13 DEF record_watchdog_instance
<1>14. CASE disarm_begin
  BY <1>14 DEF disarm_begin
<1>15. CASE hb_hb_updated
  BY <1>15 DEF hb_hb_updated, Disarm, watchdog_close, close_freed, do_watchdog_hypercall
<1>16. CASE sf_sf_updated
  BY <1>16 DEF sf_sf_updated, Disarm, watchdog_close, close_freed, do_watchdog_hypercall
<1>17. CASE disarm_end
  BY <1>17 DEF disarm_end
<1>18. CASE script_service_check_after_set_excluded
  BY <1>18 DEF script_service_check_after_set_excluded
<1>19. CASE record_watchdog_instance("service")
  BY <1>19 DEF record_watchdog_instance
<1>20. CASE main_terminate
  BY <1>20 DEF main_terminate
<1>21. CASE hb_receive
  BY <1>21 DEF hb_receive, watchdog_set
<1>22. CASE sf_watchdog_set
  BY <1>22 DEF sf_watchdog_set, watchdog_set
<1>23. CASE arm_fencing
  BY <1>23 DEF arm_fencing
<1>24. CASE set_sm_phase
  BY <1>24 DEF set_sm_phase
<1>25. CASE self_fence
  BY <1>25 DEF self_fence
<1>26. CASE cleanupwatchdog
  BY <1>26 DEF cleanupwatchdog
<1>27. CASE \E w \in Timer : Expire(w)
  BY <1>27 DEF Expire
<1>28. CASE UNCHANGED fenvars
  BY <1>28 DEF fenvars
<1>29. CASE hb_terminate_test
  BY <1>29 DEF hb_terminate_test, Calling, Undone
<1>30. CASE self_fence_reset
  BY <1>30 DEF self_fence_reset, watchdog_selffence
<1>31. CASE Abort
  BY <1>31 DEF Abort
<1> HIDE DEF Recorded
<1> QED
  BY <1>1, <1>2, <1>3, <1>4, <1>5, <1>6, <1>7, <1>8, <1>9, <1>10, <1>11, <1>12, <1>13, <1>14, <1>15, <1>16,
     <1>17, <1>18, <1>19, <1>20, <1>21, <1>22, <1>23, <1>24, <1>25, <1>26, <1>27, <1>28, <1>29, <1>30, <1>31
  DEF FenNext, MainStep, ServiceStep

-----------------------------------------------------------------------------
(* The timers of a daemon that was never let down by the system *)

(* What each object of fencing says of its timer. *)
Objects ==
    /\ fencing["SM"] = fencing["smvar"]
    /\ fencing["HB"] # "NONE" /\ fencing["SF"] # "NONE"
    /\ fencing["HB"] = "DISARMED" => watchdog["hb"] = NoTimer /\ sm # "none"
    /\ fencing["SF"] = "DISARMED" => watchdog["sf"] = NoTimer /\ sm # "none"
    /\ disarmed => /\ sm = "online"
                   /\ fencing["SM"] = "DISARMED" /\ fencing["HB"] = "DISARMED" /\ fencing["SF"] = "DISARMED"

LEMMA ObjectsStep ==
  ASSUME FenTypeOK, Lifecycle, Objects, [FenNext]_fenvars
  PROVE  Objects'
<1> USE FencingAssumption, InitFuncs DEF MutexFree, FenTypeOK, Lifecycle, Objects, mainvars, dogvars, threads, Watched
<1>1. CASE initialize_other
  BY <1>1 DEF initialize_other, Calling, Called, Failed
<1>2. CASE sf_initialize1
  BY <1>2 DEF sf_initialize1, Calling, Called, Failed, watchdog_create
<1>3. CASE hb_initialize1
  BY <1>3 DEF hb_initialize1, Calling, Called, Failed, watchdog_create
<1>4. CASE script_initialize1
  BY <1>4 DEF script_initialize1, Calling, Called, Failed
<1>5. CASE sm_initialize1
  BY <1>5 DEF sm_initialize1, Calling, Called, Failed
<1>6. CASE main_loop
  BY <1>6 DEF main_loop
<1>7. CASE sm_terminate
  BY <1>7 DEF sm_terminate, Calling, Undone
<1>8. CASE terminate_other
  BY <1>8 DEF terminate_other, Calling, Undone
<1>9. CASE hb_terminate
  BY <1>9 DEF hb_terminate, Calling
<1>10. CASE hb_terminate_close
  BY <1>10 DEF hb_terminate_close, Calling, Undone, watchdog_close, close_freed, do_watchdog_hypercall
<1>11. CASE sf_terminate
  BY <1>11 DEF sf_terminate, Calling, Undone, watchdog_close, close_freed, do_watchdog_hypercall
<1>12. CASE main_exit
  BY <1>12 DEF main_exit
<1>13. CASE record_watchdog_instance("main")
  BY <1>13 DEF record_watchdog_instance
<1>14. CASE disarm_begin
  BY <1>14 DEF disarm_begin
<1>15. CASE hb_hb_updated
  BY <1>15 DEF hb_hb_updated, Disarm, watchdog_close, close_freed, do_watchdog_hypercall
<1>16. CASE sf_sf_updated
  BY <1>16 DEF sf_sf_updated, Disarm, watchdog_close, close_freed, do_watchdog_hypercall
<1>17. CASE disarm_end
  BY <1>17 DEF disarm_end
<1>18. CASE script_service_check_after_set_excluded
  BY <1>18 DEF script_service_check_after_set_excluded
<1>19. CASE record_watchdog_instance("service")
  BY <1>19 DEF record_watchdog_instance
<1>20. CASE main_terminate
  BY <1>20 DEF main_terminate
<1>21. CASE hb_receive
  BY <1>21 DEF hb_receive, watchdog_set
<1>22. CASE sf_watchdog_set
  BY <1>22 DEF sf_watchdog_set, watchdog_set
<1>23. CASE arm_fencing
  BY <1>23 DEF arm_fencing
<1>24. CASE set_sm_phase
  BY <1>24 DEF set_sm_phase
<1>25. CASE self_fence
  BY <1>25 DEF self_fence
<1>26. CASE cleanupwatchdog
  BY <1>26 DEF cleanupwatchdog
<1>27. CASE \E w \in Timer : Expire(w)
  BY <1>27 DEF Expire
<1>28. CASE UNCHANGED fenvars
  BY <1>28 DEF fenvars
<1>29. CASE hb_terminate_test
  BY <1>29 DEF hb_terminate_test, Calling, Undone
<1>30. CASE self_fence_reset
  BY <1>30 DEF self_fence_reset, watchdog_selffence
<1>31. CASE Abort
  BY <1>31 DEF Abort
<1> HIDE DEF Objects
<1> QED
  BY <1>1, <1>2, <1>3, <1>4, <1>5, <1>6, <1>7, <1>8, <1>9, <1>10, <1>11, <1>12, <1>13, <1>14, <1>15, <1>16,
     <1>17, <1>18, <1>19, <1>20, <1>21, <1>22, <1>23, <1>24, <1>25, <1>26, <1>27, <1>28, <1>29, <1>30, <1>31
  DEF FenNext, MainStep, ServiceStep

(* Every timer known has its handle, until main() has closed it on the way *)
(* down; no other timer runs, and once a thread fences the host none that  *)
(* could be set again.                                                     *)
Handles ==
    faults = 0 =>
        /\ instance \subseteq {watchdog["hb"], watchdog["sf"]}
        /\ watchdog["sf"] # NoTimer => sfthread
        /\ stage = "up" /\ (phase = 0 \/ init_index <= 2) => watchdog["sf"] = NoTimer
        /\ stage = "up" /\ (phase = 0 \/ init_index <= 5) => watchdog["hb"] = NoTimer
        /\ stage = "run" => phase = 2 /\ init_index = 9
        /\ stage = "down" => phase = 2
        /\ init_index = 0 => phase = 2
        /\ phase = 2 /\ init_index < 5 => watchdog["hb"] \notin instance
        /\ phase = 2 /\ init_index < 2 => watchdog["sf"] \notin instance
        /\ MutexFree => \A w \in Timer : timer[w] # "off" => w \in instance
        /\ ~ MutexFree => \A w \in Timer : timer[w] # "set"

LEMMA HandlesStep ==
  ASSUME FenTypeOK, Lifecycle, Objects, Handles, [FenNext]_fenvars
  PROVE  Handles'
<1> USE FencingAssumption, InitFuncs DEF MutexFree, FenTypeOK, Lifecycle, Objects, Handles, mainvars, dogvars, threads, Watched
<1>1. CASE initialize_other
  BY <1>1 DEF initialize_other, Calling, Called, Failed
<1>2. CASE sf_initialize1
  BY <1>2 DEF sf_initialize1, Calling, Called, Failed, watchdog_create
<1>3. CASE hb_initialize1
  BY <1>3 DEF hb_initialize1, Calling, Called, Failed, watchdog_create
<1>4. CASE script_initialize1
  BY <1>4 DEF script_initialize1, Calling, Called, Failed
<1>5. CASE sm_initialize1
  BY <1>5 DEF sm_initialize1, Calling, Called, Failed
<1>6. CASE main_loop
  BY <1>6 DEF main_loop
<1>7. CASE sm_terminate
  BY <1>7 DEF sm_terminate, Calling, Undone
<1>8. CASE terminate_other
  BY <1>8 DEF terminate_other, Calling, Undone
<1>9. CASE hb_terminate
  BY <1>9 DEF hb_terminate, Calling
<1>10. CASE hb_terminate_close
  BY <1>10 DEF hb_terminate_close, Calling, Undone, watchdog_close, close_freed, do_watchdog_hypercall
<1>11. CASE sf_terminate
  BY <1>11 DEF sf_terminate, Calling, Undone, watchdog_close, close_freed, do_watchdog_hypercall
<1>12. CASE main_exit
  BY <1>12 DEF main_exit
<1>13. CASE record_watchdog_instance("main")
  BY <1>13 DEF record_watchdog_instance
<1>14. CASE disarm_begin
  BY <1>14 DEF disarm_begin
<1>15. CASE hb_hb_updated
  BY <1>15 DEF hb_hb_updated, Disarm, watchdog_close, close_freed, do_watchdog_hypercall
<1>16. CASE sf_sf_updated
  BY <1>16 DEF sf_sf_updated, Disarm, watchdog_close, close_freed, do_watchdog_hypercall
<1>17. CASE disarm_end
  BY <1>17 DEF disarm_end
<1>18. CASE script_service_check_after_set_excluded
  BY <1>18 DEF script_service_check_after_set_excluded
<1>19. CASE record_watchdog_instance("service")
  BY <1>19 DEF record_watchdog_instance
<1>20. CASE main_terminate
  BY <1>20 DEF main_terminate
<1>21. CASE hb_receive
  BY <1>21 DEF hb_receive, watchdog_set
<1>22. CASE sf_watchdog_set
  BY <1>22 DEF sf_watchdog_set, watchdog_set
<1>23. CASE arm_fencing
  BY <1>23 DEF arm_fencing
<1>24. CASE set_sm_phase
  BY <1>24 DEF set_sm_phase
<1>25. CASE self_fence
  BY <1>25 DEF self_fence
<1>26. CASE cleanupwatchdog
  BY <1>26 DEF cleanupwatchdog
<1>27. CASE \E w \in Timer : Expire(w)
  BY <1>27 DEF Expire
<1>28. CASE UNCHANGED fenvars
  BY <1>28 DEF fenvars
<1>29. CASE hb_terminate_test
  BY <1>29 DEF hb_terminate_test, Calling, Undone
<1>30. CASE self_fence_reset
  BY <1>30 DEF self_fence_reset, watchdog_selffence
<1>31. CASE Abort
  BY <1>31 DEF Abort
<1> HIDE DEF Handles
<1> QED
  BY <1>1, <1>2, <1>3, <1>4, <1>5, <1>6, <1>7, <1>8, <1>9, <1>10, <1>11, <1>12, <1>13, <1>14, <1>15, <1>16,
     <1>17, <1>18, <1>19, <1>20, <1>21, <1>22, <1>23, <1>24, <1>25, <1>26, <1>27, <1>28, <1>29, <1>30, <1>31
  DEF FenNext, MainStep, ServiceStep

(* The inductive invariant. *)
FenInv == FenTypeOK /\ Lifecycle /\ Recorded /\ Objects /\ Handles

LEMMA FenInvInit == FenInit => FenInv
<1> SUFFICES ASSUME FenInit PROVE Lifecycle /\ Recorded /\ Objects /\ Handles
  BY FenInitType DEF FenInv
<1>1. Lifecycle
  BY LifecycleInit
<1>2. Recorded
  BY DEF FenInit, Recorded
<1>3. Objects
  BY DEF FenInit, Objects
<1>4. Handles
  BY DEF FenInit, Handles, Watched
<1> QED
  BY <1>1, <1>2, <1>3, <1>4

LEMMA FenInvStep == FenInv /\ [FenNext]_fenvars => FenInv'
  BY FenTypeStep, LifecycleStep, RecordedStep, ObjectsStep, HandlesStep DEF FenInv

LEMMA FenInvariant == FenSpec => []FenInv
  BY FenInvInit, FenInvStep, PTL DEF FenSpec

(* The stages of main(), the handles of the threads and the timers of the  *)
(* hypervisor keep their types.                                            *)
THEOREM FenTypeCorrect == FenSpec => []FenTypeOK
<1>1. FenInv => FenTypeOK
  BY DEF FenInv
<1> QED
  BY <1>1, FenInvariant, PTL

(* A timer watchdog.c knows of is in the file of the ids or about to be:   *)
(* cleanupwatchdog finds every timer of a daemon that died, although two   *)
(* threads write the file without the lock.                                *)
THEOREM NoTimerForgotten == FenSpec => []TimersRecorded
<1>1. FenInv => TimersRecorded
  BY DEF FenInv, Recorded, TimersRecorded
<1> QED
  BY <1>1, FenInvariant, PTL

(* As long as no call of the system failed: once a script was told that    *)
(* fencing is disarmed nobody is let through self_fence() any more, and    *)
(* only a caller let through before can still reset the host, although the *)
(* handle of a freed timer may be used; and a daemon that has come to its  *)
(* end leaves no timer that resets the host.                               *)
THEOREM NotResetOnceDisarmed == FenSpec => []NotResetAfterwards
<1>1. FenInv => NotResetAfterwards
  <2> SUFFICES ASSUME FenInv, faults = 0
               PROVE  /\ disarmed => /\ fencing.smvar # "ARMED"
                                     /\ fencer # "keeps" => \A w \in Timer : timer[w] = "off"
                      /\ stage = "exited" /\ init_index = 0 => \A w \in Timer : timer[w] # "set"
    BY DEF NotResetAfterwards
  <2>1. ASSUME disarmed
        PROVE  fencing.smvar # "ARMED" /\ (fencer # "keeps" => \A w \in Timer : timer[w] = "off")
    <3>1. watchdog["hb"] = NoTimer /\ watchdog["sf"] = NoTimer /\ fencing.smvar = "DISARMED"
      BY <2>1 DEF FenInv, Objects
    <3>2. instance = {}
      BY <3>1, FencingAssumption DEF FenInv, Handles, FenTypeOK
    <3> QED
      BY <3>1, <3>2 DEF FenInv, Handles, MutexFree
  <2>2. ASSUME stage = "exited", init_index = 0 PROVE \A w \in Timer : timer[w] # "set"
    <3>1. instance = {}
      BY <2>2 DEF FenInv, Handles
    <3> QED
      BY <3>1 DEF FenInv, Handles
  <2> QED
    BY <2>1, <2>2
<1> QED
  BY <1>1, FenInvariant, PTL

-----------------------------------------------------------------------------
(* The file of the weights *)

WpcOfCtl == {"idle", "set", "write", "ask", "asked", "done", "failed"}
WpcOfLoader == {"down", "idle", "open", "update", "calc", "set_sm", "close", "loaded"}

WTypes ==
    /\ wfile \in WTables /\ weight_table \in WTables /\ confirmed \in WTables
    /\ wtable \in [Ctl \cup Loader -> WTables]
    /\ wpc \in [Ctl \cup Loader -> WpcOfCtl \cup WpcOfLoader]
    /\ wanted \in [Ctl -> (Class \X Weight) \cup {<<>>}]
    /\ \A c \in Ctl : wpc[c] \in {"set", "write"} => wanted[c] \in Class \X Weight
    /\ wfaults \in 0..MaxWFaults

LEMMA WTypesStep ==
  ASSUME WTypes, [WeightNext]_wvars
  PROVE  WTypes'
<1> USE WeightsAssumption DEF WTypes, WpcOfCtl, WpcOfLoader, Loader, WTables, smweights
<1>1. ASSUME NEW c \in Ctl, weight_set(c) PROVE WTypes'
  <2>1. PICK k \in Class, w \in Weight : wanted' = [wanted EXCEPT ![c] = <<k, w>>]
    BY <1>1 DEF weight_set
  <2>2. /\ wanted' \in [Ctl -> (Class \X Weight) \cup {<<>>}]
        /\ wanted'[c] \in Class \X Weight
        /\ \A d \in Ctl : d # c => wanted'[d] = wanted[d]
    BY <2>1
  <2>3. /\ wpc' \in [Ctl \cup Loader -> WpcOfCtl \cup WpcOfLoader]
        /\ wtable' \in [Ctl \cup Loader -> WTables]
        /\ \A d \in Ctl : d # c => wpc'[d] = wpc[d]
    BY <1>1 DEF weight_set, read_hostweight_file
  <2> QED
    BY <1>1, <2>2, <2>3 DEF weight_set
<1>2. ASSUME NEW c \in Ctl, weight_set_table(c) PROVE WTypes'
  <2>1. [wtable[c] EXCEPT ![wanted[c][1]] = wanted[c][2]] \in WTables
    BY <1>2 DEF weight_set_table
  <2>2. wtable' \in [Ctl \cup Loader -> WTables] /\ wfile' \in WTables
    <3>1. CASE UNCHANGED <<wtable, wfile>>
      BY <3>1
    <3>2. CASE /\ wtable' = [wtable EXCEPT ![c] = [wtable[c] EXCEPT ![wanted[c][1]] = wanted[c][2]]]
               /\ wfile' = None
      BY <2>1, <3>2 DEF None
    <3> QED
      BY <1>2, <3>1, <3>2 DEF weight_set_table, set_hostweight_table
  <2>3. /\ wpc' \in [Ctl \cup Loader -> WpcOfCtl \cup WpcOfLoader]
        /\ \A d \in Ctl : d # c => wpc'[d] = wpc[d]
    BY <1>2 DEF weight_set_table
  <2> QED
    BY <1>2, <2>2, <2>3 DEF weight_set_table
<1>3. ASSUME NEW c \in Ctl, write_hostweight_file(c) PROVE WTypes'
  BY <1>3 DEF write_hostweight_file, Classes
<1>4. ASSUME NEW c \in Ctl, weight_set_end(c) PROVE WTypes'
  BY <1>4 DEF weight_set_end, Classes, CloseFile, ProcessOf
<1>5. ASSUME NEW c \in Ctl, WriterDies(c) PROVE WTypes'
  <2>1. UNCHANGED <<wfile, weight_table, confirmed, wtable, wanted>>
    BY <1>5 DEF WriterDies
  <2>2. /\ wpc' \in [Ctl \cup Loader -> WpcOfCtl \cup WpcOfLoader]
        /\ wpc'[c] = "failed" /\ \A d \in Ctl : d # c => wpc'[d] = wpc[d]
    BY <1>5 DEF WriterDies
  <2>3. wfaults' \in 0..MaxWFaults
    BY <1>5 DEF WriterDies
  <2> QED
    BY <2>1, <2>2, <2>3
<1>6. ASSUME NEW c \in Ctl, reload_host_weight(c) PROVE WTypes'
  BY <1>6 DEF reload_host_weight
<1>7. ASSUME NEW c \in Ctl, reload_host_weight_answer(c) PROVE WTypes'
  BY <1>7 DEF reload_host_weight_answer
<1>8. CASE service_start
  BY <1>8 DEF service_start
<1>9. ASSUME NEW t \in Loader, hostweight_reload(t) PROVE WTypes'
  BY <1>9 DEF hostweight_reload, open_hostweight_file, read_hostweight_file, ProcessOf, Loading
<1>10. ASSUME NEW t \in Loader, hostweight_update(t) PROVE WTypes'
  BY <1>10 DEF hostweight_update
<1>11. ASSUME NEW t \in Loader, calc_hostweight(t) PROVE WTypes'
  BY <1>11 DEF calc_hostweight
<1>12. ASSUME NEW t \in Loader, hostweight_set_sm(t) PROVE WTypes'
  BY <1>12 DEF hostweight_set_sm
<1>13. ASSUME NEW t \in Loader, hostweight_close(t) PROVE WTypes'
  BY <1>13 DEF hostweight_close, CloseFile, ProcessOf
<1>14. CASE commit_weight
  BY <1>14 DEF commit_weight
<1>15. CASE UNCHANGED wvars
  BY <1>15 DEF wvars
<1> HIDE DEF WTypes
<1> QED
  BY <1>1, <1>2, <1>3, <1>4, <1>5, <1>6, <1>7, <1>8, <1>9, <1>10, <1>11, <1>12, <1>13, <1>14, <1>15
  DEF WeightNext

(* lockf() keeps the runs of weightctl apart, and so the file is what the  *)
(* successful ones made it, but for one that is writing: what it has read  *)
(* is what the others have confirmed.                                      *)
Serial ==
    /\ \A c \in Ctl : wpc[c] \in {"set", "write"} => wlock = c
    /\ wfaults = 0 =>
       /\ \A c \in Ctl : wpc[c] = "set" => wtable[c] = wfile
       /\ \A c \in Ctl : wpc[c] = "write" =>
             /\ wtable[c] = [confirmed EXCEPT ![wanted[c][1]] = wanted[c][2]]
             /\ \A k \in Class : wfile[k] # 0 => wfile[k] = wtable[c][k]
       /\ (\A c \in Ctl : wpc[c] # "write") => wfile = confirmed

LEMMA SerialStep ==
  ASSUME WTypes, WTypes', Serial, [WeightNext]_wvars
  PROVE  Serial'
<1> USE WeightsAssumption DEF WTypes, WpcOfCtl, WpcOfLoader, Loader, WTables, smweights, Serial
<1>1. ASSUME NEW c \in Ctl, weight_set(c) PROVE Serial'
  BY <1>1 DEF weight_set, open_hostweight_file, read_hostweight_file, ProcessOf
<1>2. ASSUME NEW c \in Ctl, weight_set_table(c) PROVE Serial'
  <2>1. CASE wpc' = [wpc EXCEPT ![c] = "write"]
    <3>1. /\ wtable' = [wtable EXCEPT ![c] = [wtable[c] EXCEPT ![wanted[c][1]] = wanted[c][2]]]
          /\ wfile' = None /\ wlock' = wlock
      <4>1. wpc' # [wpc EXCEPT ![c] = "failed"]
        BY <2>1
      <4> HIDE DEF WTypes, Serial, WTables
      <4> QED
        BY <1>2, <4>1 DEF weight_set_table, set_hostweight_table
    <3>2. UNCHANGED <<wanted, confirmed, wfaults>> /\ wpc[c] = "set"
      BY <1>2 DEF weight_set_table
    <3>3. \A d \in Ctl : d # c => wpc[d] \notin {"set", "write"}
      BY <3>2
    <3>4. wfaults = 0 => wtable[c] = confirmed
      BY <3>2, <3>3
    <3> QED
      BY <2>1, <3>1, <3>2, <3>3, <3>4 DEF None
  <2>2. CASE wpc' = [wpc EXCEPT ![c] = "failed"] /\ UNCHANGED <<wtable, wfile>>
    BY <1>2, <2>2 DEF weight_set_table, CloseFile, ProcessOf
  <2> QED
    BY <1>2, <2>1, <2>2 DEF weight_set_table
<1>3. ASSUME NEW c \in Ctl, write_hostweight_file(c) PROVE Serial'
  BY <1>3 DEF write_hostweight_file, Classes
<1>4. ASSUME NEW c \in Ctl, weight_set_end(c) PROVE Serial'
  BY <1>4 DEF weight_set_end, Classes, CloseFile, ProcessOf
<1>5. ASSUME NEW c \in Ctl, WriterDies(c) PROVE Serial'
  BY <1>5 DEF WriterDies, CloseFile, ProcessOf
<1>6. ASSUME NEW c \in Ctl, reload_host_weight(c) PROVE Serial'
  <2>1. UNCHANGED <<wfile, wlock, wtable, wanted, confirmed, wfaults>>
    BY <1>6 DEF reload_host_weight
  <2>2. \A d \in Ctl : wpc'[d] \in {"set", "write"} <=> wpc[d] \in {"set", "write"}
    BY <1>6 DEF reload_host_weight
  <2>3. \A d \in Ctl : wpc'[d] \in {"set", "write"} => wpc'[d] = wpc[d]
    BY <1>6 DEF reload_host_weight
  <2> QED
    BY <2>1, <2>2, <2>3
<1>7. ASSUME NEW c \in Ctl, reload_host_weight_answer(c) PROVE Serial'
  BY <1>7 DEF reload_host_weight_answer
<1>8. CASE service_start
  BY <1>8 DEF service_start
<1>9. ASSUME NEW t \in Loader, hostweight_reload(t) PROVE Serial'
  BY <1>9 DEF hostweight_reload, open_hostweight_file, read_hostweight_file, ProcessOf, Loading
<1>10. ASSUME NEW t \in Loader, hostweight_update(t) PROVE Serial'
  BY <1>10 DEF hostweight_update
<1>11. ASSUME NEW t \in Loader, calc_hostweight(t) PROVE Serial'
  BY <1>11 DEF calc_hostweight
<1>12. ASSUME NEW t \in Loader, hostweight_set_sm(t) PROVE Serial'
  BY <1>12 DEF hostweight_set_sm
<1>13. ASSUME NEW t \in Loader, hostweight_close(t) PROVE Serial'
  BY <1>13 DEF hostweight_close, CloseFile, ProcessOf
<1>14. CASE commit_weight
  BY <1>14 DEF commit_weight
<1>15. CASE UNCHANGED wvars
  BY <1>15 DEF wvars
<1> HIDE DEF Serial
<1> QED
  BY <1>1, <1>2, <1>3, <1>4, <1>5, <1>6, <1>7, <1>8, <1>9, <1>10, <1>11, <1>12, <1>13, <1>14, <1>15
  DEF WeightNext

(* A thread that loads the file alone has it locked, so that what it has   *)
(* read is still there.                                                    *)
Loads ==
    /\ DOMAIN calculated = Loader
    /\ wpc["service"] = "down" => wpc["main"] = "idle"
    /\ wfaults = 0 /\ ~ overlapped =>
       /\ \A t \in Loader : wpc[t] \in {"update", "calc", "set_sm", "close"} =>
             wlock = "daemon" /\ \A u \in Loader \ {t} : wpc[u] \notin {"update", "calc", "set_sm", "close"}
       /\ \A t \in Loader : wpc[t] = "update" => wtable[t] = wfile
       /\ \A t \in Loader : wpc[t] \in {"calc", "set_sm"} => weight_table = wfile
       /\ \A t \in Loader : wpc[t] = "set_sm" => calculated[t] = TotalWeight(wfile)

LEMMA LoadsStep ==
  ASSUME WTypes, Serial, Loads, [WeightNext]_wvars
  PROVE  Loads'
<1> USE WeightsAssumption DEF WTypes, Loader, smweights, Serial, Loads
<1>1. ASSUME NEW c \in Ctl, weight_set(c) PROVE Loads'
  BY <1>1 DEF weight_set, open_hostweight_file, read_hostweight_file, ProcessOf
<1>2. ASSUME NEW c \in Ctl, weight_set_table(c) PROVE Loads'
  BY <1>2 DEF weight_set_table, CloseFile, ProcessOf
<1>3. ASSUME NEW c \in Ctl, write_hostweight_file(c) PROVE Loads'
  BY <1>3 DEF write_hostweight_file
<1>4. ASSUME NEW c \in Ctl, weight_set_end(c) PROVE Loads'
  BY <1>4 DEF weight_set_end, CloseFile, ProcessOf
<1>5. ASSUME NEW c \in Ctl, WriterDies(c) PROVE Loads'
  BY <1>5 DEF WriterDies
<1>6. ASSUME NEW c \in Ctl, reload_host_weight(c) PROVE Loads'
  BY <1>6 DEF reload_host_weight
<1>7. ASSUME NEW c \in Ctl, reload_host_weight_answer(c) PROVE Loads'
  BY <1>7 DEF reload_host_weight_answer
<1>8. CASE service_start
  BY <1>8 DEF service_start
<1>9. ASSUME NEW t \in Loader, hostweight_reload(t) PROVE Loads'
  <2>1. ~ overlapped' => ~ overlapped /\ \E u \in Loader : ~ Loading(u)
    BY <1>9, Zenon DEF hostweight_reload
  <2>2. Loading(t)
    BY <1>9 DEF hostweight_reload, Loading
  <2>3. ~ overlapped' => \A u \in Loader \ {t} : ~ Loading(u)
    BY <2>1, <2>2
  <2>4. /\ wpc' = [wpc EXCEPT ![t] = "update"] /\ wtable' = [wtable EXCEPT ![t] = wfile]
        /\ wlock' = "daemon" /\ wpc[t] = "open"
        /\ UNCHANGED <<wfile, weight_table, sm_weight, calculated, wfaults>>
    BY <1>9 DEF hostweight_reload, open_hostweight_file, read_hostweight_file, ProcessOf
  <2> QED
    BY <2>1, <2>3, <2>4 DEF Loading
<1>10. ASSUME NEW t \in Loader, hostweight_update(t) PROVE Loads'
  BY <1>10 DEF hostweight_update
<1>11. ASSUME NEW t \in Loader, calc_hostweight(t) PROVE Loads'
  BY <1>11 DEF calc_hostweight
<1>12. ASSUME NEW t \in Loader, hostweight_set_sm(t) PROVE Loads'
  BY <1>12 DEF hostweight_set_sm
<1>13. ASSUME NEW t \in Loader, hostweight_close(t) PROVE Loads'
  BY <1>13 DEF hostweight_close, CloseFile, ProcessOf
<1>14. CASE commit_weight
  BY <1>14 DEF commit_weight
<1>15. CASE UNCHANGED wvars
  BY <1>15 DEF wvars
<1> HIDE DEF Loads
<1> QED
  BY <1>1, <1>2, <1>3, <1>4, <1>5, <1>6, <1>7, <1>8, <1>9, <1>10, <1>11, <1>12, <1>13, <1>14, <1>15
  DEF WeightNext

(* The daemon works with the file as it is, or somebody is still going to  *)
(* see to that: a run that writes or has yet to ask, the service on behalf *)
(* of one that asked, or main() with its first load.                       *)
InEffect == weight_table = wfile /\ sm_weight = TotalWeight(wfile)

Pending ==
    wfaults = 0 /\ ~ overlapped =>
       \/ InEffect
       \/ \E c \in Ctl : wpc[c] \in {"write", "ask"}
       \/ (\E c \in Ctl : wpc[c] = "asked") /\ wpc["service"] \in {"open", "update", "calc", "set_sm"}
       \/ wpc["main"] \in {"idle", "open", "update", "calc", "set_sm"}

LEMMA PendingStep ==
  ASSUME WTypes, Serial, Loads, Pending, [WeightNext]_wvars
  PROVE  Pending'
<1> USE WeightsAssumption DEF WTypes, Loader, smweights, Loads, Pending, InEffect
<1>1. ASSUME NEW c \in Ctl, weight_set(c) PROVE Pending'
  BY <1>1 DEF weight_set, open_hostweight_file, read_hostweight_file, ProcessOf
<1>2. ASSUME NEW c \in Ctl, weight_set_table(c) PROVE Pending'
  BY <1>2 DEF weight_set_table, CloseFile, ProcessOf
<1>3. ASSUME NEW c \in Ctl, write_hostweight_file(c) PROVE Pending'
  BY <1>3 DEF write_hostweight_file
<1>4. ASSUME NEW c \in Ctl, weight_set_end(c) PROVE Pending'
  BY <1>4 DEF weight_set_end, CloseFile, ProcessOf
<1>5. ASSUME NEW c \in Ctl, WriterDies(c) PROVE Pending'
  BY <1>5 DEF WriterDies
<1>6. ASSUME NEW c \in Ctl, reload_host_weight(c) PROVE Pending'
  BY <1>6 DEF reload_host_weight
<1>7. ASSUME NEW c \in Ctl, reload_host_weight_answer(c) PROVE Pending'
  BY <1>7 DEF reload_host_weight_answer
<1>8. CASE service_start
  BY <1>8 DEF service_start
<1>9. ASSUME NEW t \in Loader, hostweight_reload(t) PROVE Pending'
  BY <1>9 DEF hostweight_reload, open_hostweight_file, read_hostweight_file, ProcessOf, Loading
<1>10. ASSUME NEW t \in Loader, hostweight_update(t) PROVE Pending'
  BY <1>10 DEF hostweight_update
<1>11. ASSUME NEW t \in Loader, calc_hostweight(t) PROVE Pending'
  BY <1>11 DEF calc_hostweight
<1>12. ASSUME NEW t \in Loader, hostweight_set_sm(t) PROVE Pending'
  BY <1>12 DEF hostweight_set_sm
<1>13. ASSUME NEW t \in Loader, hostweight_close(t) PROVE Pending'
  BY <1>13 DEF hostweight_close, CloseFile, ProcessOf
<1>14. CASE commit_weight
  BY <1>14 DEF commit_weight
<1>15. CASE UNCHANGED wvars
  BY <1>15 DEF wvars
<1> HIDE DEF Pending
<1> QED
  BY <1>1, <1>2, <1>3, <1>4, <1>5, <1>6, <1>7, <1>8, <1>9, <1>10, <1>11, <1>12, <1>13, <1>14, <1>15
  DEF WeightNext

(* The sum calc_hostweight takes over the classes is a number. *)
Chosen(s) == CHOOSE x \in s : TRUE
Small(n) == {s \in SUBSET Class : Cardinality(s) <= n}
SumsTo(f, table, n) ==
    /\ f \in [Small(n) -> Nat]
    /\ \A s \in Small(n) : f[s] = IF s = {} THEN 0 ELSE table[Chosen(s)] + f[s \ {Chosen(s)}]

LEMMA Smaller ==
  ASSUME NEW s \in SUBSET Class, s # {}
  PROVE  /\ Chosen(s) \in s /\ s \ {Chosen(s)} \in SUBSET Class
         /\ Cardinality(s) \in Nat \ {0} /\ Cardinality(s \ {Chosen(s)}) = Cardinality(s) - 1
<1>1. Chosen(s) \in s
  BY DEF Chosen
<1>2. IsFiniteSet(s)
  BY WeightsAssumption, FS_Subset
<1> QED
  BY <1>1, <1>2, FS_RemoveElement, FS_CardinalityType, FS_EmptySet

LEMMA SumsExist ==
  ASSUME NEW table \in WTables, NEW m \in Nat
  PROVE  \E f : SumsTo(f, table, m)
<1> DEFINE Missing == {n \in Nat : ~ \E f : SumsTo(f, table, n)}
<1> SUFFICES ASSUME Missing # {} PROVE FALSE
  OBVIOUS
<1>1. Missing \subseteq Nat
  OBVIOUS
<1>2. PICK n \in Missing : \A k \in Missing : n <= k
  <2> HIDE DEF Missing
  <2> QED
    BY <1>1, LeastOf
<1>3. CASE n = 0
  <2> DEFINE z == [s \in Small(0) |-> 0]
  <2>1. ASSUME NEW s \in Small(0) PROVE s = {}
    <3>1. s \in SUBSET Class /\ Cardinality(s) <= 0
      BY DEF Small
    <3>2. CASE s # {}
      <4>1. Cardinality(s) \in Nat \ {0}
        BY <3>1, <3>2, Smaller
      <4> QED
        BY <3>1, <4>1
    <3> QED
      BY <3>2
  <2>2. z \in [Small(0) -> Nat] /\ \A s \in Small(0) : z[s] = 0
    OBVIOUS
  <2> HIDE DEF z
  <2>3. SumsTo(z, table, 0)
    BY <2>1, <2>2 DEF SumsTo
  <2> QED
    BY <1>2, <1>3, <2>3
<1>4. CASE n # 0
  <2>1. n - 1 \in Nat /\ n - 1 \notin Missing
    BY <1>2, <1>4
  <2>2. PICK f : SumsTo(f, table, n - 1)
    BY <2>1
  <2> DEFINE g == [s \in Small(n) |-> IF s = {} THEN 0 ELSE table[Chosen(s)] + f[s \ {Chosen(s)}]]
  <2>3. ASSUME NEW s \in Small(n), s # {}
        PROVE  /\ Chosen(s) \in Class /\ s \ {Chosen(s)} \in Small(n - 1)
               /\ s \ {Chosen(s)} \in Small(n)
    BY <1>2, <2>3, Smaller DEF Small
  <2>4. \A s \in Small(n - 1) : s \in Small(n) /\ f[s] \in Nat
    <3>1. ASSUME NEW s \in Small(n - 1) PROVE s \in Small(n)
      <4>1. IsFiniteSet(s)
        BY WeightsAssumption, FS_Subset DEF Small
      <4>2. Cardinality(s) \in Nat
        BY <4>1, FS_CardinalityType
      <4> QED
        BY <1>2, <2>1, <4>2 DEF Small
    <3> QED
      BY <2>2, <3>1 DEF SumsTo
  <2>5. g \in [Small(n) -> Nat]
    BY <2>3, <2>4 DEF WTables
  <2>6. \A s \in Small(n) : g[s] = IF s = {} THEN 0 ELSE table[Chosen(s)] + f[s \ {Chosen(s)}]
    OBVIOUS
  <2> HIDE DEF g
  <2>7. \A s \in Small(n - 1) : g[s] = f[s]
    BY <2>2, <2>4, <2>6 DEF SumsTo
  <2>8. SumsTo(g, table, n)
    BY <2>3, <2>5, <2>6, <2>7 DEF SumsTo
  <2> QED
    BY <1>2, <2>8
<1> QED
  BY <1>3, <1>4

LEMMA TotalNat ==
  ASSUME NEW table \in WTables
  PROVE  TotalWeight(table) \in Nat
<1> DEFINE Loop(f) == f = [s \in SUBSET Class |-> IF s = {} THEN 0 ELSE table[Chosen(s)] + f[s \ {Chosen(s)}]]
<1>1. \E f : Loop(f)
  <2>1. Cardinality(Class) \in Nat /\ \A s \in SUBSET Class : Cardinality(s) <= Cardinality(Class)
    BY WeightsAssumption, FS_CardinalityType, FS_Subset
  <2>2. Small(Cardinality(Class)) = SUBSET Class
    BY <2>1 DEF Small
  <2>3. PICK f : SumsTo(f, table, Cardinality(Class))
    BY <2>1, SumsExist
  <2> QED
    BY <2>2, <2>3 DEF SumsTo
<1>2. PICK f : Loop(f) /\ TotalWeight(table) = 1 + f[Class]
  <2>1. TotalWeight(table) = 1 + (CHOOSE f : Loop(f))[Class]
    BY DEF TotalWeight, MapThenSumSet, MapThenFoldSet, BUILTIN_HOST_WEIGHT_VALUE, Chosen
  <2>2. Loop(CHOOSE f : Loop(f))
    <3> HIDE DEF Loop
    <3> QED
      BY <1>1
  <2> QED
    BY <2>1, <2>2
<1> DEFINE Odd == {n \in Nat : \E s \in SUBSET Class : Cardinality(s) = n /\ f[s] \notin Nat}
<1>3. Odd = {}
  <2> SUFFICES ASSUME Odd # {} PROVE FALSE
    OBVIOUS
  <2>1. Odd \subseteq Nat
    OBVIOUS
  <2>2. PICK n \in Odd : \A k \in Odd : n <= k
    <3> HIDE DEF Odd
    <3> QED
      BY <2>1, LeastOf
  <2>3. PICK s \in SUBSET Class : Cardinality(s) = n /\ f[s] \notin Nat
    BY <2>2
  <2>4. f[s] = IF s = {} THEN 0 ELSE table[Chosen(s)] + f[s \ {Chosen(s)}]
    BY <1>2
  <2>5. s # {}
    BY <2>3, <2>4
  <2>6. /\ Chosen(s) \in Class /\ s \ {Chosen(s)} \in SUBSET Class
        /\ Cardinality(s \ {Chosen(s)}) = n - 1 /\ n - 1 \in Nat
    BY <2>3, <2>5, Smaller
  <2>7. n - 1 \notin Odd
    BY <2>2, <2>6
  <2>8. f[s \ {Chosen(s)}] \in Nat
    BY <2>6, <2>7
  <2>9. table[Chosen(s)] \in Nat
    BY <2>6 DEF WTables
  <2> QED
    BY <2>3, <2>4, <2>5, <2>8, <2>9
<1>4. Cardinality(Class) \in Nat
  BY WeightsAssumption, FS_CardinalityType
<1>5. f[Class] \in Nat
  BY <1>3, <1>4
<1> QED
  BY <1>2, <1>5

(* No table or file gets more classes than there is room for; a file being *)
(* written has classes of its writer's table only.                         *)
Fits(table) == Cardinality(Classes(table)) <= MAX_HOST_WEIGHT_CLASS_NUM
Room ==
    /\ \A a \in Ctl \cup Loader : Fits(wtable[a])
    /\ Fits(wfile) /\ Fits(weight_table)
    /\ \A c \in Ctl : wpc[c] = "write" => Classes(wfile) \subseteq Classes(wtable[c])

LEMMA FitsNone == Fits(None) /\ Classes(None) = {}
<1>1. Classes(None) = {}
  BY DEF Classes, None
<1> QED
  BY <1>1, FS_EmptySet, WeightsAssumption DEF Fits

LEMMA FitsSubset ==
  ASSUME NEW f, NEW g, Classes(f) \subseteq Classes(g), Fits(g)
  PROVE  Fits(f)
<1>1. IsFiniteSet(Classes(g))
  BY WeightsAssumption, FS_Subset DEF Classes
<1>2. IsFiniteSet(Classes(f)) /\ Cardinality(Classes(f)) <= Cardinality(Classes(g))
  BY <1>1, FS_Subset
<1> QED
  BY <1>1, <1>2, FS_CardinalityType, WeightsAssumption DEF Fits

LEMMA FitsSet ==
  ASSUME NEW table \in WTables, Fits(table), NEW k \in Class, NEW w \in Nat, set_hostweight_table(table, k, w).ok
  PROVE  Fits([table EXCEPT ![k] = w])
<1> DEFINE new == [table EXCEPT ![k] = w]
<1>1. CASE table[k] # 0 \/ w = 0
  <2>1. Classes(new) \subseteq Classes(table)
    BY <1>1 DEF Classes, WTables
  <2> QED
    BY <2>1, FitsSubset
<1>2. CASE table[k] = 0 /\ w # 0
  <2>1. Classes(new) = Classes(table) \cup {k} /\ k \notin Classes(table)
    BY <1>2 DEF Classes, WTables
  <2>2. IsFiniteSet(Classes(table)) /\ Cardinality(Classes(table)) \in Nat
    BY WeightsAssumption, FS_Subset, FS_CardinalityType DEF Classes
  <2>3. Cardinality(Classes(new)) = Cardinality(Classes(table)) + 1
    BY <2>1, <2>2, FS_AddElement
  <2>4. Cardinality(Classes(table)) < MAX_HOST_WEIGHT_CLASS_NUM
    BY <1>2 DEF set_hostweight_table
  <2> HIDE DEF new
  <2>5. Fits(new)
    BY <2>2, <2>3, <2>4, WeightsAssumption DEF Fits
  <2> QED
    BY <2>5 DEF new
<1> QED
  BY <1>1, <1>2 DEF set_hostweight_table

LEMMA RoomStep ==
  ASSUME WTypes, Serial, Room, [WeightNext]_wvars
  PROVE  Room'
<1> USE WeightsAssumption DEF WTypes, WpcOfCtl, WpcOfLoader, Loader, WTables, smweights, Room
<1>1. ASSUME NEW c \in Ctl, weight_set(c) PROVE Room'
  <2>1. /\ wtable' = [wtable EXCEPT ![c] = wfile] /\ UNCHANGED <<wfile, weight_table>>
        /\ wpc' = [wpc EXCEPT ![c] = wpc'[c]] /\ wpc'[c] \in {"set", "update"}
    BY <1>1 DEF weight_set, read_hostweight_file
  <2>2. \A d \in Ctl : wpc'[d] = "write" => wpc[d] = "write" /\ wtable'[d] = wtable[d]
    BY <2>1
  <2>3. \A a \in Ctl \cup Loader : Fits(wtable'[a])
    BY <2>1
  <2> QED
    BY <2>1, <2>2, <2>3
<1>2. ASSUME NEW c \in Ctl, weight_set_table(c) PROVE Room'
  <2>1. wlock = c /\ wpc[c] = "set" /\ wanted[c] \in Class \X Weight
    BY <1>2 DEF weight_set_table, Serial
  <2>2. \A d \in Ctl : d # c => wpc[d] # "write"
    BY <2>1 DEF Serial
  <2>3. /\ weight_table' = weight_table
        /\ \A d \in Ctl : d # c => wpc'[d] = wpc[d]
    BY <1>2 DEF weight_set_table
  <2>4. CASE set_hostweight_table(wtable[c], wanted[c][1], wanted[c][2]).ok
    <3>1. PICK new : new = [wtable[c] EXCEPT ![wanted[c][1]] = wanted[c][2]]
      OBVIOUS
    <3>2. Fits(new)
      BY <2>1, <2>4, <3>1, FitsSet
    <3>3. wtable' = [wtable EXCEPT ![c] = new] /\ wfile' = None
      BY <1>2, <2>4, <3>1 DEF weight_set_table, set_hostweight_table
    <3>4. \A a \in Ctl \cup Loader : Fits(wtable'[a])
      BY <3>2, <3>3
    <3> QED
      BY <2>3, <3>3, <3>4, FitsNone
  <2>5. CASE ~ set_hostweight_table(wtable[c], wanted[c][1], wanted[c][2]).ok
    <3>1. UNCHANGED <<wtable, wfile>> /\ wpc'[c] = "failed"
      BY <1>2, <2>5 DEF weight_set_table
    <3> QED
      BY <2>3, <3>1
  <2> QED
    BY <2>4, <2>5
<1>3. ASSUME NEW c \in Ctl, write_hostweight_file(c) PROVE Room'
  <2>1. wlock = c /\ wpc[c] = "write"
    BY <1>3 DEF write_hostweight_file, Serial
  <2>2. \A d \in Ctl : d # c => wpc[d] # "write"
    BY <2>1 DEF Serial
  <2>3. UNCHANGED <<wpc, wtable, weight_table>>
    BY <1>3 DEF write_hostweight_file
  <2>4. PICK k \in Classes(wtable[c]) : wfile' = [wfile EXCEPT ![k] = wtable[c][k]]
    BY <1>3 DEF write_hostweight_file
  <2>5. Classes(wfile') \subseteq Classes(wtable[c])
    <3>1. Classes(wfile) \subseteq Classes(wtable[c])
      BY <2>1
    <3>2. ASSUME NEW j \in Classes(wfile') PROVE j \in Classes(wtable[c])
      <4>1. CASE j = k
        BY <2>4, <4>1
      <4>2. CASE j # k
        BY <2>4, <3>1, <4>2 DEF Classes
      <4> QED
        BY <4>1, <4>2
    <3> QED
      BY <3>2
  <2>6. Fits(wfile')
    BY <2>5, FitsSubset
  <2> QED
    BY <2>1, <2>2, <2>3, <2>5, <2>6
<1>4. ASSUME NEW c \in Ctl, weight_set_end(c) PROVE Room'
  <2>1. UNCHANGED <<wfile, wtable>> /\ (UNCHANGED weight_table \/ \E a \in Ctl \cup Loader : weight_table' = wtable[a])
    BY <1>4 DEF weight_set_end
  <2>2. \A d \in Ctl : wpc'[d] = "write" => wpc[d] = "write"
    BY <1>4 DEF weight_set_end
  <2> QED
    BY <2>1, <2>2
<1>5. ASSUME NEW c \in Ctl, WriterDies(c) PROVE Room'
  <2>1. UNCHANGED <<wfile, wtable>> /\ (UNCHANGED weight_table \/ \E a \in Ctl \cup Loader : weight_table' = wtable[a])
    BY <1>5 DEF WriterDies
  <2>2. \A d \in Ctl : wpc'[d] = "write" => wpc[d] = "write"
    BY <1>5 DEF WriterDies
  <2> QED
    BY <2>1, <2>2
<1>6. ASSUME NEW c \in Ctl, reload_host_weight(c) PROVE Room'
  <2>1. UNCHANGED <<wfile, wtable>> /\ (UNCHANGED weight_table \/ \E a \in Ctl \cup Loader : weight_table' = wtable[a])
    BY <1>6 DEF reload_host_weight
  <2>2. \A d \in Ctl : wpc'[d] = "write" => wpc[d] = "write"
    BY <1>6 DEF reload_host_weight
  <2> QED
    BY <2>1, <2>2
<1>7. ASSUME NEW c \in Ctl, reload_host_weight_answer(c) PROVE Room'
  <2>1. UNCHANGED <<wfile, wtable>> /\ (UNCHANGED weight_table \/ \E a \in Ctl \cup Loader : weight_table' = wtable[a])
    BY <1>7 DEF reload_host_weight_answer
  <2>2. \A d \in Ctl : wpc'[d] = "write" => wpc[d] = "write"
    BY <1>7 DEF reload_host_weight_answer
  <2> QED
    BY <2>1, <2>2
<1>8. ASSUME service_start PROVE Room'
  <2>1. UNCHANGED <<wfile, wtable>> /\ (UNCHANGED weight_table \/ \E a \in Ctl \cup Loader : weight_table' = wtable[a])
    BY <1>8 DEF service_start
  <2>2. \A d \in Ctl : wpc'[d] = "write" => wpc[d] = "write"
    BY <1>8 DEF service_start
  <2> QED
    BY <2>1, <2>2
<1>9. ASSUME NEW t \in Loader, hostweight_reload(t) PROVE Room'
  <2>1. /\ wtable' = [wtable EXCEPT ![t] = wfile] /\ UNCHANGED <<wfile, weight_table>>
        /\ wpc' = [wpc EXCEPT ![t] = wpc'[t]] /\ wpc'[t] \in {"set", "update"}
    BY <1>9 DEF hostweight_reload, read_hostweight_file
  <2>2. \A d \in Ctl : wpc'[d] = "write" => wpc[d] = "write" /\ wtable'[d] = wtable[d]
    BY <2>1
  <2>3. \A a \in Ctl \cup Loader : Fits(wtable'[a])
    BY <2>1
  <2> QED
    BY <2>1, <2>2, <2>3
<1>10. ASSUME NEW t \in Loader, hostweight_update(t) PROVE Room'
  <2>1. UNCHANGED <<wfile, wtable>> /\ (UNCHANGED weight_table \/ \E a \in Ctl \cup Loader : weight_table' = wtable[a])
    BY <1>10 DEF hostweight_update
  <2>2. \A d \in Ctl : wpc'[d] = "write" => wpc[d] = "write"
    BY <1>10 DEF hostweight_update
  <2> QED
    BY <2>1, <2>2
<1>11. ASSUME NEW t \in Loader, calc_hostweight(t) PROVE Room'
  <2>1. UNCHANGED <<wfile, wtable>> /\ (UNCHANGED weight_table \/ \E a \in Ctl \cup Loader : weight_table' = wtable[a])
    BY <1>11 DEF calc_hostweight
  <2>2. \A d \in Ctl : wpc'[d] = "write" => wpc[d] = "write"
    BY <1>11 DEF calc_hostweight
  <2> QED
    BY <2>1, <2>2
<1>12. ASSUME NEW t \in Loader, hostweight_set_sm(t) PROVE Room'
  <2>1. UNCHANGED <<wfile, wtable>> /\ (UNCHANGED weight_table \/ \E a \in Ctl \cup Loader : weight_table' = wtable[a])
    BY <1>12 DEF hostweight_set_sm
  <2>2. \A d \in Ctl : wpc'[d] = "write" => wpc[d] = "write"
    BY <1>12 DEF hostweight_set_sm
  <2> QED
    BY <2>1, <2>2
<1>13. ASSUME NEW t \in Loader, hostweight_close(t) PROVE Room'
  <2>1. UNCHANGED <<wfile, wtable>> /\ (UNCHANGED weight_table \/ \E a \in Ctl \cup Loader : weight_table' = wtable[a])
    BY <1>13 DEF hostweight_close
  <2>2. \A d \in Ctl : wpc'[d] = "write" => wpc[d] = "write"
    BY <1>13 DEF hostweight_close
  <2> QED
    BY <2>1, <2>2
<1>14. ASSUME commit_weight PROVE Room'
  <2>1. UNCHANGED <<wfile, wtable>> /\ (UNCHANGED weight_table \/ \E a \in Ctl \cup Loader : weight_table' = wtable[a])
    BY <1>14 DEF commit_weight
  <2>2. \A d \in Ctl : wpc'[d] = "write" => wpc[d] = "write"
    BY <1>14 DEF commit_weight
  <2> QED
    BY <2>1, <2>2
<1>15. CASE UNCHANGED wvars
  BY <1>15 DEF wvars
<1> HIDE DEF Room
<1> QED
  BY <1>1, <1>2, <1>3, <1>4, <1>5, <1>6, <1>7, <1>8, <1>9, <1>10, <1>11, <1>12, <1>13, <1>14, <1>15
  DEF WeightNext

(* The numbers, and who holds the lock. *)
Numbers ==
    /\ wlock \in Ctl \cup {"daemon", Unlocked}
    /\ sm_weight \in Nat /\ commited_weight \in Nat /\ calculated \in [Loader -> Nat]
    /\ overlapped \in BOOLEAN

LEMMA NumbersStep ==
  ASSUME WTypes, Numbers, [WeightNext]_wvars
  PROVE  Numbers'
<1> USE WeightsAssumption DEF WTypes, Loader, WTables, smweights, Numbers
<1>1. ASSUME NEW c \in Ctl, weight_set(c) PROVE Numbers'
  BY <1>1 DEF weight_set, open_hostweight_file, ProcessOf
<1>2. ASSUME NEW c \in Ctl, weight_set_table(c) PROVE Numbers'
  BY <1>2 DEF weight_set_table, CloseFile
<1>3. ASSUME NEW c \in Ctl, write_hostweight_file(c) PROVE Numbers'
  BY <1>3 DEF write_hostweight_file
<1>4. ASSUME NEW c \in Ctl, weight_set_end(c) PROVE Numbers'
  BY <1>4 DEF weight_set_end, CloseFile
<1>5. ASSUME NEW c \in Ctl, WriterDies(c) PROVE Numbers'
  BY <1>5 DEF WriterDies, CloseFile
<1>6. ASSUME NEW c \in Ctl, reload_host_weight(c) PROVE Numbers'
  BY <1>6 DEF reload_host_weight
<1>7. ASSUME NEW c \in Ctl, reload_host_weight_answer(c) PROVE Numbers'
  BY <1>7 DEF reload_host_weight_answer
<1>8. ASSUME service_start PROVE Numbers'
  BY <1>8 DEF service_start
<1>9. ASSUME NEW t \in Loader, hostweight_reload(t) PROVE Numbers'
  <2>1. overlapped' \in BOOLEAN
    BY <1>9 DEF hostweight_reload
  <2> QED
    BY <1>9, <2>1 DEF hostweight_reload, open_hostweight_file, ProcessOf
<1>10. ASSUME NEW t \in Loader, hostweight_update(t) PROVE Numbers'
  BY <1>10 DEF hostweight_update
<1>11. ASSUME NEW t \in Loader, calc_hostweight(t) PROVE Numbers'
  <2>1. TotalWeight(weight_table) \in Nat
    BY TotalNat
  <2> QED
    BY <1>11, <2>1 DEF calc_hostweight
<1>12. ASSUME NEW t \in Loader, hostweight_set_sm(t) PROVE Numbers'
  BY <1>12 DEF hostweight_set_sm
<1>13. ASSUME NEW t \in Loader, hostweight_close(t) PROVE Numbers'
  BY <1>13 DEF hostweight_close, CloseFile
<1>14. ASSUME commit_weight PROVE Numbers'
  BY <1>14 DEF commit_weight
<1>15. CASE UNCHANGED wvars
  BY <1>15 DEF wvars
<1> HIDE DEF Numbers
<1> QED
  BY <1>1, <1>2, <1>3, <1>4, <1>5, <1>6, <1>7, <1>8, <1>9, <1>10, <1>11, <1>12, <1>13, <1>14, <1>15
  DEF WeightNext

(* The inductive invariant. *)
WeightInv == WTypes /\ Serial /\ Loads /\ Pending /\ Room /\ Numbers

LEMMA WeightInvInit == WeightInit => WeightInv
<1> SUFFICES ASSUME WeightInit PROVE WeightInv
  OBVIOUS
<1> USE WeightsAssumption DEF WeightInit, Loader
<1>1. WTypes
  BY DEF WTypes, WTables, None, WpcOfCtl, WpcOfLoader
<1>2. Serial
  BY DEF Serial
<1>3. Loads
  BY DEF Loads
<1>4. Pending
  BY DEF Pending
<1>5. Room
  BY FitsNone DEF Room
<1>6. Numbers
  BY DEF Numbers
<1> QED
  BY <1>1, <1>2, <1>3, <1>4, <1>5, <1>6 DEF WeightInv

LEMMA WeightInvStep == WeightInv /\ [WeightNext]_wvars => WeightInv'
<1> SUFFICES ASSUME WeightInv, [WeightNext]_wvars PROVE WeightInv'
  OBVIOUS
<1>1. WTypes'
  BY WTypesStep DEF WeightInv
<1> QED
  BY <1>1, SerialStep, LoadsStep, PendingStep, RoomStep, NumbersStep DEF WeightInv

LEMMA WeightInvariant == WeightSpec => []WeightInv
  BY WeightInvInit, WeightInvStep, PTL DEF WeightSpec

(* Between two writes the weight file is what the successful runs of       *)
(* weightctl made of it, one after the other, for any number of runs and   *)
(* classes, as long as no write failed and no run was killed.              *)
THEOREM NoWeightLost == WeightSpec => []NoUpdateLost
<1>1. WeightInv => NoUpdateLost
  BY DEF WeightInv, Serial, NoUpdateLost
<1> QED
  BY <1>1, WeightInvariant, PTL

(* Once every run of ha_set_host_weight has its answer the daemon works    *)
(* with the table they made and the SM object has its sum, unless main()   *)
(* and the script service loaded the file at the same time.                *)
THEOREM WeightInEffect == WeightSpec => []SetTakesEffect
<1>1. WeightInv => SetTakesEffect
  <2> SUFFICES ASSUME WeightInv, wfaults = 0, ~ overlapped,
                      \A c \in Ctl : wpc[c] \in {"done", "failed"}, wpc["main"] = "loaded"
               PROVE  weight_table = confirmed /\ sm_weight = TotalWeight(confirmed)
    BY DEF SetTakesEffect
  <2>1. wfile = confirmed
    BY DEF WeightInv, Serial
  <2>2. InEffect
    BY DEF WeightInv, Pending
  <2> QED
    BY <2>1, <2>2 DEF InEffect
<1> QED
  BY <1>1, WeightInvariant, PTL

-----------------------------------------------------------------------------
(* The script service *)

Serving == {"head", "body", "serve", "wait", "write", "check"}

ScTypes ==
    /\ backlog \in [Socket -> Seq(Client)]
    /\ thread \in [Socket -> Serving \cup {"select", "ended"}]
    /\ peer \in [Socket -> Client \cup {NoClient}]
    /\ retval \in [Socket -> {"none", "ok", "refused"}]
    /\ conn \in [Client -> {"idle", "connected", "closed", "gone", "done"}]
    /\ asks \in [Client -> Types \cup {"unknown"}]
    /\ result \in [Client -> {"none", "ok", "refused", "failed"}]
    /\ \A s \in Socket : thread[s] \in Serving => peer[s] \in Client

LEMMA AppendType ==
  ASSUME NEW S, NEW q \in Seq(S), NEW e \in S
  PROVE  Append(q, e) \in Seq(S)
  OBVIOUS

LEMMA ElementType ==
  ASSUME NEW S, NEW q \in Seq(S), NEW n \in 1..Len(q)
  PROVE  q[n] \in S
  OBVIOUS

LEMMA ContinueTypes ==
  ASSUME ScTypes, NEW s \in Socket, thread[s] \in Serving, continue_loop(s, peer[s]),
         UNCHANGED <<backlog, asks, result>>
  PROVE  ScTypes'
<1>1. /\ thread' \in [Socket -> Serving \cup {"select", "ended"}]
      /\ peer' \in [Socket -> Client \cup {NoClient}]
      /\ retval' \in [Socket -> {"none", "ok", "refused"}]
      /\ conn' \in [Client -> {"idle", "connected", "closed", "gone", "done"}]
  BY DEF ScTypes, Serving, continue_loop
<1>2. ASSUME NEW u \in Socket, thread'[u] \in Serving PROVE peer'[u] \in Client
  BY <1>2 DEF ScTypes, Serving, continue_loop
<1> QED
  BY <1>1, <1>2 DEF ScTypes

LEMMA ScTypesStep ==
  ASSUME ScTypes, [ScriptNext]_scvars
  PROVE  ScTypes'
<1> USE ScriptAssumption DEF ScTypes, Serving, clientvars, servervars, daemonvars
<1>1. ASSUME NEW s \in Socket, select_timeout(s) PROVE ScTypes'
  BY <1>1 DEF select_timeout, At
<1>2. ASSUME NEW s \in Socket, accept(s) PROVE ScTypes'
  BY <1>2 DEF accept, At
<1>3. ASSUME NEW s \in Socket, read_head(s) PROVE ScTypes'
  <2>1. CASE continue_loop(s, peer[s])
    BY <1>3, <2>1, ContinueTypes DEF read_head, At
  <2>2. CASE ~ continue_loop(s, peer[s])
    BY <1>3, <2>2 DEF read_head, At
  <2> QED
    BY <2>1, <2>2
<1>4. ASSUME NEW s \in Socket, read_body(s) PROVE ScTypes'
  <2>1. CASE continue_loop(s, peer[s])
    BY <1>4, <2>1, ContinueTypes DEF read_body, At
  <2>2. CASE ~ continue_loop(s, peer[s])
    BY <1>4, <2>2 DEF read_body, At
  <2> QED
    BY <2>1, <2>2
<1>5. ASSUME NEW s \in Socket, read_timeout(s) PROVE ScTypes'
  BY <1>5 DEF read_timeout, At, continue_loop
<1>6. ASSUME NEW s \in Socket, do_master_or_disarm(s) PROVE ScTypes'
  BY <1>6 DEF do_master_or_disarm, At, Answer
<1>7. ASSUME NEW s \in Socket, do_statefile(s) PROVE ScTypes'
  BY <1>7 DEF do_statefile, At, Answer
<1>8. ASSUME NEW s \in Socket, do_wait(s) PROVE ScTypes'
  BY <1>8 DEF do_wait, At, Answer
<1>9. ASSUME NEW s \in Socket, do_at_once(s) PROVE ScTypes'
  BY <1>9 DEF do_at_once, At, Answer
<1>10. ASSUME NEW s \in Socket, write_response(s) PROVE ScTypes'
  BY <1>10 DEF write_response, At
<1>11. ASSUME NEW s \in Socket, write_failed(s) PROVE ScTypes'
  BY <1>11 DEF write_failed, At, continue_loop
<1>12. ASSUME NEW s \in Socket, check_after_set_excluded(s) PROVE ScTypes'
  <2>1. CASE continue_loop(s, peer[s]) /\ UNCHANGED backlog
    BY <1>12, <2>1, ContinueTypes DEF check_after_set_excluded, At
  <2>2. CASE Exit /\ UNCHANGED conn
    BY <1>12, <2>2 DEF check_after_set_excluded, Exit
  <2> QED
    BY <1>12, <2>1, <2>2 DEF check_after_set_excluded
<1>13. ASSUME NEW c \in Client, script_call_daemon(c) PROVE ScTypes'
  <2>1. PICK type \in Asked :
           /\ asks' = [asks EXCEPT ![c] = type]
           /\ UNCHANGED backlog \/ backlog' = [backlog EXCEPT ![calldaemon_socket_index(type)] = Append(@, c)]
    BY <1>13 DEF script_call_daemon
  <2>2. asks' \in [Client -> Types \cup {"unknown"}]
    BY <2>1
  <2>3. backlog' \in [Socket -> Seq(Client)]
    <3>1. CASE calldaemon_socket_index(type) \in Socket
      <4>0. backlog[calldaemon_socket_index(type)] \in Seq(Client)
        BY <3>1
      <4>1. Append(backlog[calldaemon_socket_index(type)], c) \in Seq(Client)
        BY <4>0, AppendType
      <4> QED
        BY <2>1, <3>1, <4>1
    <3>2. CASE calldaemon_socket_index(type) \notin Socket
      BY <2>1, <3>2
    <3> QED
      BY <3>1, <3>2
  <2>4. /\ conn' \in [Client -> {"idle", "connected", "closed", "gone", "done"}]
        /\ result' \in [Client -> {"none", "ok", "refused", "failed"}]
    BY <1>13 DEF script_call_daemon
  <2> QED
    BY <1>13, <2>2, <2>3, <2>4 DEF script_call_daemon
<1>14. ASSUME NEW c \in Client, call_daemon_write(c) PROVE ScTypes'
  BY <1>14 DEF call_daemon_write
<1>15. ASSUME NEW c \in Client, call_daemon_error(c) PROVE ScTypes'
  BY <1>15 DEF call_daemon_error
<1>16. ASSUME NEW c \in Client, ClientKilled(c) PROVE ScTypes'
  BY <1>16 DEF ClientKilled
<1>17. CASE script_terminate
  BY <1>17 DEF script_terminate
<1>18. CASE DaemonExit
  BY <1>18 DEF DaemonExit, Exit
<1>19. CASE UNCHANGED scvars
  BY <1>19 DEF scvars
<1> HIDE DEF ScTypes
<1> QED
  BY <1>1, <1>2, <1>3, <1>4, <1>5, <1>6, <1>7, <1>8, <1>9, <1>10, <1>11, <1>12, <1>13, <1>14, <1>15, <1>16, <1>17, <1>18, <1>19
  DEF ScriptNext, ServiceThread, CallDaemon

(* A client that waits, is served or has its answer has made its request.  *)
Requested ==
    /\ \A s \in Socket : \A i \in 1..Len(backlog[s]) : conn[backlog[s][i]] # "idle"
    /\ \A s \in Socket : thread[s] \in Serving => conn[peer[s]] # "idle"
    /\ \A c \in Client : conn[c] = "idle" => result[c] = "none"

LEMMA RequestedStep ==
  ASSUME ScTypes, Requested, [ScriptNext]_scvars
  PROVE  Requested'
<1> USE ScriptAssumption DEF ScTypes, Serving, clientvars, servervars, daemonvars, Requested
<1>1. ASSUME NEW s \in Socket, select_timeout(s) PROVE Requested'
  BY <1>1 DEF select_timeout, At
<1>2. ASSUME NEW s \in Socket, accept(s) PROVE Requested'
  BY <1>2 DEF accept, At
<1>3. ASSUME NEW s \in Socket, read_head(s) PROVE Requested'
  <2>1. CASE continue_loop(s, peer[s])
    BY <1>3, <2>1 DEF read_head, At, continue_loop
  <2>2. CASE thread' = [thread EXCEPT ![s] = "body"] /\ UNCHANGED <<peer, retval, conn>>
    <3>1. UNCHANGED <<backlog, result>> /\ thread[s] \in Serving
      BY <1>3 DEF read_head, At
    <3>2. \A u \in Socket : thread'[u] \in Serving => thread[u] \in Serving
      BY <2>2, <3>1
    <3>3. \A u \in Socket : thread'[u] \in Serving => conn'[peer'[u]] # "idle"
      BY <2>2, <3>2
    <3>4. UNCHANGED <<backlog, conn, result>>
      BY <2>2, <3>1
    <3> QED
      BY <3>3, <3>4
  <2> QED
    BY <1>3, <2>1, <2>2 DEF read_head
<1>4. ASSUME NEW s \in Socket, read_body(s) PROVE Requested'
  <2>1. CASE continue_loop(s, peer[s])
    BY <1>4, <2>1 DEF read_body, At, continue_loop
  <2>2. CASE thread' = [thread EXCEPT ![s] = "serve"] /\ UNCHANGED <<peer, retval, conn>>
    <3>1. UNCHANGED <<backlog, result>> /\ thread[s] \in Serving
      BY <1>4 DEF read_body, At
    <3>2. \A u \in Socket : thread'[u] \in Serving => thread[u] \in Serving
      BY <2>2, <3>1
    <3>3. \A u \in Socket : thread'[u] \in Serving => conn'[peer'[u]] # "idle"
      BY <2>2, <3>2
    <3>4. UNCHANGED <<backlog, conn, result>>
      BY <2>2, <3>1
    <3> QED
      BY <3>3, <3>4
  <2> QED
    BY <1>4, <2>1, <2>2 DEF read_body
<1>5. ASSUME NEW s \in Socket, read_timeout(s) PROVE Requested'
  BY <1>5 DEF read_timeout, At, continue_loop
<1>6. ASSUME NEW s \in Socket, do_master_or_disarm(s) PROVE Requested'
  BY <1>6 DEF do_master_or_disarm, At, Answer
<1>7. ASSUME NEW s \in Socket, do_statefile(s) PROVE Requested'
  BY <1>7 DEF do_statefile, At, Answer
<1>8. ASSUME NEW s \in Socket, do_wait(s) PROVE Requested'
  BY <1>8 DEF do_wait, At, Answer
<1>9. ASSUME NEW s \in Socket, do_at_once(s) PROVE Requested'
  BY <1>9 DEF do_at_once, At, Answer
<1>10. ASSUME NEW s \in Socket, write_response(s) PROVE Requested'
  BY <1>10 DEF write_response, At
<1>11. ASSUME NEW s \in Socket, write_failed(s) PROVE Requested'
  BY <1>11 DEF write_failed, At, continue_loop
<1>12. ASSUME NEW s \in Socket, check_after_set_excluded(s) PROVE Requested'
  BY <1>12 DEF check_after_set_excluded, At, continue_loop, Exit
<1>13. ASSUME NEW c \in Client, script_call_daemon(c) PROVE Requested'
  <2>1. PICK type \in Asked :
           UNCHANGED backlog \/ backlog' = [backlog EXCEPT ![calldaemon_socket_index(type)] = Append(@, c)]
    BY <1>13 DEF script_call_daemon
  <2>2. /\ conn'[c] # "idle"
        /\ \A d \in Client : d # c => conn'[d] = conn[d] /\ result'[d] = result[d]
        /\ UNCHANGED <<thread, peer>>
    BY <1>13 DEF script_call_daemon
  <2>3. ASSUME NEW u \in Socket, NEW i \in 1..Len(backlog'[u]) PROVE conn'[backlog'[u][i]] # "idle"
    <3>1. CASE backlog'[u] = backlog[u]
      <4>0. backlog[u] \in Seq(Client) /\ i \in 1..Len(backlog[u])
        BY <2>3, <3>1
      <4>1. backlog[u][i] \in Client
        BY <4>0, ElementType
      <4>2. conn[backlog[u][i]] # "idle"
        BY <4>0
      <4> QED
        BY <2>2, <3>1, <4>1, <4>2
    <3>2. CASE backlog'[u] = Append(backlog[u], c)
      BY <2>2, <2>3, <3>2
    <3> QED
      BY <2>1, <3>1, <3>2
  <2> QED
    BY <2>2, <2>3
<1>14. ASSUME NEW c \in Client, call_daemon_write(c) PROVE Requested'
  BY <1>14 DEF call_daemon_write
<1>15. ASSUME NEW c \in Client, call_daemon_error(c) PROVE Requested'
  BY <1>15 DEF call_daemon_error
<1>16. ASSUME NEW c \in Client, ClientKilled(c) PROVE Requested'
  BY <1>16 DEF ClientKilled
<1>17. CASE script_terminate
  BY <1>17 DEF script_terminate
<1>18. CASE DaemonExit
  BY <1>18 DEF DaemonExit, Exit
<1>19. CASE UNCHANGED scvars
  BY <1>19 DEF scvars
<1> HIDE DEF Requested
<1> QED
  BY <1>1, <1>2, <1>3, <1>4, <1>5, <1>6, <1>7, <1>8, <1>9, <1>10, <1>11, <1>12, <1>13, <1>14, <1>15, <1>16, <1>17, <1>18, <1>19
  DEF ScriptNext, ServiceThread, CallDaemon

(* Only the thread of one socket executes the requests that set and clear  *)
(* the flag; it has set the flag from the wait for the disk until the      *)
(* check after the answer, which ends the daemon.                          *)
OwnRequests ==
    \A s \in Socket : thread[s] \in {"serve", "wait", "write", "check"} => type_to_func(asks[peer[s]], s)
FlagSet ==
    \A s \in Socket : asks[peer[s]] = "set_excluded" =>
        /\ thread[s] = "wait" => excluded
        /\ thread[s] \in {"write", "check"} /\ retval[s] = "ok" => excluded
FlagSeen ==
    \A c \in Client : asks[c] = "set_excluded" /\ result[c] = "ok" =>
        /\ excluded
        /\ exited \/ \E s \in Socket : thread[s] = "check" /\ peer[s] = c /\ retval[s] = "ok"
FlagKept == OwnRequests /\ FlagSet /\ FlagSeen

(* A thread that reads a request, or gives up on it, touches nothing of    *)
(* that.                                                                   *)
LEMMA FlagKeptReading ==
  ASSUME ScTypes, FlagKept, NEW s \in Socket, thread[s] \in {"head", "body"},
         \/ thread'[s] \in {"select", "ended", "body"}
         \/ thread'[s] = "serve" /\ peer'[s] = peer[s] /\ type_to_func(asks[peer[s]], s),
         \A u \in Socket : u # s => thread'[u] = thread[u] /\ peer'[u] = peer[u] /\ retval'[u] = retval[u],
         UNCHANGED <<asks, result, excluded, exited>>
  PROVE  FlagKept'
<1>1. OwnRequests'
  BY DEF FlagKept, OwnRequests, type_to_func, type_to_socket_index
<1>2. FlagSet'
  BY DEF FlagKept, FlagSet
<1>3. FlagSeen'
  BY DEF FlagKept, FlagSeen
<1> QED
  BY <1>1, <1>2, <1>3 DEF FlagKept

LEMMA FlagKeptStep ==
  ASSUME ScTypes, Requested, FlagKept, [ScriptNext]_scvars
  PROVE  FlagKept'
<1> USE ScriptAssumption DEF ScTypes, Serving, clientvars, servervars, daemonvars, Requested, FlagKept, OwnRequests, FlagSet, FlagSeen, type_to_func, type_to_socket_index
<1>1. ASSUME NEW s \in Socket, select_timeout(s) PROVE FlagKept'
  BY <1>1 DEF select_timeout, At
<1>2. ASSUME NEW s \in Socket, accept(s) PROVE FlagKept'
  BY <1>2 DEF accept, At
<1>3. ASSUME NEW s \in Socket, read_head(s) PROVE FlagKept'
  <2>1. /\ thread[s] \in {"head", "body"}
        /\ \/ thread'[s] \in {"select", "ended", "body"}
           \/ thread'[s] = "serve" /\ peer'[s] = peer[s] /\ type_to_func(asks[peer[s]], s)
        /\ UNCHANGED <<asks, result, excluded, exited>>
    BY <1>3 DEF read_head, At, continue_loop
  <2>2. \A u \in Socket : u # s => thread'[u] = thread[u] /\ peer'[u] = peer[u] /\ retval'[u] = retval[u]
    BY <1>3 DEF read_head, At, continue_loop
  <2> HIDE DEF ScTypes, FlagKept, OwnRequests, FlagSet, FlagSeen
  <2> QED
    BY <2>1, <2>2, FlagKeptReading
<1>4. ASSUME NEW s \in Socket, read_body(s) PROVE FlagKept'
  <2>1. /\ thread[s] \in {"head", "body"}
        /\ \/ thread'[s] \in {"select", "ended", "body"}
           \/ thread'[s] = "serve" /\ peer'[s] = peer[s] /\ type_to_func(asks[peer[s]], s)
        /\ UNCHANGED <<asks, result, excluded, exited>>
    BY <1>4 DEF read_body, At, continue_loop
  <2>2. \A u \in Socket : u # s => thread'[u] = thread[u] /\ peer'[u] = peer[u] /\ retval'[u] = retval[u]
    BY <1>4 DEF read_body, At, continue_loop
  <2> HIDE DEF ScTypes, FlagKept, OwnRequests, FlagSet, FlagSeen
  <2> QED
    BY <2>1, <2>2, FlagKeptReading
<1>5. ASSUME NEW s \in Socket, read_timeout(s) PROVE FlagKept'
  <2>1. /\ thread[s] \in {"head", "body"}
        /\ \/ thread'[s] \in {"select", "ended", "body"}
           \/ thread'[s] = "serve" /\ peer'[s] = peer[s] /\ type_to_func(asks[peer[s]], s)
        /\ UNCHANGED <<asks, result, excluded, exited>>
    BY <1>5 DEF read_timeout, At, continue_loop
  <2>2. \A u \in Socket : u # s => thread'[u] = thread[u] /\ peer'[u] = peer[u] /\ retval'[u] = retval[u]
    BY <1>5 DEF read_timeout, At, continue_loop
  <2> HIDE DEF ScTypes, FlagKept, OwnRequests, FlagSet, FlagSeen
  <2> QED
    BY <2>1, <2>2, FlagKeptReading
<1>6. ASSUME NEW s \in Socket, do_master_or_disarm(s) PROVE FlagKept'
  BY <1>6 DEF do_master_or_disarm, At, Answer
<1>7. ASSUME NEW s \in Socket, do_statefile(s) PROVE FlagKept'
  <2>1. /\ thread[s] = "serve" /\ ~ exited /\ asks[peer[s]] \in StateFileTypes
        /\ thread' = [thread EXCEPT ![s] = "wait"] \/ thread' = [thread EXCEPT ![s] = "write"]
        /\ UNCHANGED <<peer, asks, result, exited>>
    BY <1>7 DEF do_statefile, At, Answer
  <2>2. s = "other"
    BY <2>1 DEF type_to_func, type_to_socket_index, StateFileTypes, Query, Internal, Log, Maintenance
  <2>3. \A u \in Socket : u # s => thread[u] # "check" \/ asks[peer[u]] # "set_excluded"
    BY <2>2 DEF Query, Internal, Log, Maintenance
  <2>4. \A d \in Client : ~ (asks[d] = "set_excluded" /\ result[d] = "ok")
    BY <2>1, <2>3
  <2>5. \A u \in Socket : u # s /\ asks[peer[u]] = "set_excluded" => thread[u] \notin {"wait", "write", "check"}
    BY <2>2 DEF Query, Internal, Log, Maintenance
  <2>6. /\ thread'[s] = "write" => retval'[s] # "ok"
        /\ \A u \in Socket : u # s => retval'[u] = retval[u]
    BY <1>7 DEF do_statefile, Answer
  <2>7. asks[peer[s]] = "set_excluded" /\ thread'[s] = "wait" => excluded'
    <3> SUFFICES ASSUME asks[peer[s]] = "set_excluded", thread'[s] = "wait" PROVE excluded'
      OBVIOUS
    <3>1. excluded' = (asks[peer[s]] = "set_excluded")
      BY <1>7 DEF do_statefile, Answer
    <3> QED
      BY <3>1
  <2>8. OwnRequests'
    <3>1. \A u \in Socket : thread'[u] \in {"serve", "wait", "write", "check"} =>
             thread[u] \in {"serve", "wait", "write", "check"}
      BY <2>1
    <3> QED
      BY <2>1, <3>1
  <2>9. FlagSet'
    BY <2>1, <2>5, <2>6, <2>7
  <2>10. FlagSeen'
    BY <2>1, <2>4
  <2> QED
    BY <2>8, <2>9, <2>10
<1>8. ASSUME NEW s \in Socket, do_wait(s) PROVE FlagKept'
  <2>1. /\ thread[s] = "wait" /\ thread' = [thread EXCEPT ![s] = "write"]
        /\ \A u \in Socket : u # s => retval'[u] = retval[u]
        /\ UNCHANGED <<peer, asks, result, excluded, exited>>
    BY <1>8 DEF do_wait, At, Answer
  <2>2. OwnRequests'
    <3>1. \A u \in Socket : thread'[u] \in {"serve", "wait", "write", "check"} =>
             thread[u] \in {"serve", "wait", "write", "check"}
      BY <2>1
    <3> QED
      BY <2>1, <3>1
  <2>3. FlagSet'
    BY <2>1
  <2>4. FlagSeen'
    BY <2>1
  <2> QED
    BY <2>2, <2>3, <2>4
<1>9. ASSUME NEW s \in Socket, do_at_once(s) PROVE FlagKept'
  <2>1. /\ thread[s] = "serve" /\ asks[peer[s]] \in Query \cup Internal
        /\ thread' = [thread EXCEPT ![s] = "write"]
        /\ \A u \in Socket : u # s => retval'[u] = retval[u]
        /\ UNCHANGED <<peer, asks, result, excluded, exited>>
    BY <1>9 DEF do_at_once, At, Answer
  <2>2. asks[peer[s]] # "set_excluded"
    BY <2>1 DEF Query, Internal, Log, Maintenance
  <2>3. OwnRequests'
    <3>1. \A u \in Socket : thread'[u] \in {"serve", "wait", "write", "check"} =>
             thread[u] \in {"serve", "wait", "write", "check"}
      BY <2>1
    <3> QED
      BY <2>1, <3>1
  <2>4. FlagSet'
    BY <2>1, <2>2
  <2>5. FlagSeen'
    BY <2>1
  <2> QED
    BY <2>3, <2>4, <2>5
<1>10. ASSUME NEW s \in Socket, write_response(s) PROVE FlagKept'
  <2>1. /\ thread[s] = "write" /\ thread' = [thread EXCEPT ![s] = "check"]
        /\ result' = [result EXCEPT ![peer[s]] = retval[s]]
        /\ UNCHANGED <<peer, retval, asks, excluded, exited>>
    BY <1>10 DEF write_response, At
  <2>2. ASSUME NEW c \in Client, asks[c] = "set_excluded", result'[c] = "ok"
        PROVE  /\ excluded
               /\ exited \/ \E u \in Socket : thread'[u] = "check" /\ peer[u] = c /\ retval[u] = "ok"
    <3>1. CASE c = peer[s]
      BY <2>1, <2>2, <3>1
    <3>2. CASE c # peer[s]
      <4>1. result[c] = "ok"
        BY <2>1, <2>2, <3>2
      <4> QED
        BY <2>1, <2>2, <4>1
    <3> QED
      BY <3>1, <3>2
  <2>3. OwnRequests'
    BY <2>1
  <2>4. FlagSet'
    BY <2>1
  <2>5. FlagSeen'
    BY <2>1, <2>2
  <2> QED
    BY <2>3, <2>4, <2>5
<1>11. ASSUME NEW s \in Socket, write_failed(s) PROVE FlagKept'
  BY <1>11 DEF write_failed, At, continue_loop
<1>12. ASSUME NEW s \in Socket, check_after_set_excluded(s) PROVE FlagKept'
  BY <1>12 DEF check_after_set_excluded, At, continue_loop, Exit
<1>13. ASSUME NEW c \in Client, script_call_daemon(c) PROVE FlagKept'
  BY <1>13 DEF script_call_daemon
<1>14. ASSUME NEW c \in Client, call_daemon_write(c) PROVE FlagKept'
  BY <1>14 DEF call_daemon_write
<1>15. ASSUME NEW c \in Client, call_daemon_error(c) PROVE FlagKept'
  BY <1>15 DEF call_daemon_error
<1>16. ASSUME NEW c \in Client, ClientKilled(c) PROVE FlagKept'
  BY <1>16 DEF ClientKilled
<1>17. CASE script_terminate
  BY <1>17 DEF script_terminate
<1>18. CASE DaemonExit
  BY <1>18 DEF DaemonExit, Exit
<1>19. CASE UNCHANGED scvars
  BY <1>19 DEF scvars
<1> HIDE DEF FlagKept
<1> QED
  BY <1>1, <1>2, <1>3, <1>4, <1>5, <1>6, <1>7, <1>8, <1>9, <1>10, <1>11, <1>12, <1>13, <1>14, <1>15, <1>16, <1>17, <1>18, <1>19
  DEF ScriptNext, ServiceThread, CallDaemon

(* The queues of the sockets stay within what listen() was told. *)
Queued ==
    /\ \A s \in Socket : Len(backlog[s]) <= Listen
    /\ sent \in [Client -> 0 .. 2]
    /\ {excluded, sc_terminate, exited} \subseteq BOOLEAN

LEMMA QueuedStep ==
  ASSUME ScTypes, Queued, [ScriptNext]_scvars
  PROVE  Queued'
<1> USE ScriptAssumption DEF ScTypes, Serving, clientvars, servervars, daemonvars, Queued
<1>1. ASSUME NEW s \in Socket, select_timeout(s) PROVE Queued'
  BY <1>1 DEF select_timeout
<1>2. ASSUME NEW s \in Socket, accept(s) PROVE Queued'
  <2>1. /\ \A u \in Socket : u # s => backlog'[u] = backlog[u]
        /\ backlog[s] \in Seq(Client) /\ backlog[s] # <<>> /\ backlog'[s] = Tail(backlog[s])
    BY <1>2 DEF accept
  <2>2. Len(backlog'[s]) = Len(backlog[s]) - 1 /\ Len(backlog[s]) \in Nat
    BY <2>1
  <2>3. \A u \in Socket : Len(backlog'[u]) <= Listen
    BY <2>1, <2>2
  <2> QED
    BY <1>2, <2>3 DEF accept
<1>3. ASSUME NEW s \in Socket, read_head(s) PROVE Queued'
  BY <1>3 DEF read_head
<1>4. ASSUME NEW s \in Socket, read_body(s) PROVE Queued'
  BY <1>4 DEF read_body
<1>5. ASSUME NEW s \in Socket, read_timeout(s) PROVE Queued'
  BY <1>5 DEF read_timeout
<1>6. ASSUME NEW s \in Socket, do_master_or_disarm(s) PROVE Queued'
  BY <1>6 DEF do_master_or_disarm
<1>7. ASSUME NEW s \in Socket, do_statefile(s) PROVE Queued'
  <2>1. UNCHANGED <<backlog, sent, sc_terminate, exited>>
    BY <1>7 DEF do_statefile
  <2>2. excluded' \in BOOLEAN
    BY <1>7, Zenon DEF do_statefile
  <2> QED
    BY <2>1, <2>2
<1>8. ASSUME NEW s \in Socket, do_wait(s) PROVE Queued'
  BY <1>8 DEF do_wait
<1>9. ASSUME NEW s \in Socket, do_at_once(s) PROVE Queued'
  BY <1>9 DEF do_at_once
<1>10. ASSUME NEW s \in Socket, write_response(s) PROVE Queued'
  BY <1>10 DEF write_response
<1>11. ASSUME NEW s \in Socket, write_failed(s) PROVE Queued'
  BY <1>11 DEF write_failed
<1>12. ASSUME NEW s \in Socket, check_after_set_excluded(s) PROVE Queued'
  <2>1. UNCHANGED <<sent, sc_terminate, excluded>> /\ exited' \in BOOLEAN
    BY <1>12 DEF check_after_set_excluded, Exit
  <2>2. Len(<<>>) <= Listen
    OBVIOUS
  <2>3. \A u \in Socket : Len(backlog'[u]) <= Listen
    BY <1>12, <2>2 DEF check_after_set_excluded, Exit
  <2> QED
    BY <2>1, <2>3
<1>13. ASSUME NEW c \in Client, script_call_daemon(c) PROVE Queued'
  <2>1. CASE UNCHANGED backlog
    BY <1>13, <2>1 DEF script_call_daemon
  <2>2. CASE ~ UNCHANGED backlog
    <3>1. PICK q : Len(backlog[q]) < Listen /\ backlog' = [backlog EXCEPT ![q] = Append(@, c)]
      BY <1>13, <2>2 DEF script_call_daemon
    <3>2. q \in Socket
      BY <2>2, <3>1
    <3>3. /\ \A u \in Socket : u # q => backlog'[u] = backlog[u]
          /\ backlog[q] \in Seq(Client) /\ backlog'[q] = Append(backlog[q], c)
      BY <3>1, <3>2
    <3>4. Len(backlog'[q]) = Len(backlog[q]) + 1 /\ Len(backlog[q]) \in Nat
      BY <3>3
    <3>5. \A u \in Socket : Len(backlog'[u]) <= Listen
      BY <3>1, <3>3, <3>4
    <3> QED
      BY <1>13, <3>5 DEF script_call_daemon
  <2> QED
    BY <2>1, <2>2
<1>14. ASSUME NEW c \in Client, call_daemon_write(c) PROVE Queued'
  BY <1>14 DEF call_daemon_write
<1>15. ASSUME NEW c \in Client, call_daemon_error(c) PROVE Queued'
  BY <1>15 DEF call_daemon_error
<1>16. ASSUME NEW c \in Client, ClientKilled(c) PROVE Queued'
  BY <1>16 DEF ClientKilled
<1>17. CASE script_terminate
  BY <1>17 DEF script_terminate
<1>18. CASE DaemonExit
  BY <1>18 DEF DaemonExit, Exit
<1>19. CASE UNCHANGED scvars
  BY <1>19 DEF scvars
<1> HIDE DEF Queued
<1> QED
  BY <1>1, <1>2, <1>3, <1>4, <1>5, <1>6, <1>7, <1>8, <1>9, <1>10, <1>11, <1>12, <1>13, <1>14, <1>15, <1>16, <1>17, <1>18, <1>19
  DEF ScriptNext, ServiceThread, CallDaemon

(* The inductive invariant. *)
ScriptInv == ScTypes /\ Requested /\ FlagKept /\ Queued

LEMMA ScriptInvInit == ScriptInit => ScriptInv
<1> SUFFICES ASSUME ScriptInit PROVE ScriptInv
  OBVIOUS
<1>1. ScTypes
  BY DEF ScriptInit, ScTypes, Serving
<1>2. Requested
  BY DEF ScriptInit, Requested, Serving
<1>3. FlagKept
  BY DEF ScriptInit, FlagKept, OwnRequests, FlagSet, FlagSeen
<1>4. Queued
  <2>1. /\ \A s \in Socket : backlog[s] = <<>>
        /\ sent \in [Client -> 0 .. 2]
    BY DEF ScriptInit
  <2>2. {excluded, sc_terminate, exited} \subseteq BOOLEAN
    BY DEF ScriptInit
  <2>3. Len(<<>>) <= Listen
    BY ScriptAssumption
  <2>4. \A s \in Socket : Len(backlog[s]) <= Listen
    BY <2>1, <2>3
  <2> QED
    BY <2>1, <2>2, <2>4 DEF Queued
<1> QED
  BY <1>1, <1>2, <1>3, <1>4 DEF ScriptInv

LEMMA ScriptInvStep == ScriptInv /\ [ScriptNext]_scvars => ScriptInv'
  BY ScTypesStep, RequestedStep, FlagKeptStep, QueuedStep DEF ScriptInv

(* A script that was told its host is excluded can rely on it: for any     *)
(* number of clients, on any sockets, no request that was waiting behind   *)
(* takes the flag back before the daemon has ended.                        *)
THEOREM ExclusionHolds == ScriptSpec => []ExcludedHolds
<1>1. ScriptInv => ExcludedHolds
  BY DEF ScriptInv, FlagKept, FlagSeen, ExcludedHolds
<1> QED
  BY <1>1, ScriptInvInit, ScriptInvStep, PTL DEF ScriptSpec

-----------------------------------------------------------------------------
(* The Xapi monitor *)

(* Where xapi_restart() is under way. *)
InRestart == {"attempt", "wait", "doomed"}

(* How the code's counters follow the attempts that were really made: in a *)
(* restart they are the same; outside they are while the last success is   *)
(* less than a day old, and otherwise the code's will be cleared.          *)
CountsAgree ==
    /\ xmon \in InRestart => attempts = restart_count
    /\ xmon \in {"sleep", "forked", "check", "restart", "ended"} =>
          attempts = IF time_restarted = "today" THEN restart_count ELSE 0
    /\ xmon = "doomed" => restart_count = RestartXapi

(* Failed forks are counted only in a row, and never beyond the limit.     *)
ForksCounted ==
    /\ xmon = "sleep" => fork_errcnt <= XAPIMON_MAX_FORK_ERR_RETRY
    /\ xmon \in {"forked", "check", "restart"} \cup InRestart => fork_errcnt = 0

XmonInv ==
    /\ XmonTypeOK /\ CountsAgree /\ ForksCounted
    /\ RestartsBounded /\ FencedForCause /\ ObjectTruthful

(* The monitor starts in the invariant. *)
LEMMA XmonInitInv == XmonInit => XmonInv
  <1>1. XmonInit => ObjectTruthful
    BY Zenon DEF XmonInit, ObjectTruthful
  <1>2. XmonInit => CountsAgree /\ ForksCounted /\ RestartsBounded /\ FencedForCause
    BY XapiMonAssumption
    DEF XmonInit, CountsAgree, ForksCounted, InRestart, RestartsBounded, FencedForCause
  <1>3. XmonInit => XmonFlags
    BY Zenon DEF XmonInit, XmonFlags
  <1>4. XmonInit => XmonTypeOK
    BY <1>3, XapiMonAssumption DEF XmonInit, XmonTypeOK
  <1>5. QED
    BY <1>1, <1>2, <1>4 DEF XmonInv

(* Every step of the thread, of the SM and of the clock keeps it. *)
LEMMA XmonNextInv == XmonInv /\ [XmonNext]_xmonvars => XmonInv'
  <1> SUFFICES ASSUME XmonInv, [XmonNext]_xmonvars PROVE XmonInv'
    OBVIOUS
  <1> USE XapiMonAssumption
      DEF XmonInv, XmonTypeOK, CountsAgree, ForksCounted, InRestart, RestartsBounded, FencedForCause,
          ObjectTruthful, Lives, xobject, xcounts
  <1>1. CASE xapi_healthcheck_failed
    BY <1>1 DEF xapi_healthcheck_failed, self_fence_or, XmonFlags
  <1>2. CASE xapi_healthcheck
    BY <1>2 DEF xapi_healthcheck, XmonFlags
  <1>3. CASE healthcheck_start
    BY <1>3 DEF healthcheck_start, XmonFlags
  <1>4. CASE healthcheck_success
    <2>1. ObjectTruthful'
      BY <1>4, Zenon DEF healthcheck_success
    <2>2. XmonFlags'
      BY <1>4, Zenon DEF healthcheck_success, XmonFlags
    <2>3. QED
      BY <1>4, <2>1, <2>2 DEF healthcheck_success
  <1>5. CASE healthcheck_failure
    BY <1>5 DEF healthcheck_failure, XmonFlags
  <1>6. CASE xapi_restart
    BY <1>6 DEF xapi_restart, XmonFlags
  <1>7. CASE restart_xapi
    BY <1>7 DEF restart_xapi, XmonFlags
  <1>8. CASE wait_pid_success
    <2>1. ObjectTruthful'
      BY <1>8, Zenon DEF wait_pid_success
    <2>2. XmonFlags'
      BY <1>8, Zenon DEF wait_pid_success, XmonFlags
    <2>3. QED
      BY <1>8, <2>1, <2>2 DEF wait_pid_success
  <1>9. CASE wait_pid_failure
    BY <1>9 DEF wait_pid_failure, XmonFlags
  <1>10. CASE restarts_used_up
    BY <1>10 DEF restarts_used_up, XmonFlags
  <1>11. CASE xapi_failed
    BY <1>11 DEF xapi_failed, self_fence_or, XmonFlags
  <1>12. CASE start_xapi_monitor
    BY <1>12 DEF start_xapi_monitor, XmonFlags
  <1>13. CASE ArmOrDisarm
    BY <1>13 DEF ArmOrDisarm, XmonFlags
  <1>14. CASE StopMonitor
    BY <1>14 DEF StopMonitor, XmonFlags
  <1>15. CASE DayPasses
    BY <1>15 DEF DayPasses, XmonFlags
  <1>16. CASE UNCHANGED xmonvars
    BY <1>16 DEF xmonvars, XmonFlags
  <1>17. QED
    BY <1>1, <1>2, <1>3, <1>4, <1>5, <1>6, <1>7, <1>8, <1>9, <1>10, <1>11, <1>12, <1>13, <1>14,
       <1>15, <1>16
    DEF XmonNext, XapiThread

(* The inductive invariant of the monitor. *)
THEOREM XmonInvariant == XmonSpec => []XmonInv
  <1>1. QED
    BY XmonInitInv, XmonNextInv, PTL DEF XmonSpec

(* The monitor's variables keep their types: in particular the counters of *)
(* xapimon() and xapi_restart() never pass their limits.                   *)
THEOREM XmonTypeCorrect == XmonSpec => []XmonTypeOK
  <1>1. XmonInv => XmonTypeOK
    BY DEF XmonInv
  <1>2. QED
    BY <1>1, XmonInvariant, PTL

(* Xapi is restarted at most RestartXapi times before it has run for a     *)
(* day, for every value of RestartXapi.                                    *)
THEOREM RestartsAreBounded == XmonSpec => []RestartsBounded
  <1>1. XmonInv => RestartsBounded
    BY DEF XmonInv
  <1>2. QED
    BY <1>1, XmonInvariant, PTL

(* A host is fenced for Xapi's sake, or the daemon aborted, only after all *)
(* attempts or too many failed forks.                                      *)
THEOREM FencingHasCause == XmonSpec => []FencedForCause
  <1>1. XmonInv => FencedForCause
    BY DEF XmonInv
  <1>2. QED
    BY <1>1, XmonInvariant, PTL

(* The object other threads read tells of a check or a restart exactly     *)
(* while there is one.                                                     *)
THEOREM ObjectIsTruthful == XmonSpec => []ObjectTruthful
  <1>1. XmonInv => ObjectTruthful
    BY DEF XmonInv
  <1>2. QED
    BY <1>1, XmonInvariant, PTL

-----------------------------------------------------------------------------
(* ha_query_liveset *)

(* The media of which the answer under way has nothing yet. *)
Unasked ==
    IF qat = "hb" THEN Medium
    ELSE IF qat = "sf" THEN Medium \ {"hb"}
    ELSE IF qat = "xapi" THEN {"xapi"}
    ELSE {}

AnswerType ==
    [status : {"none", "STARTING", "ONLINE"}, live : SUBSET Hosts,
     sf_lost : BOOLEAN, sf_access : SUBSET Hosts,
     latency : [Medium -> 0..Late], approaching : SUBSET Medium, bond : BOOLEAN]

(* Between two queries the answer is empty. *)
AnswerOK ==
    /\ answer \in AnswerType
    /\ qat = "idle" => answer = NoAnswer

(* What was measured since the query took a medium's latency is still in   *)
(* its object, and a medium the query has yet to ask has nothing in the    *)
(* answer: what the reset takes from the object is always in the answer.   *)
TakenOnce ==
    /\ \A m \in Medium : since[m] <= latency_max[m]
    /\ \A m \in Unasked : answer.latency[m] = 0

(* A host ends its start only inside its liveset. *)
StartedIsLive == smobj.phase = "STARTED" => Me \in smobj.live

QueryInv ==
    QueryTypeOK /\ AnswerOK /\ TakenOnce /\ StartedIsLive /\ LatencyKept /\ OnlineIsLive

(* The empty answer has the type of an answer. *)
LEMMA NoAnswerOK == NoAnswer \in AnswerType
  BY QueryAssumption DEF NoAnswer, AnswerType

(* An answer with the latency of one more medium is still one. *)
LEMMA WithLatencyOK ==
    ASSUME QueryTypeOK, AnswerOK, NEW m \in Medium, NEW pointless \in BOOLEAN, NEW overdue \in BOOLEAN
    PROVE  WithLatency(m, pointless, overdue) \in AnswerType
  BY DEF QueryTypeOK, AnswerOK, AnswerType, WithLatency

(* The greater of two latencies is one, and not below either. *)
LEMMA GreaterIs ==
    ASSUME NEW a \in 0..Late, NEW b \in 0..Late
    PROVE  Greater(a, b) \in 0..Late /\ a <= Greater(a, b) /\ b <= Greater(a, b)
  BY QueryAssumption DEF Greater

(* Before the first query nothing is measured. *)
LEMMA QueryInitInv == QueryInit => QueryInv
  <1> SUFFICES ASSUME QueryInit PROVE QueryInv
    OBVIOUS
  <1> USE QueryAssumption DEF QueryInit
  <1>1. QueryTypeOK
    BY DEF QueryTypeOK, Medium
  <1>2. AnswerOK
    BY NoAnswerOK DEF AnswerOK
  <1>3. TakenOnce /\ StartedIsLive /\ OnlineIsLive
    BY DEF TakenOnce, Unasked, StartedIsLive, OnlineIsLive, NoAnswer
  <1>4. LatencyKept
    BY DEF LatencyKept, NoAnswer, Greater
  <1>5. QED
    BY <1>1, <1>2, <1>3, <1>4 DEF QueryInv

(* An object is asked: its latency moves into the answer, and leaves the   *)
(* object at most then.                                                    *)
LEMMA LatencyTaken ==
    ASSUME QueryInv, NEW m \in Unasked, NEW pointless \in BOOLEAN, NEW overdue \in BOOLEAN,
           NextPeriod(m), UNCHANGED unreported,
           answer'.latency = WithLatency(m, pointless, overdue).latency
    PROVE  /\ latency_max' \in [Medium -> 0..Late] /\ since' \in [Medium -> 0..Late]
           /\ \A k \in Medium : since'[k] <= latency_max'[k]
           /\ answer'.latency = [answer.latency EXCEPT ![m] = latency_max[m]]
           /\ LatencyKept'
  <1> USE QueryAssumption DEF QueryInv, QueryTypeOK, AnswerOK, AnswerType
  <1>0. m \in Medium /\ answer.latency[m] = 0
    BY DEF Unasked, Medium, TakenOnce
  <1>1. answer'.latency = [answer.latency EXCEPT ![m] = latency_max[m]]
    BY <1>0 DEF WithLatency
  <1>2. latency_max' \in [Medium -> 0..Late] /\ since' \in [Medium -> 0..Late]
    BY <1>0 DEF NextPeriod
  <1>3. \A k \in Medium : since'[k] <= latency_max'[k]
    BY <1>0 DEF NextPeriod, TakenOnce
  <1>4. ASSUME NEW k \in Medium
        PROVE  unreported[k] <= Greater(latency_max'[k], answer'.latency[k])
    <2>1. unreported[k] <= Greater(latency_max[k], answer.latency[k])
      BY DEF LatencyKept
    <2>2. CASE k = m
      BY <1>0, <1>1, <1>2, <2>1, <2>2 DEF Greater
    <2>3. CASE k # m
      <3>1. latency_max'[k] = latency_max[k] /\ answer'.latency[k] = answer.latency[k]
        BY <1>0, <1>1, <2>3 DEF NextPeriod
      <3>2. QED
        BY <2>1, <3>1
    <2>4. QED
      BY <2>2, <2>3
  <1>5. QED
    BY <1>1, <1>2, <1>3, <1>4 DEF LatencyKept

(* Every step of the daemon's threads and of the query keeps it. *)
LEMMA QueryNextInv == QueryInv /\ [QueryNext]_qvars => QueryInv'
  <1> SUFFICES ASSUME QueryInv, [QueryNext]_qvars PROVE QueryInv'
    OBVIOUS
  <1> USE QueryAssumption DEF QueryInv
  <1>1. CASE SmLiveset
    <2>1. PICK peers \in SUBSET Peers : smobj' = [smobj EXCEPT !.live = {Me} \cup peers]
      BY <1>1 DEF SmLiveset
    <2>2. QueryTypeOK' /\ StartedIsLive' /\ OnlineIsLive'
      BY <1>1, <2>1 DEF SmLiveset, QueryTypeOK, StartedIsLive, OnlineIsLive, Hosts
    <2>3. QED
      BY <1>1, <2>2 DEF SmLiveset, AnswerOK, TakenOnce, Unasked, LatencyKept
  <1>2. CASE SmPhase
    <2>1. QueryTypeOK' /\ StartedIsLive' /\ OnlineIsLive'
      BY <1>2 DEF SmPhase, QueryTypeOK, StartedIsLive, OnlineIsLive
    <2>2. QED
      BY <1>2, <2>1 DEF SmPhase, AnswerOK, TakenOnce, Unasked, LatencyKept
  <1>3. CASE Latency
    <2>1. PICK m \in Measured, d \in 1..Late :
             /\ latency_max' = [latency_max EXCEPT ![m] = Greater(@, d)]
             /\ unreported' = [unreported EXCEPT ![m] = Greater(@, d)]
             /\ since' = [since EXCEPT ![m] = Greater(@, d)]
      BY <1>3 DEF Latency
    <2>2. m \in Medium
      BY DEF Medium
    <2>0. ASSUME NEW f \in [Medium -> 0..Late]
          PROVE  [f EXCEPT ![m] = Greater(@, d)] \in [Medium -> 0..Late]
      <3>1. Greater(f[m], d) \in 0..Late
        BY <2>2 DEF Greater
      <3>2. QED
        BY <2>2, <3>1
    <2>3. QueryTypeOK'
      <3>1. {latency_max, unreported, since} \subseteq [Medium -> 0..Late]
        BY DEF QueryTypeOK
      <3>2. {latency_max', unreported', since'} \subseteq [Medium -> 0..Late]
        BY <2>0, <2>1, <3>1
      <3>3. QED
        BY <1>3, <3>2 DEF Latency, QueryTypeOK
    <2>4. TakenOnce'
      BY <1>3, <2>1, <2>2 DEF Latency, TakenOnce, Unasked, QueryTypeOK, Greater
    <2>5. LatencyKept'
      BY <1>3, <2>1, <2>2 DEF Latency, LatencyKept, AnswerOK, AnswerType, QueryTypeOK, Greater
    <2>6. QED
      BY <1>3, <2>3, <2>4, <2>5 DEF Latency, AnswerOK, StartedIsLive, OnlineIsLive
  <1>4. CASE bm
    BY <1>4 DEF bm, check_bonding_status, QueryTypeOK, AnswerOK, TakenOnce, Unasked,
                StartedIsLive, LatencyKept, OnlineIsLive
  <1>5. CASE query_sm
    <2>1. PICK SR2 \in BOOLEAN : answer' = [NoAnswer EXCEPT
             !.status = IF smobj.phase = "STARTING" THEN "STARTING" ELSE "ONLINE",
             !.live = smobj.live, !.sf_lost = SR2]
      BY <1>5 DEF query_sm
    <2>2. answer = NoAnswer
      BY <1>5 DEF query_sm, AnswerOK
    <2>3. answer'.latency = answer.latency /\ answer'.live = smobj.live
          /\ answer'.status = IF smobj.phase = "STARTING" THEN "STARTING" ELSE "ONLINE"
      BY <2>1, <2>2 DEF NoAnswer
    <2>4. AnswerOK'
      BY <1>5, <2>1, NoAnswerOK DEF query_sm, AnswerOK, AnswerType, QueryTypeOK
    <2>5. QueryTypeOK' /\ TakenOnce'
      BY <1>5, <2>2, <2>3 DEF query_sm, QueryTypeOK, TakenOnce, NoAnswer, Unasked
    <2>6. StartedIsLive' /\ OnlineIsLive'
      BY <1>5, <2>3 DEF query_sm, QueryTypeOK, StartedIsLive, OnlineIsLive
    <2>7. LatencyKept'
      BY <1>5, <2>3 DEF query_sm, LatencyKept
    <2>8. QED
      BY <2>4, <2>5, <2>6, <2>7
  <1>6. CASE query_hb
    <2>1. "hb" \in Unasked /\ "hb" \in Medium
      BY <1>6 DEF query_hb, Unasked, Medium
    <2>0. PICK overdue \in BOOLEAN : answer' = WithLatency("hb", FALSE, overdue)
      BY <1>6 DEF query_hb
    <2>2. answer'.latency = WithLatency("hb", FALSE, overdue).latency
          /\ NextPeriod("hb") /\ UNCHANGED unreported
      BY <1>6, <2>0 DEF query_hb
    <2>3. /\ latency_max' \in [Medium -> 0..Late] /\ since' \in [Medium -> 0..Late]
          /\ \A k \in Medium : since'[k] <= latency_max'[k]
          /\ answer'.latency = [answer.latency EXCEPT !["hb"] = latency_max["hb"]]
          /\ LatencyKept'
      BY <2>1, <2>2, LatencyTaken
    <2>4. AnswerOK'
      BY <1>6, <2>0, <2>1, WithLatencyOK DEF query_hb, AnswerOK
    <2>5. QueryTypeOK'
      BY <1>6, <2>3 DEF query_hb, QueryTypeOK
    <2>6. TakenOnce'
      <3>1. Unasked = Medium /\ Unasked' = Medium \ {"hb"}
        BY <1>6 DEF query_hb, Unasked
      <3>2. answer.latency \in [Medium -> 0..Late]
        BY DEF AnswerOK, AnswerType
      <3>3. \A m \in Unasked' : answer'.latency[m] = 0
        BY <2>3, <3>1, <3>2 DEF TakenOnce
      <3>4. QED
        BY <2>3, <3>3 DEF TakenOnce
    <2>7. StartedIsLive' /\ OnlineIsLive'
      BY <1>6 DEF query_hb, WithLatency, AnswerOK, AnswerType, StartedIsLive, OnlineIsLive
    <2>8. QED
      BY <2>3, <2>4, <2>5, <2>6, <2>7
  <1>7. CASE query_sf
    <2>0. PICK sfdomain \in SUBSET Hosts, overdue \in BOOLEAN :
             answer' = [WithLatency("sf", answer.sf_lost, overdue) EXCEPT
                          !.sf_access = IF answer.sf_lost THEN answer.live \cap sfdomain
                                                          ELSE answer.live]
      BY <1>7 DEF query_sf
    <2>1. "sf" \in Unasked /\ "sf" \in Medium /\ answer.sf_lost \in BOOLEAN
      BY <1>7 DEF query_sf, Unasked, Medium, AnswerOK, AnswerType
    <2>2. answer'.latency = WithLatency("sf", answer.sf_lost, overdue).latency
          /\ NextPeriod("sf") /\ UNCHANGED unreported
      BY <1>7, <2>0 DEF query_sf, WithLatency, AnswerOK, AnswerType
    <2>3. /\ latency_max' \in [Medium -> 0..Late] /\ since' \in [Medium -> 0..Late]
          /\ \A k \in Medium : since'[k] <= latency_max'[k]
          /\ answer'.latency = [answer.latency EXCEPT !["sf"] = latency_max["sf"]]
          /\ LatencyKept'
      BY <2>1, <2>2, LatencyTaken
    <2>4. AnswerOK'
      <3>1. (IF answer.sf_lost THEN answer.live \cap sfdomain ELSE answer.live) \in SUBSET Hosts
        BY DEF AnswerOK, AnswerType
      <3>2. QED
        BY <1>7, <2>0, <2>1, <3>1, WithLatencyOK DEF query_sf, AnswerOK, AnswerType
    <2>5. QueryTypeOK'
      BY <1>7, <2>3 DEF query_sf, QueryTypeOK
    <2>6. TakenOnce'
      BY <1>7, <2>1, <2>3 DEF query_sf, TakenOnce, Unasked, AnswerOK, AnswerType, Medium
    <2>7. StartedIsLive' /\ OnlineIsLive'
      BY <1>7, <2>0 DEF query_sf, WithLatency, AnswerOK, AnswerType, StartedIsLive, OnlineIsLive
    <2>8. QED
      BY <2>3, <2>4, <2>5, <2>6, <2>7
  <1>8. CASE query_xapimon
    <2>1. "xapi" \in Unasked /\ "xapi" \in Medium
      BY <1>8 DEF query_xapimon, Unasked, Medium
    <2>0. PICK overdue \in BOOLEAN : answer' = WithLatency("xapi", FALSE, overdue)
      BY <1>8 DEF query_xapimon
    <2>2. answer'.latency = WithLatency("xapi", FALSE, overdue).latency
          /\ NextPeriod("xapi") /\ UNCHANGED unreported
      BY <1>8, <2>0 DEF query_xapimon
    <2>3. /\ latency_max' \in [Medium -> 0..Late] /\ since' \in [Medium -> 0..Late]
          /\ \A k \in Medium : since'[k] <= latency_max'[k]
          /\ answer'.latency = [answer.latency EXCEPT !["xapi"] = latency_max["xapi"]]
          /\ LatencyKept'
      BY <2>1, <2>2, LatencyTaken
    <2>4. AnswerOK'
      BY <1>8, <2>0, <2>1, WithLatencyOK DEF query_xapimon, AnswerOK
    <2>5. QueryTypeOK'
      BY <1>8, <2>3 DEF query_xapimon, QueryTypeOK
    <2>6. TakenOnce'
      BY <1>8, <2>3 DEF query_xapimon, TakenOnce, Unasked
    <2>7. StartedIsLive' /\ OnlineIsLive'
      BY <1>8 DEF query_xapimon, WithLatency, AnswerOK, AnswerType, StartedIsLive, OnlineIsLive
    <2>8. QED
      BY <2>3, <2>4, <2>5, <2>6, <2>7
  <1>9. CASE query_bm
    <2>0. PICK down \in BOOLEAN : answer' = [answer EXCEPT !.bond = down]
      <3>1. CASE bond_status \in {"DEGRADED", "ERR"}
        <4>1. answer' = [answer EXCEPT !.bond = TRUE]
          BY <1>9, <3>1, Zenon DEF query_bm
        <4>2. QED
          BY <4>1, Zenon
      <3>2. CASE bond_status \notin {"DEGRADED", "ERR"}
        <4>0. (bond_status \in {"DEGRADED", "ERR"}) = FALSE
          BY <3>2
        <4>1. answer' = [answer EXCEPT !.bond = FALSE]
          BY <1>9, <4>0 DEF query_bm
        <4>2. QED
          BY <4>1, Zenon
      <3>3. QED
        BY <3>1, <3>2, Zenon
    <2>1. AnswerOK' /\ answer'.latency = answer.latency /\ answer'.live = answer.live
          /\ answer'.status = answer.status
      BY <1>9, <2>0 DEF query_bm, AnswerOK, AnswerType
    <2>2. QED
      BY <1>9, <2>1 DEF query_bm, QueryTypeOK, TakenOnce, Unasked, StartedIsLive, LatencyKept,
                        OnlineIsLive
  <1>10. CASE query_end
    <2>1. QueryTypeOK' /\ StartedIsLive' /\ OnlineIsLive'
      BY <1>10 DEF query_end, QueryTypeOK, AnswerOK, AnswerType, StartedIsLive, OnlineIsLive
    <2>2. QED
      BY <1>10, <2>1 DEF query_end, AnswerOK, TakenOnce, Unasked, LatencyKept
  <1>11. CASE query_answered
    <2>1. AnswerOK' /\ StartedIsLive' /\ OnlineIsLive'
      BY <1>11, NoAnswerOK DEF query_answered, AnswerOK, StartedIsLive, OnlineIsLive, NoAnswer
    <2>2. QueryTypeOK' /\ TakenOnce'
      BY <1>11 DEF query_answered, QueryTypeOK, TakenOnce, Unasked
    <2>3. LatencyKept'
      BY <1>11 DEF query_answered, LatencyKept, NoAnswer, Greater, QueryTypeOK, TakenOnce
    <2>4. QED
      BY <2>1, <2>2, <2>3
  <1>12. CASE UNCHANGED qvars
    BY <1>12 DEF qvars, QueryTypeOK, AnswerOK, TakenOnce, Unasked, StartedIsLive, LatencyKept,
                 OnlineIsLive
  <1>13. QED
    BY <1>1, <1>2, <1>3, <1>4, <1>5, <1>6, <1>7, <1>8, <1>9, <1>10, <1>11, <1>12 DEF QueryNext

(* The inductive invariant of the query. *)
THEOREM QueryInvariant == QuerySpec => []QueryInv
  <1>1. QED
    BY QueryInitInv, QueryNextInv, PTL DEF QuerySpec

(* The objects keep their types whatever the threads do between two locks  *)
(* of the query.                                                           *)
THEOREM QueryTypeCorrect == QuerySpec => []QueryTypeOK
  <1>1. QueryInv => QueryTypeOK
    BY DEF QueryInv
  <1>2. QED
    BY <1>1, QueryInvariant, PTL

(* No latency is lost between an object and the answer of                  *)
(* script_service_do_query_liveset(), for every number of media and hosts. *)
THEOREM NoLatencyLost == QuerySpec => []LatencyKept
  <1>1. QueryInv => LatencyKept
    BY DEF QueryInv
  <1>2. QED
    BY <1>1, QueryInvariant, PTL

(* A host whose answer says online shows itself in its liveset, although   *)
(* phase and liveset may change until the answer is written.               *)
THEOREM OnlineHostIsLive == QuerySpec => []OnlineIsLive
  <1>1. QueryInv => OnlineIsLive
    BY DEF QueryInv
  <1>2. QED
    BY <1>1, QueryInvariant, PTL
-----------------------------------------------------------------------------
(* The host *)

HostInv == ComInv /\ FenInv /\ XmonInv /\ WeightInv /\ ScriptInv /\ QueryInv

LEMMA HostInitially == HostInit => HostInv
  BY ComInitially, FenInvInit, XmonInitInv, WeightInvInit, ScriptInvInit, QueryInitInv
  DEF HostInit, HostInv

LEMMA HostStep == HostInv /\ [HostNext]_hostvars => HostInv'
<1> SUFFICES ASSUME HostInv, [HostNext]_hostvars PROVE HostInv'
  OBVIOUS
<1>1. [ComNext]_comvars
  BY DEF HostNext, hostvars, InCom, InFencing, InXapiMon, InWeights, InScript, InQuery
<1>2. [FenNext]_fenvars
  BY DEF HostNext, hostvars, InCom, InFencing, InXapiMon, InWeights, InScript, InQuery
<1>3. [XmonNext]_xmonvars
  BY DEF HostNext, hostvars, InCom, InFencing, InXapiMon, InWeights, InScript, InQuery
<1>4. [WeightNext]_wvars
  BY DEF HostNext, hostvars, InCom, InFencing, InXapiMon, InWeights, InScript, InQuery
<1>5. [ScriptNext]_scvars
  BY DEF HostNext, hostvars, InCom, InFencing, InXapiMon, InWeights, InScript, InQuery
<1>6. [QueryNext]_qvars
  BY DEF HostNext, hostvars, InCom, InFencing, InXapiMon, InWeights, InScript, InQuery
<1> QED
  BY <1>1, <1>2, <1>3, <1>4, <1>5, <1>6,
     ComStep, FenInvStep, XmonNextInv, WeightInvStep, ScriptInvStep, QueryNextInv
  DEF HostInv

(* The objects, threads, timers, counters, weights and sockets of the      *)
(* daemon keep their types, and no counter passes the limit its component  *)
(* sets: the weight table never outgrows MAX_HOST_WEIGHT_CLASS_NUM and no  *)
(* backlog the listen() of its socket.                                     *)
THEOREM HostTypeCorrect == HostSpec => []HostTypeOK
<1>1. HostInv => HostTypeOK
  <2> SUFFICES ASSUME HostInv PROVE HostTypeOK
    OBVIOUS
  <2>1. ComTypeOK /\ FenTypeOK /\ XmonTypeOK /\ QueryTypeOK
    BY DEF HostInv, ComInv, FenInv, XmonInv, QueryInv
  <2>2. WeightTypeOK
    <3>1. WTypes /\ Room /\ Numbers
      BY DEF HostInv, WeightInv
    <3>2. {wfile, weight_table, confirmed} \cup {wtable[a] : a \in Ctl \cup Loader} \subseteq WTables
      BY <3>1 DEF WTypes
    <3>3. \A table \in {wfile, weight_table} :
             Cardinality(Classes(table)) <= MAX_HOST_WEIGHT_CLASS_NUM
      BY <3>1 DEF Room, Fits
    <3> QED
      BY <3>1, <3>2, <3>3 DEF WTypes, Numbers, WeightTypeOK
  <2>3. ScriptTypeOK
    <3>1. ScTypes /\ Queued
      BY DEF HostInv, ScriptInv
    <3> QED
      BY <3>1 DEF ScTypes, Serving, Queued, ScriptTypeOK
  <2> QED
    BY <2>1, <2>2, <2>3 DEF HostTypeOK
<1> QED
  BY <1>1, HostInitially, HostStep, PTL DEF HostSpec
=============================================================================
