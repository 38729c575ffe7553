------------------------------ MODULE XapiMon ------------------------------
(***************************************************************************)
(* The Xapi monitor (xapi_mon.c): a thread that runs a health check every  *)
(* tXapi, restarts Xapi when it fails, at most RestartXapi times a day,    *)
(* and fences the host when that does not help.                            *)
(*                                                                         *)
(* Clocks are abstracted to what is compared: whether a day has passed     *)
(* since the last successful restart, and whether a child is late.         *)
(***************************************************************************)
EXTENDS Naturals

CONSTANTS
    RestartXapi,                 \* _RestartXapi: attempts
    XAPIMON_MAX_FORK_ERR_RETRY,
    MaxDays                      \* bound: days that pass

ASSUME XapiMonAssumption ==
    RestartXapi \in Nat /\ XAPIMON_MAX_FORK_ERR_RETRY \in Nat /\ MaxDays \in Nat

VARIABLES
    xmon,              \* where the thread is
    monitor_enabled,   \* ctl.enable_Xapi_monitor
    xarmed,            \* smvar.fencing = FENCING_ARMED
    checking,          \* time_healthcheck_start >= 0
    restarting,        \* time_Xapi_restart >= 0
    err_string,        \* whether the object holds an error of Xapi
    fork_errcnt,
    restart_count,
    time_restarted,    \* "never", "today" or "earlier"
    attempts,          \* attempts to restart since Xapi last ran for a day (not in the code)
    days

xmonvars == <<xmon, monitor_enabled, xarmed, checking, restarting, err_string, fork_errcnt,
              restart_count, time_restarted, attempts, days>>
xobject == <<checking, restarting, err_string>>
xcounts == <<fork_errcnt, restart_count, time_restarted, attempts, days>>

XmonInit ==
    /\ xmon = "sleep"
    /\ monitor_enabled = FALSE /\ xarmed = FALSE
    /\ checking = FALSE /\ restarting = FALSE /\ err_string = FALSE
    /\ fork_errcnt = 0 /\ restart_count = 0 /\ time_restarted = "never"
    /\ attempts = 0 /\ days = 0

Lives == xmon \notin {"fenced", "asserted"}

-----------------------------------------------------------------------------
(* The SM: the monitor is enabled, then fencing armed; a script or the end *)
(* of the daemon disarms it, and sm_abort() and the end disable it.        *)
start_xapi_monitor ==
    /\ Lives /\ ~ monitor_enabled
    /\ monitor_enabled' = TRUE
    /\ UNCHANGED <<xmon, xarmed, xobject, xcounts>>

ArmOrDisarm ==
    /\ Lives /\ monitor_enabled
    /\ xarmed' = ~ xarmed
    /\ UNCHANGED <<xmon, monitor_enabled, xobject, xcounts>>

StopMonitor ==
    /\ Lives /\ monitor_enabled
    /\ monitor_enabled' = FALSE /\ xarmed' = FALSE
    /\ UNCHANGED <<xmon, xobject, xcounts>>

(* A day has passed since the last successful restart. *)
DayPasses ==
    /\ Lives /\ time_restarted = "today" /\ days < MaxDays
    /\ time_restarted' = "earlier" /\ days' = days + 1
    /\ attempts' = IF restarting THEN attempts ELSE 0
    /\ UNCHANGED <<xmon, monitor_enabled, xarmed, xobject, fork_errcnt, restart_count>>

-----------------------------------------------------------------------------
self_fence_or(other) == xmon' = IF xarmed THEN "fenced" ELSE other

(* xapi_healthcheck() cannot make its pipe or its child.  When the limit   *)
(* is passed and self_fence() returns, the thread ends.                    *)
xapi_healthcheck_failed ==
    /\ xmon = "sleep" /\ monitor_enabled
    /\ fork_errcnt' = fork_errcnt + 1
    /\ IF fork_errcnt' > XAPIMON_MAX_FORK_ERR_RETRY THEN self_fence_or("ended") ELSE UNCHANGED xmon
    /\ UNCHANGED <<monitor_enabled, xarmed, xobject, restart_count, time_restarted, attempts, days>>

xapi_healthcheck ==
    /\ xmon = "sleep" /\ monitor_enabled
    /\ fork_errcnt' = 0
    /\ xmon' = "forked"
    /\ UNCHANGED <<monitor_enabled, xarmed, xobject, restart_count, time_restarted, attempts, days>>

healthcheck_start ==
    /\ xmon = "forked"
    /\ checking' = TRUE /\ xmon' = "check"
    /\ UNCHANGED <<monitor_enabled, xarmed, restarting, err_string, xcounts>>

(* The checker ends with success within TXapi, ... *)
healthcheck_success ==
    /\ xmon = "check"
    /\ checking' = FALSE /\ err_string' = FALSE /\ xmon' = "sleep"
    /\ UNCHANGED <<monitor_enabled, xarmed, restarting, xcounts>>

(* Mutant: a failed check is only noted. *)
healthcheck_failure_noted ==
    /\ xmon = "check"
    /\ checking' = FALSE /\ err_string' = TRUE /\ xmon' = "sleep"
    /\ UNCHANGED <<monitor_enabled, xarmed, restarting, xcounts>>

(* ... or with an error, or it is late and killed. *)
healthcheck_failure ==
    /\ xmon = "check"
    /\ checking' = FALSE /\ err_string' \in BOOLEAN /\ xmon' = "restart"
    /\ UNCHANGED <<monitor_enabled, xarmed, restarting, xcounts>>

(* Mutant: the count starts again at every restart. *)
xapi_restart_fresh ==
    /\ xmon = "restart"
    /\ restarting' = TRUE
    /\ restart_count' = 0
    /\ xmon' = "attempt"
    /\ UNCHANGED <<monitor_enabled, xarmed, checking, err_string, fork_errcnt, time_restarted, attempts, days>>

(* xapi_restart() *)
xapi_restart ==
    /\ xmon = "restart"
    /\ restarting' = TRUE
    /\ restart_count' = IF time_restarted \in {"never", "earlier"} THEN 0 ELSE restart_count
    /\ xmon' = "attempt"
    /\ UNCHANGED <<monitor_enabled, xarmed, checking, err_string, fork_errcnt, time_restarted, attempts, days>>

(* Mutant: one attempt too many. *)
restart_xapi_more ==
    /\ xmon = "attempt" /\ restart_count <= RestartXapi
    /\ restart_count' = restart_count + 1 /\ attempts' = attempts + 1
    /\ xmon' \in {"wait", "attempt"}
    /\ UNCHANGED <<monitor_enabled, xarmed, xobject, fork_errcnt, time_restarted, days>>

(* An attempt: restart_xapi() forks, or fails to and is tried again. *)
restart_xapi ==
    /\ xmon = "attempt" /\ restart_count < RestartXapi
    /\ restart_count' = restart_count + 1 /\ attempts' = attempts + 1
    /\ xmon' \in {"wait", "attempt"}
    /\ UNCHANGED <<monitor_enabled, xarmed, xobject, fork_errcnt, time_restarted, days>>

(* wait_pid_timeout(): the restarter ended with success, ... *)
wait_pid_success ==
    /\ xmon = "wait"
    /\ restarting' = FALSE
    /\ time_restarted' = "today"
    /\ xmon' = "sleep"
    /\ UNCHANGED <<monitor_enabled, xarmed, checking, err_string, fork_errcnt, restart_count, attempts, days>>

(* ... with an error, or it is late and killed. *)
wait_pid_failure ==
    /\ xmon = "wait"
    /\ xmon' = "attempt"
    /\ UNCHANGED <<monitor_enabled, xarmed, xobject, xcounts>>

(* Mutant: the last attempt is not made. *)
restarts_used_up_early ==
    /\ xmon = "attempt" /\ restart_count + 1 >= RestartXapi
    /\ xmon' = "doomed"
    /\ UNCHANGED <<monitor_enabled, xarmed, xobject, xcounts>>

(* No attempt is left: the other hosts are given 2 t1 to hear of it, ... *)
restarts_used_up ==
    /\ xmon = "attempt" /\ restart_count >= RestartXapi
    /\ xmon' = "doomed"
    /\ UNCHANGED <<monitor_enabled, xarmed, xobject, xcounts>>

(* ... then the host is fenced; if fencing is not armed the daemon aborts. *)
xapi_failed ==
    /\ xmon = "doomed"
    /\ self_fence_or("asserted")
    /\ UNCHANGED <<monitor_enabled, xarmed, xobject, xcounts>>

-----------------------------------------------------------------------------
XapiThread ==
    \/ xapi_healthcheck_failed \/ xapi_healthcheck \/ healthcheck_start
    \/ healthcheck_success \/ healthcheck_failure
    \/ xapi_restart \/ restart_xapi \/ wait_pid_success \/ wait_pid_failure
    \/ restarts_used_up \/ xapi_failed

XmonNext == XapiThread \/ start_xapi_monitor \/ ArmOrDisarm \/ StopMonitor \/ DayPasses

(* The thread runs at real-time priority, and its waits are all bounded. *)
XmonFairness == WF_xmonvars(XapiThread)

XmonSpec == XmonInit /\ [][XmonNext]_xmonvars /\ XmonFairness

-----------------------------------------------------------------------------
XmonFlags ==
    /\ monitor_enabled \in BOOLEAN /\ xarmed \in BOOLEAN
    /\ checking \in BOOLEAN /\ restarting \in BOOLEAN /\ err_string \in BOOLEAN

(* The values of the monitor's state. *)
XmonTypeOK ==
    /\ xmon \in {"sleep", "forked", "check", "restart", "attempt", "wait", "doomed", "fenced",
                 "asserted", "ended"}
    /\ XmonFlags
    /\ fork_errcnt \in 0..XAPIMON_MAX_FORK_ERR_RETRY + 1
    /\ restart_count \in 0..RestartXapi
    /\ time_restarted \in {"never", "today", "earlier"}
    /\ attempts \in Nat /\ days \in 0..MaxDays

(* Xapi is not restarted more often than configured before it has once run *)
(* for a day, however the failures are spread over several health checks.  *)
RestartsBounded == attempts <= RestartXapi

(* The host is fenced, or the daemon aborted, for Xapi's sake only when    *)
(* every attempt was used or no checker could be started six times running.*)
FencedForCause ==
    /\ xmon \in {"fenced", "asserted"} =>
          attempts = RestartXapi \/ fork_errcnt = XAPIMON_MAX_FORK_ERR_RETRY + 1
    /\ xmon = "ended" => fork_errcnt = XAPIMON_MAX_FORK_ERR_RETRY + 1

(* What the object tells the heartbeat and ha_query_liveset about a        *)
(* running check or restart is true, and nothing is left over from an      *)
(* earlier one.                                                            *)
ObjectTruthful ==
    /\ checking <=> xmon = "check"
    /\ restarting <=>
          \/ xmon \in {"attempt", "wait", "doomed"}
          \/ xmon \in {"fenced", "asserted"} /\ fork_errcnt = 0

(* A Xapi that never gets well ends with a fenced host while the monitor   *)
(* is enabled and fencing armed: the monitor does not restart it for ever. *)
DeadXapiFenced ==
    <>[](monitor_enabled /\ xarmed) /\ <>[][~ healthcheck_success]_xmonvars
        => <>(xmon \in {"fenced", "asserted", "ended"})
=============================================================================
