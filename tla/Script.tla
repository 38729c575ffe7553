------------------------------- MODULE Script -------------------------------
(***************************************************************************)
(* The script service: calldaemon connects to one of three sockets of the  *)
(* daemon and sends a request; the thread of that socket reads, executes   *)
(* and answers one request after the other (sc_sv.c, sc_func.c).  A client *)
(* may be slow, or be killed; the service gives up on it after Wh.         *)
(***************************************************************************)
EXTENDS Naturals, Sequences, FiniteSets

CONSTANTS
    Client,       \* processes that run calldaemon, for one call each
    NoClient,
    Asked,        \* the requests they make
    Socket,       \* the sockets they use, of "other", "query" and "internal"
    Listen        \* pending connections a socket holds

Query == {"query_liveset", "hoststate"}
Other == {"propose_master", "disarm_fencing", "set_pool_state", "set_excluded", "clear_excluded",
          "cancel_master"}
Log == {"getlogmask", "setlogmask", "resetlogmask", "privatelog"}
Maintenance == {"fist", "dumpcom", "reload_host_weight"}
Internal == {"pid", "buildid"} \cup Log \cup Maintenance
StateFileTypes == {"set_pool_state", "set_excluded", "clear_excluded"}
Types == Query \cup Other \cup Internal

ASSUME ScriptAssumption ==
    /\ IsFiniteSet(Client) /\ NoClient \notin Client /\ Asked \subseteq Types \cup {"unknown"}
    /\ Socket \subseteq {"other", "query", "internal"} /\ Listen \in Nat \ {0}

VARIABLES
    backlog,      \* backlog[s]: clients waiting to be accepted
    thread,       \* thread[s]: where the thread of s is
    peer,         \* peer[s]: the client it serves
    retval,       \* retval[s]: of the request it executed
    conn,         \* conn[c]: "idle", "connected", "closed" by the daemon, "gone" or "done"
    asks,         \* asks[c]: the type of c's request
    sent,         \* sent[c]: 0, 1 (the head) or 2 (everything)
    result,       \* result[c]: "none", "ok", "refused" or "failed"
    excluded,     \* this host's excluded flag in the SF object
    sc_terminate, \* the flag of sc_sv.c
    exited        \* the daemon is gone

scvars == <<backlog, thread, peer, retval, conn, asks, sent, result, excluded, sc_terminate,
            exited>>
clientvars == <<conn, asks, sent, result>>
servervars == <<backlog, thread, peer, retval>>
daemonvars == <<excluded, sc_terminate, exited>>

ScriptInit ==
    /\ backlog = [s \in Socket |-> <<>>]
    /\ thread = [s \in Socket |-> "select"]
    /\ peer = [s \in Socket |-> NoClient]
    /\ retval = [s \in Socket |-> "none"]
    /\ conn = [c \in Client |-> "idle"]
    /\ asks = [c \in Client |-> "unknown"]
    /\ sent = [c \in Client |-> 0]
    /\ result = [c \in Client |-> "none"]
    /\ excluded = FALSE /\ sc_terminate = FALSE /\ exited = FALSE

-----------------------------------------------------------------------------
(* SCRIPT_SOCKET_TABLE, as the client uses it ... *)
calldaemon_socket_index(type) ==
    IF type \in Query THEN "query" ELSE IF type \in Internal THEN "internal" ELSE "other"

(* ... and as the service does. *)
type_to_socket_index(type) ==
    IF type \in Query THEN "query" ELSE IF type \in Internal THEN "internal" ELSE "other"

(* The thread of s has a function for the type. *)
type_to_func(type, s) == type_to_socket_index(type) = s

check_head_valid(type) == type \in Types

-----------------------------------------------------------------------------
(* The client: connect (it waits when the socket holds enough), ... *)
script_call_daemon(c) ==
    /\ conn[c] = "idle"
    /\ \E type \in Asked :
          /\ asks' = [asks EXCEPT ![c] = type]
          /\ LET s == calldaemon_socket_index(type)
             IN  IF exited
                 THEN /\ conn' = [conn EXCEPT ![c] = "done"]
                      /\ result' = [result EXCEPT ![c] = "failed"]
                      /\ UNCHANGED backlog
                 ELSE /\ Len(backlog[s]) < Listen
                      /\ conn' = [conn EXCEPT ![c] = "connected"]
                      /\ backlog' = [backlog EXCEPT ![s] = Append(@, c)]
                      /\ UNCHANGED result
    /\ UNCHANGED <<thread, peer, retval, sent, daemonvars>>

(* ... send the head, then the body, ... *)
call_daemon_write(c) ==
    /\ conn[c] = "connected" /\ ~ exited /\ sent[c] < 2
    /\ sent' = [sent EXCEPT ![c] = @ + 1]
    /\ UNCHANGED <<conn, asks, result, servervars, daemonvars>>

(* ... and fail if the other end is closed before there is an answer. *)
call_daemon_error(c) ==
    /\ conn[c] = "closed" \/ (conn[c] = "connected" /\ exited)
    /\ conn' = [conn EXCEPT ![c] = "done"]
    /\ result' = [result EXCEPT ![c] = IF @ = "none" THEN "failed" ELSE @]
    /\ UNCHANGED <<asks, sent, servervars, daemonvars>>

ClientKilled(c) ==
    /\ conn[c] = "connected"
    /\ conn' = [conn EXCEPT ![c] = "gone"]
    /\ UNCHANGED <<asks, sent, result, servervars, daemonvars>>

-----------------------------------------------------------------------------
(* script_service_thread.  The end of the loop, with the client's          *)
(* connection closed.                                                      *)
continue_loop(s, c) ==
    /\ thread' = [thread EXCEPT ![s] = IF sc_terminate THEN "ended" ELSE "select"]
    /\ peer' = [peer EXCEPT ![s] = NoClient]
    /\ retval' = [retval EXCEPT ![s] = "none"]
    /\ conn' = [conn EXCEPT ![c] = IF @ = "connected" THEN "closed" ELSE @]

At(s, where) == ~ exited /\ thread[s] = where

select_timeout(s) ==
    /\ At(s, "select") /\ sc_terminate /\ backlog[s] = <<>>
    /\ thread' = [thread EXCEPT ![s] = "ended"]
    /\ UNCHANGED <<backlog, peer, retval, clientvars, daemonvars>>

accept(s) ==
    /\ At(s, "select") /\ backlog[s] # <<>>
    /\ peer' = [peer EXCEPT ![s] = Head(backlog[s])]
    /\ backlog' = [backlog EXCEPT ![s] = Tail(@)]
    /\ thread' = [thread EXCEPT ![s] = "head"]
    /\ UNCHANGED <<retval, clientvars, daemonvars>>

read_head(s) ==
    /\ At(s, "head") /\ sent[peer[s]] > 0
    /\ IF check_head_valid(asks[peer[s]])
       THEN thread' = [thread EXCEPT ![s] = "body"] /\ UNCHANGED <<peer, retval, conn>>
       ELSE continue_loop(s, peer[s])
    /\ UNCHANGED <<backlog, asks, sent, result, daemonvars>>

read_body(s) ==
    /\ At(s, "body") /\ sent[peer[s]] = 2
    /\ IF type_to_func(asks[peer[s]], s)
       THEN thread' = [thread EXCEPT ![s] = "serve"] /\ UNCHANGED <<peer, retval, conn>>
       ELSE continue_loop(s, peer[s])
    /\ UNCHANGED <<backlog, asks, sent, result, daemonvars>>

(* Mutant: a client that is slow is waited for. *)
read_timeout_never(s) ==
    /\ \/ At(s, "head") /\ sent[peer[s]] = 0
       \/ At(s, "body") /\ sent[peer[s]] < 2
    /\ conn[peer[s]] = "gone"
    /\ continue_loop(s, peer[s])
    /\ UNCHANGED <<backlog, asks, sent, result, daemonvars>>

(* Nothing to read: the client was killed, or it is late by Wh. *)
read_timeout(s) ==
    /\ \/ At(s, "head") /\ sent[peer[s]] = 0
       \/ At(s, "body") /\ sent[peer[s]] < 2
    /\ continue_loop(s, peer[s])
    /\ UNCHANGED <<backlog, asks, sent, result, daemonvars>>

-----------------------------------------------------------------------------
(* The SM object's phase, and SF_access, are whatever the SM and the       *)
(* State-File thread made them when they are looked at.                    *)
get_hoststate == {"STARTING", "ONLINE"}
StateFileAccess == BOOLEAN

Answer(s, ret) ==
    /\ retval' = [retval EXCEPT ![s] = ret]
    /\ thread' = [thread EXCEPT ![s] = "write"]

(* The requests that only an online host takes; a proposal then waits for  *)
(* the lock manager, a request to disarm for the callbacks.                *)
do_master_or_disarm(s) ==
    /\ At(s, "serve") /\ asks[peer[s]] \in {"propose_master", "cancel_master", "disarm_fencing"}
    /\ \E state \in get_hoststate :
          IF state = "ONLINE"
          THEN thread' = [thread EXCEPT ![s] = "wait"] /\ UNCHANGED retval
          ELSE Answer(s, "refused")
    /\ UNCHANGED <<backlog, peer, clientvars, daemonvars>>

(* The requests that change the State-File, and wait until it was written. *)
do_statefile(s) ==
    /\ At(s, "serve") /\ asks[peer[s]] \in StateFileTypes
    /\ \E access \in StateFileAccess :
          IF access
          THEN /\ thread' = [thread EXCEPT ![s] = "wait"]
               /\ excluded' = IF asks[peer[s]] = "set_pool_state" THEN excluded
                              ELSE asks[peer[s]] = "set_excluded"
               /\ UNCHANGED retval
          ELSE Answer(s, "refused") /\ UNCHANGED excluded
    /\ UNCHANGED <<backlog, peer, clientvars, sc_terminate, exited>>

(* The wait for the disk may end with the loss of the State-File; then the *)
(* flag stays as it was set.                                               *)
do_wait(s) ==
    /\ At(s, "wait")
    /\ \E access \in StateFileAccess :
          Answer(s, IF access \/ asks[peer[s]] \notin StateFileTypes THEN "ok" ELSE "refused")
    /\ UNCHANGED <<backlog, peer, clientvars, daemonvars>>

(* The requests that are executed at once: what the daemon knows (module   *)
(* Query), who it is, its log, and maintenance, which may fail.            *)
do_at_once(s) ==
    /\ At(s, "serve") /\ asks[peer[s]] \in Query \cup Internal
    /\ \E ret \in IF asks[peer[s]] \in Maintenance THEN {"ok", "refused"} ELSE {"ok"} : Answer(s, ret)
    /\ UNCHANGED <<backlog, peer, clientvars, daemonvars>>

(* The answer reaches a client that is still there, ... *)
write_response(s) ==
    /\ At(s, "write") /\ conn[peer[s]] = "connected"
    /\ result' = [result EXCEPT ![peer[s]] = retval[s]]
    /\ conn' = [conn EXCEPT ![peer[s]] = "closed"]
    /\ thread' = [thread EXCEPT ![s] = "check"]
    /\ UNCHANGED <<backlog, peer, retval, asks, sent, daemonvars>>

(* ... and is dropped if it is not. *)
write_failed(s) ==
    /\ At(s, "write") /\ conn[peer[s]] # "connected"
    /\ continue_loop(s, peer[s])
    /\ UNCHANGED <<backlog, asks, sent, result, daemonvars>>

(* The process ends, and its threads and connections with it. *)
Exit ==
    /\ exited' = TRUE
    /\ backlog' = [s \in Socket |-> <<>>]
    /\ thread' = [s \in Socket |-> "ended"]
    /\ peer' = [s \in Socket |-> NoClient]
    /\ retval' = [s \in Socket |-> "none"]
    /\ UNCHANGED <<excluded, sc_terminate>>

(* Mutant: the daemon exits here only when it is to end anyway. *)
check_after_set_excluded_late(s) ==
    /\ At(s, "check")
    /\ IF asks[peer[s]] = "set_excluded" /\ retval[s] = "ok" /\ sc_terminate
       THEN Exit /\ UNCHANGED conn
       ELSE continue_loop(s, peer[s]) /\ UNCHANGED <<backlog, daemonvars>>
    /\ UNCHANGED <<asks, sent, result>>

(* script_service_check_after_set_excluded() *)
check_after_set_excluded(s) ==
    /\ At(s, "check")
    /\ IF asks[peer[s]] = "set_excluded" /\ retval[s] = "ok"
       THEN Exit /\ UNCHANGED conn
       ELSE continue_loop(s, peer[s]) /\ UNCHANGED <<backlog, daemonvars>>
    /\ UNCHANGED <<asks, sent, result>>

-----------------------------------------------------------------------------
(* The rest of the daemon. *)
script_terminate ==
    /\ ~ exited /\ ~ sc_terminate
    /\ sc_terminate' = TRUE
    /\ UNCHANGED <<servervars, clientvars, excluded, exited>>

(* main() is through with its own termination. *)
DaemonExit ==
    /\ ~ exited /\ sc_terminate
    /\ Exit
    /\ UNCHANGED clientvars

-----------------------------------------------------------------------------
ServiceThread(s) ==
    \/ select_timeout(s) \/ accept(s) \/ read_head(s) \/ read_body(s) \/ read_timeout(s)
    \/ do_master_or_disarm(s) \/ do_statefile(s) \/ do_wait(s) \/ do_at_once(s)
    \/ write_response(s) \/ write_failed(s) \/ check_after_set_excluded(s)

CallDaemon(c) ==
    script_call_daemon(c) \/ call_daemon_write(c) \/ call_daemon_error(c) \/ ClientKilled(c)

ScriptNext ==
    \/ \E s \in Socket : ServiceThread(s)
    \/ \E c \in Client : CallDaemon(c)
    \/ script_terminate \/ DaemonExit

(* The threads are scheduled, the lock manager and the State-File answer   *)
(* (LockMgr, StateFile), a daemon that was stopped exits (Fencing), and a  *)
(* client notices that a connection is closed.  Nothing else is said of    *)
(* the clients.                                                            *)
ScriptFairness ==
    /\ \A s \in Socket : WF_scvars(ServiceThread(s))
    /\ \A c \in Client : WF_scvars(call_daemon_error(c))
    /\ WF_scvars(DaemonExit)

ScriptSpec == ScriptInit /\ [][ScriptNext]_scvars /\ ScriptFairness

-----------------------------------------------------------------------------
(* The values of the connections and threads. *)
ScriptTypeOK ==
    /\ backlog \in [Socket -> Seq(Client)] /\ \A s \in Socket : Len(backlog[s]) <= Listen
    /\ thread \in [Socket -> {"select", "head", "body", "serve", "wait", "write", "check", "ended"}]
    /\ peer \in [Socket -> Client \cup {NoClient}]
    /\ retval \in [Socket -> {"none", "ok", "refused"}]
    /\ conn \in [Client -> {"idle", "connected", "closed", "gone", "done"}]
    /\ asks \in [Client -> Types \cup {"unknown"}] /\ sent \in [Client -> 0..2]
    /\ result \in [Client -> {"none", "ok", "refused", "failed"}]
    /\ {excluded, sc_terminate, exited} \subseteq BOOLEAN

(* A script that was told its host is excluded can rely on it: the flag is *)
(* not taken back by a request that waits behind, and the daemon exits     *)
(* before it executes another one that could.                              *)
ExcludedHolds ==
    \A c \in Client : asks[c] = "set_excluded" /\ result[c] = "ok" =>
        /\ excluded
        /\ exited \/ \E s \in Socket : thread[s] = "check" /\ peer[s] = c

(* Whoever has sent its request gets an answer, or learns that the daemon  *)
(* is gone, whatever other clients do or fail to do.                       *)
EveryoneAnswered ==
    \A c \in Client : sent[c] = 2 ~> (result[c] # "none" \/ conn[c] = "gone")
=============================================================================
