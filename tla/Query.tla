------------------------------- MODULE Query -------------------------------
(***************************************************************************)
(* ha_query_liveset: script_service_do_query_liveset() of sc_func.c puts   *)
(* its answer together from the SM, HB, SF, XAPIMON and BM object, locking *)
(* one after the other, while the threads they belong to go on.  It takes  *)
(* the greatest latency of each medium since the last answer with it, and  *)
(* starts the next period.                                                 *)
(***************************************************************************)
EXTENDS Naturals, FiniteSets

CONSTANTS
    Peers,    \* the other hosts
    Me,
    Measured, \* the media that are followed
    Late      \* a latency above half of the timeout; others are below

ASSUME QueryAssumption == IsFiniteSet(Peers) /\ Me \notin Peers /\ Late \in Nat \ {0}
                          /\ Measured \subseteq {"hb", "sf", "xapi"}

Hosts == {Me} \cup Peers
Medium == {"hb", "sf", "xapi"}

VARIABLES
    smobj,         \* phase and current_liveset of the SM object
    latency_max,   \* latency_max[m], 0 for none
    bond_status,   \* mtc_bond_status of the BM object
    qat,           \* the next object of the query
    answer,        \* what it has put together
    unreported,    \* unreported[m]: the greatest latency no script was told of
    since          \* since[m]: the greatest since this query took it

qvars == <<smobj, latency_max, bond_status, qat, answer, unreported, since>>

NoAnswer == [status |-> "none", live |-> {}, sf_lost |-> FALSE, sf_access |-> {},
             latency |-> [m \in Medium |-> 0], approaching |-> {}, bond |-> FALSE]

QueryInit ==
    /\ smobj = [phase |-> "STARTING", live |-> {}]
    /\ latency_max = [m \in Medium |-> 0]
    /\ bond_status = "NOERR"
    /\ qat = "idle" /\ answer = NoAnswer
    /\ unreported = [m \in Medium |-> 0] /\ since = [m \in Medium |-> 0]

Greater(a, b) == IF a > b THEN a ELSE b

-----------------------------------------------------------------------------
(* What the daemon's threads do to the objects, each under its lock.  The  *)
(* SM thread forms or joins a liveset, then ends its start, or aborts.     *)
SmLiveset ==
    /\ smobj.phase # "ABORTED"
    /\ \E peers \in SUBSET Peers : smobj' = [smobj EXCEPT !.live = {Me} \cup peers]
    /\ UNCHANGED <<bond_status, latency_max, qat, answer, unreported, since>>

SmPhase ==
    /\ smobj.phase = "STARTING"
    /\ \E p \in {"STARTED", "ABORTED"} :
          (p = "STARTED" => Me \in smobj.live) /\ smobj' = [smobj EXCEPT !.phase = p]
    /\ UNCHANGED <<bond_status, latency_max, qat, answer, unreported, since>>

(* A latency is measured: by hb_send, readsf or the health check. *)
Latency ==
    /\ \E m \in Measured, d \in 1..Late :
          /\ latency_max' = [latency_max EXCEPT ![m] = Greater(@, d)]
          /\ unreported' = [unreported EXCEPT ![m] = Greater(@, d)]
          /\ since' = [since EXCEPT ![m] = Greater(@, d)]
    /\ UNCHANGED <<bond_status, smobj, qat, answer>>

(* What /proc says of the bond and its interfaces that are down. *)
check_bonding_status(down) ==
    IF "bond" \in down THEN "ERR" ELSE IF down # {} THEN "DEGRADED" ELSE "NOERR"

(* The bond monitor looks every few seconds, and ends if there is no bond. *)
bm ==
    /\ bond_status # "NOBOND"
    /\ \/ bond_status' = "NOBOND"
       \/ \E down \in SUBSET {"bond", "slave"} : bond_status' = check_bonding_status(down)
    /\ UNCHANGED <<smobj, latency_max, qat, answer, unreported, since>>

-----------------------------------------------------------------------------
(* The query: the SM object, ... *)

query_sm ==
    /\ qat = "idle"
    /\ \E SR2 \in BOOLEAN : answer' = [NoAnswer EXCEPT
          !.status = IF smobj.phase = "STARTING" THEN "STARTING" ELSE "ONLINE",
          !.live = smobj.live, !.sf_lost = SR2]
    /\ qat' = "hb"
    /\ UNCHANGED <<bond_status, smobj, latency_max, unreported, since>>

(* The answer with the greatest latency of m, which a warning is about     *)
(* unless there is no point in it.  The warning is also given when a live  *)
(* host was last heard long ago, or a health check has begun long ago; ... *)
WithLatency(m, pointless, overdue) ==
    [answer EXCEPT !.latency[m] = latency_max[m],
        !.approaching = IF (latency_max[m] >= Late \/ overdue) /\ ~ pointless THEN @ \cup {m} ELSE @]

(* Mutant: the periods of all media start again. *)
NextPeriodAll(m) ==
    /\ latency_max' = [k \in Medium |-> IF answer.status = "ONLINE" THEN 0 ELSE latency_max[k]]
    /\ since' = [since EXCEPT ![m] = 0]

(* ... an answer of a host that is online starts the next period.          *)
NextPeriod(m) ==
    /\ latency_max' = [latency_max EXCEPT ![m] = IF answer.status = "ONLINE" THEN 0 ELSE @]
    /\ since' = [since EXCEPT ![m] = 0]

(* ... the HB object, ... *)
query_hb ==
    /\ qat = "hb" /\ qat' = "sf"
    /\ \E overdue \in BOOLEAN : answer' = WithLatency("hb", FALSE, overdue)
    /\ NextPeriod("hb")
    /\ UNCHANGED <<bond_status, smobj, unreported>>

(* ... the SF object: a live host has access, unless the liveset survives  *)
(* without the State-File; then those have it that say so, ...             *)
query_sf ==
    /\ qat = "sf" /\ qat' = "xapi"
    /\ \E sfdomain \in SUBSET Hosts, overdue \in BOOLEAN :
          answer' = [WithLatency("sf", answer.sf_lost, overdue) EXCEPT
                        !.sf_access = IF answer.sf_lost THEN answer.live \cap sfdomain ELSE answer.live]
    /\ NextPeriod("sf")
    /\ UNCHANGED <<bond_status, smobj, unreported>>

(* ... the XAPIMON object, ... *)
query_xapimon ==
    /\ qat = "xapi" /\ qat' = "bm"
    /\ \E overdue \in BOOLEAN : answer' = WithLatency("xapi", FALSE, overdue)
    /\ NextPeriod("xapi")
    /\ UNCHANGED <<bond_status, smobj, unreported>>

(* ... the BM object, ... *)
query_bm ==
    /\ qat = "bm" /\ qat' = "sm"
    /\ answer' = [answer EXCEPT !.bond = bond_status \in {"DEGRADED", "ERR"}]
    /\ UNCHANGED <<bond_status, smobj, latency_max, unreported, since>>

(* ... and again the SM object, to keep what was warned about; it only     *)
(* decides what the next query logs.                                       *)
query_end ==
    /\ qat = "sm" /\ qat' = "write"
    /\ UNCHANGED <<bond_status, smobj, latency_max, answer, unreported, since>>

(* The script has the answer.  (If it is gone, what was reset is lost.)    *)
query_answered ==
    /\ qat = "write" /\ qat' = "idle"
    /\ unreported' = since
    /\ answer' = NoAnswer
    /\ UNCHANGED <<bond_status, smobj, latency_max, since>>

-----------------------------------------------------------------------------
QueryNext ==
    \/ SmLiveset \/ SmPhase \/ Latency \/ bm
    \/ query_sm \/ query_hb \/ query_sf \/ query_xapimon \/ query_bm \/ query_end \/ query_answered

QuerySpec == QueryInit /\ [][QueryNext]_qvars

-----------------------------------------------------------------------------
(* The values of the objects and of the answer. *)
QueryTypeOK ==
    /\ smobj \in [phase : {"STARTING", "STARTED", "ABORTED"}, live : SUBSET Hosts]
    /\ {latency_max, unreported, since} \subseteq [Medium -> 0..Late]
    /\ bond_status \in {"NOERR", "DEGRADED", "ERR", "NOBOND"}
    /\ qat \in {"idle", "hb", "sf", "xapi", "bm", "sm", "write"}

(* No latency goes by unreported: it is still in its object, or in the     *)
(* answer that is being put together, whatever is measured meanwhile.      *)
LatencyKept ==
    \A m \in Medium : unreported[m] <= Greater(latency_max[m], answer.latency[m])

(* A host that says it is online is in the liveset it shows, although it   *)
(* joins and starts while the query is under way - unless it has aborted,  *)
(* which is shown as online too.                                           *)
OnlineIsLive ==
    answer.status = "ONLINE" /\ smobj.phase # "ABORTED" => Me \in answer.live
=============================================================================
