------------------------------- MODULE Paths -------------------------------
(***************************************************************************)
(* The calls of com.c, and of the components' own locks, that the threads  *)
(* of the daemon make, in the order they make them: one program for each   *)
(* path through the code on which locks are nested or callbacks triggered. *)
(***************************************************************************)
EXTENDS Sequences

LOCAL Call(op, o) == [op |-> op, on |-> o]
LOCAL Reader(o) == Call("reader_lock", o)
LOCAL Writer(o) == Call("writer_lock", o)
LOCAL Unlock(o) == Call("unlock", o)
LOCAL Lock(l) == Call("lock", l)
LOCAL Release(l) == Call("release", l)
LOCAL Register(o, f) == [op |-> "register", on |-> o, func |-> f]

(* A writer's turn with nothing else inside, and a reader's. *)
LOCAL Write(o) == <<Writer(o), Unlock(o)>>
LOCAL Read(o) == <<Reader(o), Unlock(o)>>

-----------------------------------------------------------------------------
(* The component a callback belongs to, whose lock it takes. *)
CallbackLock ==
    [sf_sf_updated |-> "sfvar.lock", hb_hb_updated |-> "hbvar.lock",
     lm_sf_updated |-> "lmvar.mutex", lm_sm_updated |-> "lmvar.mutex",
     sm_hb_updated |-> "smvar.mutex", sm_sf_updated |-> "smvar.mutex",
     sm_sm_updated |-> "smvar.mutex"]

(* The order the objects are locked in.  BM is only locked alone. *)
LockOrder == [SM |-> 1, HB |-> 2, SF |-> 3, XAPIMON |-> 4, BM |-> 5]

(* Phase 0.  sf_initialize0 opens objects that others create later, ... *)
sf_initialize0 ==
    <<Call("create", "SF"), Call("open", "HB"), Call("open", "XAPIMON"), Call("open", "SM"),
      Register("SF", "sf_sf_updated")>>

lm_open_objects ==
    <<Call("open", "SF"), Register("SF", "lm_sf_updated"),
      Call("open", "SM"), Register("SM", "lm_sm_updated")>>

bm_create == <<Call("create", "BM")>>

(* ... so that a com_create finds one with callbacks and fills it in. *)
hb_open_objects == <<Call("create", "HB"), Register("HB", "hb_hb_updated")>>

xapimon_create == <<Call("create", "XAPIMON")>>

sm_open_objects ==
    <<Call("create", "SM"), Register("HB", "sm_hb_updated"),
      Register("SF", "sm_sf_updated"), Register("SM", "sm_sm_updated")>>

(* Phase -1, while the threads still run. *)
sm_terminate_path == Write("SM") \o Write("HB") \o Write("SF") \o Write("XAPIMON")

Phase0 ==
    sf_initialize0 \o lm_open_objects \o bm_create \o hb_open_objects \o xapimon_create
    \o sm_open_objects

-----------------------------------------------------------------------------
(* The heartbeat threads. *)
update_hbdomain_path == <<Reader("SM"), Writer("HB"), Unlock("HB"), Unlock("SM")>>

send_hb_path ==
    Read("HB") \o <<Lock("hbvar.lock"), Release("hbvar.lock"),
    Reader("SM"), Writer("HB"), Reader("SF"), Reader("XAPIMON"),
    Unlock("XAPIMON"), Unlock("SF"), Unlock("HB"), Unlock("SM")>>

receive_hb_path ==
    Read("HB") \o <<Lock("hbvar.lock"), Release("hbvar.lock")>> \o Read("SM")
    \o <<Lock("sfvar.lock"), Release("sfvar.lock"),
         Writer("SM"), Writer("HB"), Unlock("HB"), Unlock("SM")>>

(* The State-File thread. *)
readsf_path ==
    <<Reader("SM"), Writer("SF"), Lock("sfvar.lock"), Release("sfvar.lock"),
      Unlock("SF"), Unlock("SM")>>

write_hostspecific_path ==
    <<Reader("SM"), Reader("HB"), Writer("SF"), Reader("XAPIMON"),
      Unlock("XAPIMON"), Unlock("SF"), Unlock("HB"), Unlock("SM"),
      Writer("SF"), Lock("sfvar.lock"), Release("sfvar.lock"), Unlock("SF")>>

(* The lock manager's pass. *)
lock_mgr_path == <<Writer("SF"), Lock("lmvar.mutex"), Release("lmvar.mutex"), Unlock("SF")>>

(* The SM worker. *)
process_join_request_path ==
    <<Writer("SM"), Reader("HB"), Reader("SF"), Unlock("SF"), Unlock("HB"), Unlock("SM")>>

surviving_by_SR2_path ==
    <<Lock("sfvar.lock"), Release("sfvar.lock"), Reader("HB"), Reader("SF"),
      Unlock("SF"), Unlock("HB")>> \o Write("SM")

start_fh_path ==
    <<Reader("SM"), Writer("HB"), Writer("SF"), Unlock("SF"), Unlock("HB"), Unlock("SM"),
      Lock("smvar.mutex"), Release("smvar.mutex")>>

(* The SM thread. *)
test_Survival_Rule_path ==
    <<Writer("SM"), Writer("HB"), Writer("SF"), Unlock("SF"), Unlock("HB"), Unlock("SM")>>

(* The script service, which opens an object for every request. *)
disarm_fencing_path ==
    <<Call("open", "SM"), Call("open", "HB"), Call("open", "SF")>>
    \o Write("SM") \o Write("HB") \o Write("SF") \o Read("SM")
    \o <<Call("close", "SF"), Call("close", "HB"), Call("close", "SM")>>

query_liveset_path ==
    <<Call("open", "HB")>> \o Write("HB") \o <<Call("close", "HB"), Call("open", "BM")>>
    \o Read("BM") \o <<Call("close", "BM"), Call("open", "SM")>> \o Write("SM")
    \o <<Call("close", "SM")>>

xapi_restart_path == Write("XAPIMON")

-----------------------------------------------------------------------------
Paths ==
    [main |-> Phase0, terminate |-> sm_terminate_path,
     update_hbdomain |-> update_hbdomain_path, send_hb |-> send_hb_path, receive_hb |-> receive_hb_path,
     readsf |-> readsf_path, write_hostspecific |-> write_hostspecific_path, lock_mgr |-> lock_mgr_path,
     process_join_request |-> process_join_request_path, surviving_by_SR2 |-> surviving_by_SR2_path,
     start_fh |-> start_fh_path, test_Survival_Rule |-> test_Survival_Rule_path,
     disarm_fencing |-> disarm_fencing_path, query_liveset |-> query_liveset_path,
     xapi_restart |-> xapi_restart_path]

PathNames == DOMAIN Paths
=============================================================================
