SPECIFICATION HostSpec
CONSTANTS
  Thread = {"main","terminate","update_hbdomain","send_hb","receive_hb","readsf","write_hostspecific","lock_mgr","process_join_request","surviving_by_SR2","start_fh","test_Survival_Rule","disarm_fencing","query_liveset","xapi_restart"}
  Nobody = "nobody"
  Main = "main"
  MaxActive = 2
  Object = {"SM", "HB", "SF", "XAPIMON", "BM"}
  Callback = {"sf_sf_updated","lm_sf_updated","lm_sm_updated","hb_hb_updated","sm_hb_updated","sm_sm_updated","sm_sf_updated"}
  Private = {"sfvar.lock","hbvar.lock","lmvar.mutex","smvar.mutex"}
  Program <- Paths
  PrivateOf <- CallbackLock
  Rank <- LockOrder
  THREAD_ID_RECORD_NUM = 2
  Timer = {w1, w2}
  NoTimer = NoTimer
  MaxFaults = 1
  RestartXapi = 2
  XAPIMON_MAX_FORK_ERR_RETRY = 2
  MaxDays = 2
  Class = {"c1", "c2"}
  Weight = {0, 1}
  Ctl = {"set1", "set2"}
  Unlocked = "unlocked"
  MAX_HOST_WEIGHT_CLASS_NUM = 1
  MaxWFaults = 1
  Client = {c1, c2}
  NoClient = NoClient
  Asked = {"propose_master", "set_excluded", "clear_excluded", "fist"}
  Socket = {"other", "internal"}
  Listen = 1
  Peers = {p1}
  Me = me
  Measured = {"hb"}
  Late = 1
INVARIANTS
  HostTypeOK
  UseAccounted
  ReadersUndisturbed
  NoRing
  NotResetAfterwards
  TimersRecorded
  RestartsBounded
  FencedForCause
  NoUpdateLost
  SetTakesEffect
  
  LatencyKept
PROPERTIES
  StopsEventually
  DeadXapiFenced
  EveryoneAnswered
CHECK_DEADLOCK FALSE
