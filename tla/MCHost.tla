------------------------------- MODULE MCHost -------------------------------
(***************************************************************************)
(* The components of one host's daemon, for TLC.  They meet only in what   *)
(* each module says of its surroundings, so a behaviour exercises one of   *)
(* them, chosen at the start, and leaves the others as they are.           *)
(***************************************************************************)
EXTENDS Com, Paths, Fencing, XapiMon, Weights, Script, Query

VARIABLE focus

hostvars == <<focus, comvars, fenvars, xmonvars, wvars, scvars, qvars>>

HostInit ==
    /\ focus \in {"Com", "Fencing", "XapiMon", "Weights", "Script", "Query"}
    /\ ComInit /\ FenInit /\ XmonInit /\ WeightInit /\ ScriptInit /\ QueryInit

InCom(A) ==
    focus = "Com" /\ A /\ UNCHANGED <<focus, fenvars, xmonvars, wvars, scvars, qvars>>
InFencing(A) ==
    focus = "Fencing" /\ A /\ UNCHANGED <<focus, comvars, xmonvars, wvars, scvars, qvars>>
InXapiMon(A) ==
    focus = "XapiMon" /\ A /\ UNCHANGED <<focus, comvars, fenvars, wvars, scvars, qvars>>
InWeights(A) ==
    focus = "Weights" /\ A /\ UNCHANGED <<focus, comvars, fenvars, xmonvars, scvars, qvars>>
InScript(A) ==
    focus = "Script" /\ A /\ UNCHANGED <<focus, comvars, fenvars, xmonvars, wvars, qvars>>
InQuery(A) ==
    focus = "Query" /\ A /\ UNCHANGED <<focus, comvars, fenvars, xmonvars, wvars, scvars>>

HostNext ==
    \/ InCom(ComNext) \/ InFencing(FenNext) \/ InXapiMon(XmonNext) \/ InWeights(WeightNext)
    \/ InScript(ScriptNext) \/ InQuery(QueryNext)

(* FenFairness, XmonFairness and ScriptFairness, each for the behaviours   *)
(* that exercise its component.                                            *)
HostFairness ==
    /\ WF_fenvars(InFencing(MainStep)) /\ WF_fenvars(InFencing(hb_receive))
    /\ WF_fenvars(InFencing(\E w \in Timer : timer[w] = "fence" /\ Expire(w)))
    /\ WF_xmonvars(InXapiMon(XapiThread))
    /\ \A s \in Socket : WF_scvars(InScript(ServiceThread(s)))
    /\ \A c \in Client : WF_scvars(InScript(call_daemon_error(c)))
    /\ WF_scvars(InScript(DaemonExit))

HostSpec == HostInit /\ [][HostNext]_hostvars /\ HostFairness

-----------------------------------------------------------------------------
(* The objects, threads, timers, counters and sockets of the daemon keep   *)
(* their types, and no counter passes the limit its component sets.        *)
HostTypeOK ==
    ComTypeOK /\ FenTypeOK /\ XmonTypeOK /\ WeightTypeOK /\ ScriptTypeOK /\ QueryTypeOK
=============================================================================
