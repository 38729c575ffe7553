------------------------------ MODULE Weights ------------------------------
(***************************************************************************)
(* The host weights: ha_set_host_weight runs weightctl, which rewrites the *)
(* weight file under lockf(), and then asks the daemon to load it          *)
(* (weightctl.c, weightio.c, hostweight.c).  The lock belongs to a         *)
(* process: two threads of the daemon do not exclude each other, and the   *)
(* first to close the file drops the lock of both.                         *)
(*                                                                         *)
(* The file and the tables are functions from classes to weights, where 0  *)
(* stands for a class that is not there.                                   *)
(***************************************************************************)
EXTENDS Naturals, FiniteSets, FiniteSetsExt

CONSTANTS
    Class,       \* names of classes
    Weight,      \* weights somebody may set, 0 to remove a class
    Ctl,         \* runs of ha_set_host_weight
    Unlocked,    \* no process
    MAX_HOST_WEIGHT_CLASS_NUM,
    MaxWFaults   \* bound: failed writes and killed processes

ASSUME WeightsAssumption ==
    /\ IsFiniteSet(Class) /\ Weight \subseteq Nat /\ Unlocked \notin Ctl \cup {"daemon"}
    /\ Ctl \cap {"daemon", "main", "service"} = {}
    /\ MAX_HOST_WEIGHT_CLASS_NUM \in Nat \ {0} /\ MaxWFaults \in Nat

BUILTIN_HOST_WEIGHT_VALUE == 1

Loader == {"main", "service"}   \* the threads of the daemon that load the file

VARIABLES
    wfile, wlock,        \* the file, and the process that has it locked
    wpc,                 \* where each run and each loader is
    wtable,              \* wtable[a]: what a has read and is working on
    wanted,              \* wanted[c]: the class and the weight run c sets
    weight_table,        \* the daemon's table
    sm_weight, commited_weight,   \* in the SM object
    calculated,          \* calculated[t]: by calc_hostweight, not yet in the SM object
    confirmed,           \* the file as the successful runs left it
    overlapped,          \* two threads of the daemon were at it together
    wfaults

wvars == <<wfile, wlock, wpc, wtable, wanted, weight_table, sm_weight, commited_weight,
           calculated, confirmed, overlapped, wfaults>>
smweights == <<weight_table, sm_weight, commited_weight, calculated>>

None == [c \in Class |-> 0]
Classes(table) == {c \in Class : table[c] # 0}

ProcessOf(a) == IF a \in Loader THEN "daemon" ELSE a

WeightInit ==
    /\ wfile = None /\ wlock = Unlocked /\ confirmed = None
    /\ wpc = [a \in Ctl \cup Loader |-> IF a = "service" THEN "down" ELSE "idle"]
    /\ wtable = [a \in Ctl \cup Loader |-> None]
    /\ wanted = [c \in Ctl |-> <<>>]
    /\ weight_table = None /\ sm_weight = 0 /\ commited_weight = 0
    /\ calculated = [t \in Loader |-> 0]
    /\ overlapped = FALSE /\ wfaults = 0

-----------------------------------------------------------------------------
(* weightio.c *)

(* Mutant: the file is opened without locking it. *)
open_hostweight_unlocked(a) == UNCHANGED wlock

(* open_hostweight_file(): lockf() waits for other processes. *)
open_hostweight_file(a) ==
    /\ wlock \in {Unlocked, ProcessOf(a)}
    /\ wlock' = ProcessOf(a)

read_hostweight_file(a) == wtable' = [wtable EXCEPT ![a] = wfile]

(* close() drops the lock of the whole process. *)
CloseFile(a) == wlock' = IF wlock = ProcessOf(a) THEN Unlocked ELSE wlock

(* set_hostweight_table(), with TRUE if there is room. *)
set_hostweight_table(table, c, w) ==
    [ok    |-> table[c] # 0 \/ w = 0 \/ Cardinality(Classes(table)) < MAX_HOST_WEIGHT_CLASS_NUM,
     table |-> [table EXCEPT ![c] = w]]

-----------------------------------------------------------------------------
(* weight_set() of weightctl: open and read, ... *)
weight_set(c) ==
    /\ wpc[c] = "idle"
    /\ open_hostweight_file(c) /\ read_hostweight_file(c)
    /\ \E k \in Class, w \in Weight : wanted' = [wanted EXCEPT ![c] = <<k, w>>]
    /\ wpc' = [wpc EXCEPT ![c] = "set"]
    /\ UNCHANGED <<wfile, smweights, confirmed, overlapped, wfaults>>

(* ... then change the table, and truncate the file, or give up when the   *)
(* table is full.                                                          *)
weight_set_table(c) ==
    /\ wpc[c] = "set"
    /\ LET res == set_hostweight_table(wtable[c], wanted[c][1], wanted[c][2])
       IN  IF res.ok
           THEN /\ wtable' = [wtable EXCEPT ![c] = res.table]
                /\ wfile' = None
                /\ wpc' = [wpc EXCEPT ![c] = "write"]
                /\ UNCHANGED wlock
           ELSE /\ CloseFile(c)
                /\ wpc' = [wpc EXCEPT ![c] = "failed"]
                /\ UNCHANGED <<wtable, wfile>>
    /\ UNCHANGED <<wanted, smweights, confirmed, overlapped, wfaults>>

(* write_hostweight_file() puts one class after the other. *)
write_hostweight_file(c) ==
    /\ wpc[c] = "write"
    /\ \E k \in Classes(wtable[c]) \ Classes(wfile) : wfile' = [wfile EXCEPT ![k] = wtable[c][k]]
    /\ UNCHANGED <<wlock, wpc, wtable, wanted, smweights, confirmed, overlapped, wfaults>>

weight_set_end(c) ==
    /\ wpc[c] = "write" /\ Classes(wtable[c]) \subseteq Classes(wfile)
    /\ CloseFile(c)
    /\ confirmed' = [confirmed EXCEPT ![wanted[c][1]] = wanted[c][2]]
    /\ wpc' = [wpc EXCEPT ![c] = "ask"]
    /\ UNCHANGED <<wfile, wtable, wanted, smweights, overlapped, wfaults>>

(* A write fails, or the process is killed: what was written stays.        *)
WriterDies(c) ==
    /\ wpc[c] \in {"set", "write"} /\ wfaults < MaxWFaults
    /\ CloseFile(c)
    /\ wpc' = [wpc EXCEPT ![c] = "failed"]
    /\ wfaults' = wfaults + 1
    /\ UNCHANGED <<wfile, wtable, wanted, smweights, confirmed, overlapped>>

(* The script asks the daemon to load the file; one that does not listen   *)
(* yet will load it when it starts.                                        *)
reload_host_weight(c) ==
    /\ wpc[c] = "ask"
    /\ \/ /\ wpc["service"] = "down"
          /\ wpc' = [wpc EXCEPT ![c] = "done"]
       \/ /\ wpc["service"] = "idle"
          /\ wpc' = [wpc EXCEPT ![c] = "asked", !["service"] = "open"]
    /\ UNCHANGED <<wfile, wlock, wtable, wanted, smweights, confirmed, overlapped, wfaults>>

(* ... and gets its answer. *)
reload_host_weight_answer(c) ==
    /\ wpc[c] = "asked" /\ wpc["service"] = "loaded"
    /\ wpc' = [wpc EXCEPT ![c] = "done", !["service"] = "idle"]
    /\ UNCHANGED <<wfile, wlock, wtable, wanted, smweights, confirmed, overlapped, wfaults>>

-----------------------------------------------------------------------------
(* The daemon.  The script service is started before hostweight_initialize *)
(* loads the file for the first time.                                      *)
service_start ==
    /\ wpc["service"] = "down"
    /\ wpc' = [wpc EXCEPT !["service"] = "idle", !["main"] = "open"]
    /\ UNCHANGED <<wfile, wlock, wtable, wanted, smweights, confirmed, overlapped, wfaults>>

Loading(t) == wpc[t] \in {"open", "update", "calc", "set_sm", "close"}

(* hostweight_reload(): open and read, ... *)
hostweight_reload(t) ==
    /\ wpc[t] = "open"
    /\ open_hostweight_file(t) /\ read_hostweight_file(t)
    /\ wpc' = [wpc EXCEPT ![t] = "update"]
    /\ overlapped' = (overlapped \/ \A u \in Loader : Loading(u))
    /\ UNCHANGED <<wfile, wanted, smweights, confirmed, wfaults>>

hostweight_update(t) ==
    /\ wpc[t] = "update"
    /\ weight_table' = wtable[t]
    /\ wpc' = [wpc EXCEPT ![t] = "calc"]
    /\ UNCHANGED <<wfile, wlock, wtable, wanted, sm_weight, commited_weight, calculated,
                   confirmed, overlapped, wfaults>>

TotalWeight(table) == BUILTIN_HOST_WEIGHT_VALUE + MapThenSumSet(LAMBDA c : table[c], Class)

calc_hostweight(t) ==
    /\ wpc[t] = "calc"
    /\ calculated' = [calculated EXCEPT ![t] = TotalWeight(weight_table)]
    /\ wpc' = [wpc EXCEPT ![t] = "set_sm"]
    /\ UNCHANGED <<wfile, wlock, wtable, wanted, weight_table, sm_weight, commited_weight,
                   confirmed, overlapped, wfaults>>

(* Mutant: the SM object is only told when a class was added. *)
hostweight_set_sm_more(t) ==
    /\ wpc[t] = "set_sm"
    /\ sm_weight' = IF calculated[t] > sm_weight THEN calculated[t] ELSE sm_weight
    /\ wpc' = [wpc EXCEPT ![t] = "close"]
    /\ UNCHANGED <<wfile, wlock, wtable, wanted, weight_table, commited_weight, calculated,
                   confirmed, overlapped, wfaults>>

hostweight_set_sm(t) ==
    /\ wpc[t] = "set_sm"
    /\ sm_weight' = calculated[t]
    /\ wpc' = [wpc EXCEPT ![t] = "close"]
    /\ UNCHANGED <<wfile, wlock, wtable, wanted, weight_table, commited_weight, calculated,
                   confirmed, overlapped, wfaults>>

(* ... and close. *)
hostweight_close(t) ==
    /\ wpc[t] = "close"
    /\ CloseFile(t)
    /\ wpc' = [wpc EXCEPT ![t] = "loaded"]
    /\ UNCHANGED <<wfile, wtable, wanted, smweights, confirmed, overlapped, wfaults>>

(* The SM thread commits the weight when it starts, after main's load, and *)
(* whenever it handles a fault.                                            *)
commit_weight ==
    /\ wpc["main"] = "loaded" /\ commited_weight # sm_weight
    /\ commited_weight' = sm_weight
    /\ UNCHANGED <<wfile, wlock, wpc, wtable, wanted, weight_table, sm_weight, calculated,
                   confirmed, overlapped, wfaults>>

-----------------------------------------------------------------------------
WeightNext ==
    \/ \E c \in Ctl :
          \/ weight_set(c) \/ weight_set_table(c) \/ write_hostweight_file(c) \/ weight_set_end(c)
          \/ WriterDies(c) \/ reload_host_weight(c) \/ reload_host_weight_answer(c)
    \/ service_start
    \/ \E t \in Loader :
          \/ hostweight_reload(t) \/ hostweight_update(t) \/ calc_hostweight(t)
          \/ hostweight_set_sm(t) \/ hostweight_close(t)
    \/ commit_weight

WeightSpec == WeightInit /\ [][WeightNext]_wvars

-----------------------------------------------------------------------------
WTables == [Class -> Nat]

(* The values of the files and tables; a table never has more classes than *)
(* there is room for.                                                      *)
WeightTypeOK ==
    /\ {wfile, weight_table, confirmed} \cup {wtable[a] : a \in Ctl \cup Loader} \subseteq WTables
    /\ \A table \in {wfile, weight_table} : Cardinality(Classes(table)) <= MAX_HOST_WEIGHT_CLASS_NUM
    /\ wlock \in Ctl \cup {"daemon", Unlocked}
    /\ wanted \in [Ctl -> (Class \X Weight) \cup {<<>>}]
    /\ sm_weight \in Nat /\ commited_weight \in Nat /\ calculated \in [Loader -> Nat]
    /\ overlapped \in BOOLEAN /\ wfaults \in 0..MaxWFaults

(* When nobody is writing, the file is what the successful runs of         *)
(* weightctl made it, one after the other: two runs at once lose nothing.  *)
NoUpdateLost ==
    wfaults = 0 /\ (\A c \in Ctl : wpc[c] # "write") => wfile = confirmed

(* When all runs have their answer, the daemon works with what they set,   *)
(* unless the service was loading while main() was: then the older table   *)
(* may win.                                                                *)
SetTakesEffect ==
    /\ wfaults = 0 /\ ~ overlapped
    /\ \A c \in Ctl : wpc[c] \in {"done", "failed"}
    /\ wpc["main"] = "loaded"
    => weight_table = confirmed /\ sm_weight = TotalWeight(confirmed)
=============================================================================
