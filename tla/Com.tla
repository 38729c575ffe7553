-------------------------------- MODULE Com --------------------------------
(***************************************************************************)
(* The shared objects of the daemon (com.c): SM, HB, SF, XAPIMON and BM,   *)
(* each a buffer behind a reader/writer lock, with callbacks that run when *)
(* a writer lets it go.  Every call takes com_mutex for its bookkeeping    *)
(* and lets it go while it waits for the reader/writer lock; the callbacks *)
(* run under both.  A callback takes the lock of the component it belongs  *)
(* to (hbvar.lock, sfvar.lock, lmvar.mutex, smvar.mutex), and so do the    *)
(* component's threads: these are the private locks here.                  *)
(*                                                                         *)
(* A thread here is one pass of a thread of the daemon through a path of   *)
(* the code, a program of calls; module Paths has the paths.  A step       *)
(* between ENTER_CS and LEAVE_CS is atomic unless it runs callbacks.       *)
(***************************************************************************)
EXTENDS Naturals, Sequences, FiniteSets, FiniteSetsExt

CONSTANTS
    Thread,                \* the threads of the daemon
    Nobody,                \* no thread
    Main,                  \* the thread that runs main()
    MaxActive,             \* bound: threads that run next to Main
    Object,                \* object ids
    Callback,              \* registered functions
    Private,               \* private locks of the components
    Program,               \* Program[t]: the calls thread t makes
    PrivateOf,             \* PrivateOf[c]: the private lock callback c takes
    Rank,                  \* Rank[o]: the place of o in the order objects are locked in
    THREAD_ID_RECORD_NUM   \* entries of an object's thread table

(* What a program is made of. *)
Step == [op : {"create", "open", "close", "reader_lock", "writer_lock", "unlock"}, on : Object]
        \cup [op : {"register"}, on : Object, func : Callback]
        \cup [op : {"lock", "release"}, on : Private]

ASSUME ComAssumption ==
    /\ IsFiniteSet(Thread) /\ Nobody \notin Thread
    /\ Main \in Thread /\ MaxActive \in Nat
    /\ THREAD_ID_RECORD_NUM \in Nat
    /\ \A t \in Thread : Program[t] \in Seq(Step)
    /\ PrivateOf \in [Callback -> Private] /\ Rank \in [Object -> Nat]

(* (TLC evaluates a definition once, and a constant at every use.) *)
ProgramOf == Program
LockOf == PrivateOf

-----------------------------------------------------------------------------
(* Call n of thread t, and what t has locked and opened before it. *)
IsCall(t, n, ops, o) == ProgramOf[t][n].op \in ops /\ ProgramOf[t][n].on = o

Held(t, o, n) ==
    \E m \in 1 .. n - 1 : /\ IsCall(t, m, {"reader_lock", "writer_lock"}, o)
                          /\ \A k \in m + 1 .. n - 1 : ~ IsCall(t, k, {"unlock"}, o)
HasOpen(t, o, n) ==
    \E m \in 1 .. n - 1 : /\ IsCall(t, m, {"create", "open"}, o)
                          /\ \A k \in m + 1 .. n - 1 : ~ IsCall(t, k, {"close"}, o)

(* The discipline of the callers.  Objects are locked in their order and   *)
(* none twice, a handle is closed by who opened it, nothing is waited for  *)
(* under a private lock, and main() opens every object for good.           *)
ASSUME CallersAssumption ==
    /\ MaxActive <= THREAD_ID_RECORD_NUM /\ 1 <= THREAD_ID_RECORD_NUM
    /\ \A t \in Thread : \A n \in 1 .. Len(ProgramOf[t]) : \A o \in Object :
          /\ IsCall(t, n, {"reader_lock", "writer_lock"}, o) =>
                /\ \A p \in Object : Held(t, p, n) => Rank[p] < Rank[o]
                /\ t = Main => HasOpen(t, o, n)
          /\ IsCall(t, n, {"unlock"}, o) => Held(t, o, n)
          /\ IsCall(t, n, {"create", "open"}, o) =>
                (\A p \in Object : ~ Held(t, p, n)) /\ (t # Main => ~ HasOpen(t, o, n))
          /\ IsCall(t, n, {"close"}, o) => HasOpen(t, o, n) /\ ~ Held(t, o, n) /\ t # Main
    /\ \A t \in Thread : \A n \in 1 .. Len(ProgramOf[t]) : \A l \in Private :
          IsCall(t, n, {"lock"}, l) => n < Len(ProgramOf[t]) /\ IsCall(t, n + 1, {"release"}, l)
    /\ \A t \in Thread : \A o \in Object :
          /\ ~ Held(t, o, Len(ProgramOf[t]) + 1)
          /\ HasOpen(t, o, Len(ProgramOf[t]) + 1) <=> t = Main

VARIABLES
    common_object,  \* common_object[o]: the object, or Absent
    rwlock,         \* rwlock[o]: who holds it
    record,         \* record[o][t]: thread_id_record_table
    com_mutex,      \* who is between ENTER_CS and LEAVE_CS
    private,        \* private[l]: who holds l
    pc,             \* pc[t]: index of the call in t's program
    at,             \* at[t]: where in that call t is
    todo            \* todo[t]: callbacks t has still to run

comvars == <<common_object, rwlock, record, com_mutex, private, pc, at, todo>>
locals == <<private, todo>>

Absent == [ref_count |-> 0, in_use |-> 0, filled |-> FALSE, modified |-> FALSE,
           callbacks |-> <<>>, exists |-> FALSE]

ComInit ==
    /\ common_object = [o \in Object |-> Absent]
    /\ rwlock = [o \in Object |-> [writer |-> Nobody, readers |-> {}]]
    /\ record = [o \in Object |-> [t \in Thread |-> "NONE"]]
    /\ com_mutex = Nobody
    /\ private = [l \in Private |-> Nobody]
    /\ pc = [t \in Thread |-> IF t = Main THEN 1 ELSE 0]
    /\ at = [t \in Thread |-> "call"]
    /\ todo = [t \in Thread |-> <<>>]

-----------------------------------------------------------------------------
Created(t) == pc[t] # 0

Calls(t, ops) == Created(t) /\ pc[t] <= Len(ProgramOf[t]) /\ ProgramOf[t][pc[t]].op \in ops
On(t) == ProgramOf[t][pc[t]].on

Return(t) ==
    /\ pc' = [pc EXCEPT ![t] = @ + 1]
    /\ at' = [at EXCEPT ![t] = "call"]

GoTo(t, where) == at' = [at EXCEPT ![t] = where] /\ UNCHANGED pc

EnterCS(t) == com_mutex = Nobody /\ UNCHANGED com_mutex

set_thread_id_record(o, t, state) == record' = [record EXCEPT ![o][t] = state]

(* The rwlock may be taken: glibc lets readers pass a waiting writer. *)
Free(o, mode) ==
    /\ rwlock[o].writer = Nobody
    /\ mode = "writer" => rwlock[o].readers = {}

Taken(o, t, mode) ==
    rwlock' = [rwlock EXCEPT ![o] =
        [writer |-> IF mode = "writer" THEN t ELSE @.writer,
         readers |-> IF mode = "writer" THEN @.readers ELSE @.readers \cup {t}]]

Released(o, t) ==
    rwlock' = [rwlock EXCEPT ![o] =
        [writer |-> IF @.writer = t THEN Nobody ELSE @.writer, readers |-> @.readers \ {t}]]

-----------------------------------------------------------------------------
(* com_create and com_open (a com_create without a buffer).  The first     *)
(* caller makes the object, ...                                            *)
com_create_new(t) ==
    /\ Calls(t, {"create", "open"}) /\ at[t] = "call" /\ EnterCS(t)
    /\ ~ common_object[On(t)].exists
    /\ common_object' = [common_object EXCEPT ![On(t)] =
          [Absent EXCEPT !.exists = TRUE, !.ref_count = 1, !.filled = Calls(t, {"create"})]]
    /\ Return(t)
    /\ UNCHANGED <<rwlock, record, locals>>

(* ... later ones get a handle to it.                                      *)
com_create_found(t) ==
    /\ Calls(t, {"create", "open"}) /\ at[t] = "call" /\ EnterCS(t)
    /\ common_object[On(t)].exists
    /\ common_object' = [common_object EXCEPT ![On(t)].ref_count = @ + 1, ![On(t)].in_use = @ + 1]
    /\ set_thread_id_record(On(t), t, "WRITER_ACQUIREING")
    /\ GoTo(t, "found")
    /\ UNCHANGED <<rwlock, locals>>

(* Outside the critical section: is there a buffer to be filled in? *)
com_create_fill(t) ==
    /\ at[t] = "found" /\ Calls(t, {"create"}) /\ ~ common_object[On(t)].filled
    /\ Free(On(t), "writer")
    /\ Taken(On(t), t, "writer")
    /\ GoTo(t, "fill")
    /\ UNCHANGED <<common_object, record, com_mutex, locals>>

com_create_done(t) ==
    /\ at[t] = "found" /\ (Calls(t, {"open"}) \/ common_object[On(t)].filled)
    /\ EnterCS(t)
    /\ common_object' = [common_object EXCEPT ![On(t)].in_use = @ - 1]
    /\ set_thread_id_record(On(t), t, "NONE")
    /\ Return(t)
    /\ UNCHANGED <<rwlock, locals>>

(* The buffer is there before the callbacks run on it, and keeps com_mutex *)
(* until they have.                                                        *)
com_create_callbacks(t) ==
    /\ at[t] = "fill" /\ com_mutex = Nobody
    /\ com_mutex' = t
    /\ common_object' = [common_object EXCEPT ![On(t)].filled = TRUE]
    /\ set_thread_id_record(On(t), t, "WRITER_ACQUIRED")
    /\ todo' = [todo EXCEPT ![t] = common_object[On(t)].callbacks]
    /\ GoTo(t, "callbacks")
    /\ UNCHANGED <<rwlock, private>>

(* Mutant: the references are not looked at. *)
object_safe_regardless(obj) == obj.in_use = 0 /\ obj.callbacks = <<>>

object_safe_to_delete(obj) == obj.ref_count = 0 /\ obj.in_use = 0 /\ obj.callbacks = <<>>

com_close(t) ==
    /\ Calls(t, {"close"}) /\ EnterCS(t)
    /\ LET old == common_object[On(t)]
           obj == [old EXCEPT !.ref_count = IF @ # 0 THEN @ - 1 ELSE @]
       IN  common_object' = [common_object EXCEPT ![On(t)] =
               IF object_safe_to_delete(obj) THEN Absent ELSE obj]
    /\ Return(t)
    /\ UNCHANGED <<rwlock, record, locals>>

com_register_callback(t) ==
    /\ Calls(t, {"register"}) /\ EnterCS(t)
    /\ common_object' = [common_object EXCEPT ![On(t)].callbacks =
                            <<ProgramOf[t][pc[t]].func>> \o @]
    /\ Return(t)
    /\ UNCHANGED <<rwlock, record, locals>>

-----------------------------------------------------------------------------
ModeOf(t) == IF Calls(t, {"writer_lock"}) THEN "writer" ELSE "reader"

(* com_reader_lock and com_writer_lock, in three steps: the use is noted,  *)
(* the rwlock is waited for, and the record updated.                       *)
com_lock_enter(t) ==
    /\ Calls(t, {"reader_lock", "writer_lock"}) /\ at[t] = "call" /\ EnterCS(t)
    /\ common_object' = [common_object EXCEPT ![On(t)].in_use = @ + 1]
    /\ set_thread_id_record(On(t), t,
          IF ModeOf(t) = "writer" THEN "WRITER_ACQUIREING" ELSE "READER_ACQUIREING")
    /\ GoTo(t, "wait")
    /\ UNCHANGED <<rwlock, locals>>

(* Mutant: a writer does not wait for the readers. *)
com_lock_wait_not(t) ==
    /\ at[t] = "wait" /\ rwlock[On(t)].writer = Nobody
    /\ Taken(On(t), t, ModeOf(t))
    /\ GoTo(t, "got")
    /\ UNCHANGED <<common_object, record, com_mutex, locals>>

com_lock_wait(t) ==
    /\ at[t] = "wait" /\ Free(On(t), ModeOf(t))
    /\ Taken(On(t), t, ModeOf(t))
    /\ GoTo(t, "got")
    /\ UNCHANGED <<common_object, record, com_mutex, locals>>

(* The caller gets the buffer; a writer changes it, and the checksum taken *)
(* by the last writer no longer fits.                                      *)
com_lock_return(t) ==
    /\ at[t] = "got" /\ EnterCS(t)
    /\ set_thread_id_record(On(t), t,
          IF ModeOf(t) = "writer" THEN "WRITER_ACQUIRED" ELSE "READER_ACQUIRED")
    /\ common_object' = [common_object EXCEPT ![On(t)].modified =
                            @ \/ ModeOf(t) = "writer"]
    /\ Return(t)
    /\ UNCHANGED <<rwlock, locals>>

com_reader_unlock(t) ==
    /\ Calls(t, {"unlock"}) /\ t \in rwlock[On(t)].readers /\ EnterCS(t)
    /\ common_object' = [common_object EXCEPT ![On(t)].in_use = @ - 1]
    /\ set_thread_id_record(On(t), t, "NONE")
    /\ Released(On(t), t)
    /\ Return(t)
    /\ UNCHANGED locals

(* com_writer_unlock keeps com_mutex while the callbacks run, ... *)
com_writer_unlock_enter(t) ==
    /\ Calls(t, {"unlock"}) /\ at[t] = "call" /\ rwlock[On(t)].writer = t
    /\ com_mutex = Nobody
    /\ com_mutex' = t
    /\ todo' = [todo EXCEPT ![t] = common_object[On(t)].callbacks]
    /\ GoTo(t, "callbacks")
    /\ UNCHANGED <<common_object, rwlock, record, private>>

(* Mutant: a callback returns early with its component's lock. *)
RunCallback_early(t) ==
    /\ at[t] = "callbacks" /\ todo[t] # <<>>
    /\ private[LockOf[Head(todo[t])]] = Nobody
    /\ private' = [private EXCEPT ![LockOf[Head(todo[t])]] = t]
    /\ todo' = [todo EXCEPT ![t] = Tail(@)]
    /\ common_object' = [common_object EXCEPT ![On(t)].modified = @ \/ Calls(t, {"unlock"})]
    /\ UNCHANGED <<rwlock, record, com_mutex, pc, at>>

(* ... the last registered first.  Each has to get its component's lock    *)
(* and may change the buffer (a request to disarm fencing is answered);    *)
(* those that com_create runs find nothing to answer.                      *)
RunCallback(t) ==
    /\ at[t] = "callbacks" /\ todo[t] # <<>>
    /\ private[LockOf[Head(todo[t])]] = Nobody
    /\ todo' = [todo EXCEPT ![t] = Tail(@)]
    /\ common_object' = [common_object EXCEPT ![On(t)].modified = @ \/ Calls(t, {"unlock"})]
    /\ UNCHANGED <<rwlock, record, com_mutex, private, pc, at>>

(* Then the checksum for the readers is taken and everything let go.  (The *)
(* same steps end the com_create that filled the buffer in.)               *)
com_writer_unlock(t) ==
    /\ at[t] = "callbacks" /\ todo[t] = <<>>
    /\ common_object' = [common_object EXCEPT
          ![On(t)].modified = FALSE, ![On(t)].in_use = @ - 1]
    /\ set_thread_id_record(On(t), t, "NONE")
    /\ Released(On(t), t)
    /\ com_mutex' = Nobody
    /\ Return(t)
    /\ UNCHANGED locals

(* The components' own locks. *)
PrivateLock(t) ==
    /\ Calls(t, {"lock"}) /\ private[On(t)] = Nobody
    /\ private' = [private EXCEPT ![On(t)] = t]
    /\ Return(t)
    /\ UNCHANGED <<common_object, rwlock, record, com_mutex, todo>>

PrivateRelease(t) ==
    /\ Calls(t, {"release"})
    /\ private' = [private EXCEPT ![On(t)] = Nobody]
    /\ Return(t)
    /\ UNCHANGED <<common_object, rwlock, record, com_mutex, todo>>

-----------------------------------------------------------------------------
Active(t) == Created(t) /\ pc[t] <= Len(ProgramOf[t])

ComThread(t) ==
    \/ com_create_new(t) \/ com_create_found(t) \/ com_create_fill(t)
    \/ com_create_callbacks(t) \/ com_create_done(t) \/ com_close(t)
    \/ com_register_callback(t)
    \/ com_lock_enter(t) \/ com_lock_wait(t) \/ com_lock_return(t)
    \/ com_reader_unlock(t) \/ com_writer_unlock_enter(t) \/ RunCallback(t)
    \/ com_writer_unlock(t) \/ PrivateLock(t) \/ PrivateRelease(t)

(* The threads are created in phase 1, when Main is through phase 0; some  *)
(* MaxActive of them are followed on one pass.                             *)
Phase1 == pc[Main] > Len(ProgramOf[Main]) /\ \A t \in Thread \ {Main} : ~ Created(t)

create_threads(active) ==
    /\ pc' = [t \in Thread |-> IF t \in active THEN 1 ELSE Len(ProgramOf[t]) + 1]
    /\ UNCHANGED <<common_object, rwlock, record, com_mutex, private, at, todo>>

ComNext ==
    \/ \E t \in Thread : Active(t) /\ ComThread(t)
    \/ Phase1 /\ \E active \in kSubset(MaxActive, Thread \ {Main}) : create_threads(active)

ComSpec == ComInit /\ [][ComNext]_comvars

-----------------------------------------------------------------------------
LockState == {"NONE", "READER_ACQUIREING", "READER_ACQUIRED", "WRITER_ACQUIREING", "WRITER_ACQUIRED"}

(* The values of the objects, locks and thread states. *)
ComTypeOK ==
    /\ common_object \in [Object -> [ref_count : Nat, in_use : Nat, filled : BOOLEAN,
          modified : BOOLEAN, callbacks : Seq(Callback), exists : BOOLEAN]]
    /\ rwlock \in [Object -> [writer : Thread \cup {Nobody}, readers : SUBSET Thread]]
    /\ record \in [Object -> [Thread -> LockState]]
    /\ com_mutex \in Thread \cup {Nobody}
    /\ private \in [Private -> Thread \cup {Nobody}]
    /\ pc \in [Thread -> Nat] /\ todo \in [Thread -> Seq(Callback)]
    /\ at \in [Thread -> {"call", "found", "fill", "wait", "got", "callbacks"}]

Using(o) == {t \in Thread : record[o][t] # "NONE"}

(* in_use and the thread table tell the same story of an object, and the   *)
(* table has room for everybody: the assertion at the end of               *)
(* set_thread_id_record() is never reached, and com_close() never deletes  *)
(* an object somebody holds or waits for, or that main() keeps open.       *)
UseAccounted ==
    \A o \in Object :
        /\ common_object[o].in_use = Cardinality(Using(o))
        /\ Cardinality(Using(o)) <= THREAD_ID_RECORD_NUM
        /\ Using(o) # {} \/ pc[Main] > Len(ProgramOf[Main]) => common_object[o].exists
        /\ \A t \in Thread : rwlock[o].writer = t \/ t \in rwlock[o].readers => t \in Using(o)

(* com_reader_unlock() never finds a buffer other than the one the last    *)
(* writer, and the callbacks run for it, left.                             *)
ReadersUndisturbed ==
    \A o \in Object : rwlock[o].readers # {} =>
        /\ rwlock[o].writer = Nobody
        /\ ~ common_object[o].modified

(* t cannot go on before u has. *)
WaitsFor(t, u) ==
    \/ at[t] = "wait" /\ ~ Free(On(t), ModeOf(t)) /\ (rwlock[On(t)].writer = u \/ u \in rwlock[On(t)].readers)
    \/ /\ at[t] = "found" /\ Calls(t, {"create"}) /\ ~ common_object[On(t)].filled
       /\ (rwlock[On(t)].writer = u \/ u \in rwlock[On(t)].readers)
    \/ at[t] = "callbacks" /\ todo[t] # <<>> /\ private[LockOf[Head(todo[t])]] = u
    \/ Calls(t, {"lock"}) /\ private[On(t)] = u
    \/ com_mutex = u /\ u # t /\ at[t] \notin {"wait", "callbacks"} /\ ~ Calls(t, {"lock", "release"})

(* No threads wait for each other in a ring, although callbacks take       *)
(* private locks under com_mutex and the writer's lock.                    *)
NoRing ==
    LET active == {t \in Thread : Active(t)}
        waiting == {t \in active : \E u \in active : WaitsFor(t, u)}
    IN  \A ring \in (SUBSET waiting) \ {{}} : \E t \in ring : \A u \in ring : ~ WaitsFor(t, u)
=============================================================================
