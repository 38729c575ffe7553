------------------------------ MODULE ComProofs ------------------------------
(***************************************************************************)
(* Proofs about the shared objects, for any threads, objects and programs  *)
(* that keep the discipline of the callers.                                *)
(***************************************************************************)
EXTENDS Com, FiniteSetTheorems, TLAPS

-----------------------------------------------------------------------------
(* Programs *)

Locks == {"reader_lock", "writer_lock"}
Opens == {"create", "open"}
OnObjects == {"create", "open", "close", "reader_lock", "writer_lock", "unlock", "register"}

LEMMA StepOn ==
  ASSUME NEW t \in Thread, NEW n \in 1 .. Len(ProgramOf[t])
  PROVE  /\ ProgramOf[t][n].op \in OnObjects => ProgramOf[t][n].on \in Object
         /\ ProgramOf[t][n].op = "register" => ProgramOf[t][n].func \in Callback
         /\ ProgramOf[t][n].op \in {"lock", "release"} => ProgramOf[t][n].on \in Private
<1>1. ProgramOf[t] \in Seq(Step)
  BY ComAssumption DEF ProgramOf
<1>2. ProgramOf[t][n] \in Step
  BY <1>1
<1> DEFINE s == ProgramOf[t][n]
<1>3. s \in Step
  BY <1>2
<1> HIDE DEF s
<1>4. /\ s.op \in OnObjects => s.on \in Object
      /\ s.op = "register" => s.func \in Callback
      /\ s.op \in {"lock", "release"} => s.on \in Private
  BY <1>3 DEF Step, OnObjects
<1> QED
  BY <1>4 DEF s

LEMMA ProgramLen == ASSUME NEW t \in Thread PROVE Len(ProgramOf[t]) \in Nat
  BY ComAssumption DEF ProgramOf

LEMMA HeldNext ==
  ASSUME NEW t \in Thread, NEW o, NEW n \in Nat \ {0}
  PROVE  Held(t, o, n + 1) <=> IsCall(t, n, Locks, o) \/ (Held(t, o, n) /\ ~ IsCall(t, n, {"unlock"}, o))
<1>1. ASSUME Held(t, o, n + 1) PROVE IsCall(t, n, Locks, o) \/ (Held(t, o, n) /\ ~ IsCall(t, n, {"unlock"}, o))
  <2>1. PICK m \in 1 .. n : IsCall(t, m, Locks, o) /\ \A k \in m + 1 .. n : ~ IsCall(t, k, {"unlock"}, o)
    BY <1>1 DEF Held, Locks
  <2>2. CASE m = n
    BY <2>1, <2>2
  <2>3. CASE m < n
    BY <2>1, <2>3 DEF Held, Locks
  <2> QED
    BY <2>2, <2>3
<1>2. ASSUME IsCall(t, n, Locks, o) PROVE Held(t, o, n + 1)
  BY <1>2 DEF Held, Locks
<1>3. ASSUME Held(t, o, n), ~ IsCall(t, n, {"unlock"}, o) PROVE Held(t, o, n + 1)
  <2>1. PICK m \in 1 .. n - 1 : IsCall(t, m, Locks, o) /\ \A k \in m + 1 .. n - 1 : ~ IsCall(t, k, {"unlock"}, o)
    BY <1>3 DEF Held, Locks
  <2>2. \A k \in m + 1 .. n : ~ IsCall(t, k, {"unlock"}, o)
    BY <1>3, <2>1
  <2> QED
    BY <2>1, <2>2 DEF Held, Locks
<1> QED
  BY <1>1, <1>2, <1>3

LEMMA OpenNext ==
  ASSUME NEW t \in Thread, NEW o, NEW n \in Nat \ {0}
  PROVE  HasOpen(t, o, n + 1) <=> IsCall(t, n, Opens, o) \/ (HasOpen(t, o, n) /\ ~ IsCall(t, n, {"close"}, o))
<1>1. ASSUME HasOpen(t, o, n + 1) PROVE IsCall(t, n, Opens, o) \/ (HasOpen(t, o, n) /\ ~ IsCall(t, n, {"close"}, o))
  <2>1. PICK m \in 1 .. n : IsCall(t, m, Opens, o) /\ \A k \in m + 1 .. n : ~ IsCall(t, k, {"close"}, o)
    BY <1>1 DEF HasOpen, Opens
  <2>2. CASE m = n
    BY <2>1, <2>2
  <2>3. CASE m < n
    BY <2>1, <2>3 DEF HasOpen, Opens
  <2> QED
    BY <2>2, <2>3
<1>2. ASSUME IsCall(t, n, Opens, o) PROVE HasOpen(t, o, n + 1)
  BY <1>2 DEF HasOpen, Opens
<1>3. ASSUME HasOpen(t, o, n), ~ IsCall(t, n, {"close"}, o) PROVE HasOpen(t, o, n + 1)
  <2>1. PICK m \in 1 .. n - 1 : IsCall(t, m, Opens, o) /\ \A k \in m + 1 .. n - 1 : ~ IsCall(t, k, {"close"}, o)
    BY <1>3 DEF HasOpen, Opens
  <2>2. \A k \in m + 1 .. n : ~ IsCall(t, k, {"close"}, o)
    BY <1>3, <2>1
  <2> QED
    BY <2>1, <2>2 DEF HasOpen, Opens
<1> QED
  BY <1>1, <1>2, <1>3

LEMMA NothingBefore ==
  ASSUME NEW t, NEW o, NEW n \in {0, 1}
  PROVE  ~ Held(t, o, n) /\ ~ HasOpen(t, o, n)
  BY DEF Held, HasOpen

(* The callers' discipline, at the call a thread is about to make. *)
LEMMA Disciplined ==
  ASSUME NEW t \in Thread, NEW n \in 1 .. Len(ProgramOf[t]), NEW o \in Object
  PROVE  /\ IsCall(t, n, Locks, o) => /\ \A p \in Object : Held(t, p, n) => Rank[p] < Rank[o]
                                      /\ ~ Held(t, o, n)
                                      /\ t = Main => HasOpen(t, o, n)
         /\ IsCall(t, n, {"unlock"}, o) => Held(t, o, n)
         /\ IsCall(t, n, Opens, o) => (\A p \in Object : ~ Held(t, p, n)) /\ (t # Main => ~ HasOpen(t, o, n))
         /\ IsCall(t, n, {"close"}, o) => HasOpen(t, o, n) /\ ~ Held(t, o, n) /\ t # Main
<1>1. Rank[o] \in Nat
  BY ComAssumption
<1> QED
  BY <1>1, CallersAssumption DEF Locks, Opens

LEMMA AtEnd ==
  ASSUME NEW t \in Thread, NEW o \in Object
  PROVE  ~ Held(t, o, Len(ProgramOf[t]) + 1) /\ (HasOpen(t, o, Len(ProgramOf[t]) + 1) <=> t = Main)
  BY CallersAssumption

LEMMA CallIs ==
  ASSUME NEW t \in Thread, NEW ops, Calls(t, ops), ComTypeOK
  PROVE  /\ pc[t] \in 1 .. Len(ProgramOf[t]) /\ pc[t] \in Nat \ {0} /\ IsCall(t, pc[t], ops, On(t))
         /\ ops \subseteq OnObjects => On(t) \in Object
         /\ ops \subseteq {"lock", "release"} => On(t) \in Private
<1>1. pc[t] \in Nat /\ Len(ProgramOf[t]) \in Nat
  BY ProgramLen DEF ComTypeOK
<1>2. pc[t] \in 1 .. Len(ProgramOf[t])
  BY <1>1 DEF Calls, Created
<1> QED
  BY <1>2, StepOn DEF Calls, IsCall, On

-----------------------------------------------------------------------------
(* Where the threads are *)

Places ==
    \A t \in Thread :
        /\ pc[t] <= Len(ProgramOf[t]) + 1
        /\ at[t] \in {"wait", "got"} => Calls(t, Locks)
        /\ at[t] = "found" => Calls(t, Opens)
        /\ at[t] = "fill" => Calls(t, {"create"})
        /\ at[t] = "callbacks" => Calls(t, {"create", "unlock"})

(* Before and after the threads are created. *)
Alone == \A t \in Thread : t # Main => pc[t] = 0
Done(t) == pc[t] = Len(ProgramOf[t]) + 1
Manned ==
    Alone \/ (Done(Main) /\ \E A \in kSubset(MaxActive, Thread \ {Main}) : \A t \in Thread : t \notin A => Done(t))

(* What a step of thread t may do to the places of the threads. *)
Steps(t) ==
    /\ pc' = pc \/ (pc' = [pc EXCEPT ![t] = pc[t] + 1] /\ at' = [at EXCEPT ![t] = "call"])
    /\ \A u \in Thread : u # t => at'[u] = at[u]

LEMMA StepsOthers ==
  ASSUME ComTypeOK, NEW t \in Thread, Steps(t), NEW u \in Thread, u # t
  PROVE  /\ pc'[u] = pc[u] /\ at'[u] = at[u] /\ On(u)' = On(u) /\ ModeOf(u)' = ModeOf(u)
         /\ \A ops : Calls(u, ops)' <=> Calls(u, ops)
<1>1. pc'[u] = pc[u] /\ at'[u] = at[u]
  BY DEF Steps, ComTypeOK
<1> QED
  BY <1>1 DEF On, ModeOf, Calls, Created

LEMMA ThreadSteps ==
  ASSUME ComTypeOK, NEW t \in Thread, ComThread(t)
  PROVE  Steps(t)
<1> USE DEF ComTypeOK
<1>1. ASSUME Return(t) PROVE Steps(t)
  BY <1>1 DEF Return, Steps
<1>2. ASSUME NEW w, GoTo(t, w) PROVE Steps(t)
  BY <1>2 DEF GoTo, Steps
<1>3. ASSUME UNCHANGED <<pc, at>> PROVE Steps(t)
  BY <1>3 DEF Steps
<1> QED
  BY <1>1, <1>2, <1>3 DEF ComThread, com_create_new, com_create_found, com_create_fill, com_create_callbacks,
     com_create_done, com_close, com_register_callback, com_lock_enter, com_lock_wait, com_lock_return,
     com_reader_unlock, com_writer_unlock_enter, RunCallback, com_writer_unlock, PrivateLock, PrivateRelease


LEMMA PlacesStep ==
  ASSUME ComTypeOK, Places, [ComNext]_comvars
  PROVE  Places'
<1> USE DEF ComTypeOK, Places
<1>1. ASSUME NEW t \in Thread, Active(t), com_create_new(t) PROVE Places'
  <2>1. Steps(t)
    BY <1>1, ThreadSteps DEF ComThread
  <2>2. \A u \in Thread : u # t => /\ pc'[u] = pc[u] /\ at'[u] = at[u]
                                    /\ \A ops : Calls(u, ops)' <=> Calls(u, ops)
    BY <2>1, StepsOthers
  <2>3. pc'[t] <= Len(ProgramOf[t]) + 1 /\ at'[t] = "call"
    BY <1>1, ProgramLen DEF com_create_new, Return, Active
  <2> QED
    BY <2>2, <2>3
<1>2. ASSUME NEW t \in Thread, Active(t), com_create_found(t) PROVE Places'
  <2>1. Steps(t)
    BY <1>2, ThreadSteps DEF ComThread
  <2>2. \A u \in Thread : u # t => /\ pc'[u] = pc[u] /\ at'[u] = at[u]
                                    /\ \A ops : Calls(u, ops)' <=> Calls(u, ops)
    BY <2>1, StepsOthers
  <2>3. pc' = pc /\ \A ops : Calls(t, ops)' <=> Calls(t, ops)
    BY <1>2 DEF com_create_found, GoTo, Calls, Created
  <2>4. /\ at'[t] \in {"wait", "got"} => Calls(t, Locks)
        /\ at'[t] = "found" => Calls(t, Opens)
        /\ at'[t] = "fill" => Calls(t, {"create"})
        /\ at'[t] = "callbacks" => Calls(t, {"create", "unlock"})
    BY <1>2 DEF com_create_found, GoTo, Locks, Opens, Calls
  <2> QED
    BY <2>2, <2>3, <2>4
<1>3. ASSUME NEW t \in Thread, Active(t), com_create_fill(t) PROVE Places'
  <2>1. Steps(t)
    BY <1>3, ThreadSteps DEF ComThread
  <2>2. \A u \in Thread : u # t => /\ pc'[u] = pc[u] /\ at'[u] = at[u]
                                    /\ \A ops : Calls(u, ops)' <=> Calls(u, ops)
    BY <2>1, StepsOthers
  <2>3. pc' = pc /\ \A ops : Calls(t, ops)' <=> Calls(t, ops)
    BY <1>3 DEF com_create_fill, GoTo, Calls, Created
  <2>4. /\ at'[t] \in {"wait", "got"} => Calls(t, Locks)
        /\ at'[t] = "found" => Calls(t, Opens)
        /\ at'[t] = "fill" => Calls(t, {"create"})
        /\ at'[t] = "callbacks" => Calls(t, {"create", "unlock"})
    BY <1>3 DEF com_create_fill, GoTo, Locks, Opens, Calls
  <2> QED
    BY <2>2, <2>3, <2>4
<1>4. ASSUME NEW t \in Thread, Active(t), com_create_callbacks(t) PROVE Places'
  <2>1. Steps(t)
    BY <1>4, ThreadSteps DEF ComThread
  <2>2. \A u \in Thread : u # t => /\ pc'[u] = pc[u] /\ at'[u] = at[u]
                                    /\ \A ops : Calls(u, ops)' <=> Calls(u, ops)
    BY <2>1, StepsOthers
  <2>3. pc' = pc /\ \A ops : Calls(t, ops)' <=> Calls(t, ops)
    BY <1>4 DEF com_create_callbacks, GoTo, Calls, Created
  <2>4. /\ at'[t] \in {"wait", "got"} => Calls(t, Locks)
        /\ at'[t] = "found" => Calls(t, Opens)
        /\ at'[t] = "fill" => Calls(t, {"create"})
        /\ at'[t] = "callbacks" => Calls(t, {"create", "unlock"})
    BY <1>4 DEF com_create_callbacks, GoTo, Locks, Opens, Calls
  <2> QED
    BY <2>2, <2>3, <2>4
<1>5. ASSUME NEW t \in Thread, Active(t), com_create_done(t) PROVE Places'
  <2>1. Steps(t)
    BY <1>5, ThreadSteps DEF ComThread
  <2>2. \A u \in Thread : u # t => /\ pc'[u] = pc[u] /\ at'[u] = at[u]
                                    /\ \A ops : Calls(u, ops)' <=> Calls(u, ops)
    BY <2>1, StepsOthers
  <2>3. pc'[t] <= Len(ProgramOf[t]) + 1 /\ at'[t] = "call"
    BY <1>5, ProgramLen DEF com_create_done, Return, Active
  <2> QED
    BY <2>2, <2>3
<1>6. ASSUME NEW t \in Thread, Active(t), com_close(t) PROVE Places'
  <2>1. Steps(t)
    BY <1>6, ThreadSteps DEF ComThread
  <2>2. \A u \in Thread : u # t => /\ pc'[u] = pc[u] /\ at'[u] = at[u]
                                    /\ \A ops : Calls(u, ops)' <=> Calls(u, ops)
    BY <2>1, StepsOthers
  <2>3. pc'[t] <= Len(ProgramOf[t]) + 1 /\ at'[t] = "call"
    BY <1>6, ProgramLen DEF com_close, Return, Active
  <2> QED
    BY <2>2, <2>3
<1>7. ASSUME NEW t \in Thread, Active(t), com_register_callback(t) PROVE Places'
  <2>1. Steps(t)
    BY <1>7, ThreadSteps DEF ComThread
  <2>2. \A u \in Thread : u # t => /\ pc'[u] = pc[u] /\ at'[u] = at[u]
                                    /\ \A ops : Calls(u, ops)' <=> Calls(u, ops)
    BY <2>1, StepsOthers
  <2>3. pc'[t] <= Len(ProgramOf[t]) + 1 /\ at'[t] = "call"
    BY <1>7, ProgramLen DEF com_register_callback, Return, Active
  <2> QED
    BY <2>2, <2>3
<1>8. ASSUME NEW t \in Thread, Active(t), com_lock_enter(t) PROVE Places'
  <2>1. Steps(t)
    BY <1>8, ThreadSteps DEF ComThread
  <2>2. \A u \in Thread : u # t => /\ pc'[u] = pc[u] /\ at'[u] = at[u]
                                    /\ \A ops : Calls(u, ops)' <=> Calls(u, ops)
    BY <2>1, StepsOthers
  <2>3. pc' = pc /\ \A ops : Calls(t, ops)' <=> Calls(t, ops)
    BY <1>8 DEF com_lock_enter, GoTo, Calls, Created
  <2>4. /\ at'[t] \in {"wait", "got"} => Calls(t, Locks)
        /\ at'[t] = "found" => Calls(t, Opens)
        /\ at'[t] = "fill" => Calls(t, {"create"})
        /\ at'[t] = "callbacks" => Calls(t, {"create", "unlock"})
    BY <1>8 DEF com_lock_enter, GoTo, Locks, Opens, Calls
  <2> QED
    BY <2>2, <2>3, <2>4
<1>9. ASSUME NEW t \in Thread, Active(t), com_lock_wait(t) PROVE Places'
  <2>1. Steps(t)
    BY <1>9, ThreadSteps DEF ComThread
  <2>2. \A u \in Thread : u # t => /\ pc'[u] = pc[u] /\ at'[u] = at[u]
                                    /\ \A ops : Calls(u, ops)' <=> Calls(u, ops)
    BY <2>1, StepsOthers
  <2>3. pc' = pc /\ \A ops : Calls(t, ops)' <=> Calls(t, ops)
    BY <1>9 DEF com_lock_wait, GoTo, Calls, Created
  <2>4. /\ at'[t] \in {"wait", "got"} => Calls(t, Locks)
        /\ at'[t] = "found" => Calls(t, Opens)
        /\ at'[t] = "fill" => Calls(t, {"create"})
        /\ at'[t] = "callbacks" => Calls(t, {"create", "unlock"})
    BY <1>9 DEF com_lock_wait, GoTo, Locks, Opens, Calls
  <2> QED
    BY <2>2, <2>3, <2>4
<1>10. ASSUME NEW t \in Thread, Active(t), com_lock_return(t) PROVE Places'
  <2>1. Steps(t)
    BY <1>10, ThreadSteps DEF ComThread
  <2>2. \A u \in Thread : u # t => /\ pc'[u] = pc[u] /\ at'[u] = at[u]
                                    /\ \A ops : Calls(u, ops)' <=> Calls(u, ops)
    BY <2>1, StepsOthers
  <2>3. pc'[t] <= Len(ProgramOf[t]) + 1 /\ at'[t] = "call"
    BY <1>10, ProgramLen DEF com_lock_return, Return, Active
  <2> QED
    BY <2>2, <2>3
<1>11. ASSUME NEW t \in Thread, Active(t), com_reader_unlock(t) PROVE Places'
  <2>1. Steps(t)
    BY <1>11, ThreadSteps DEF ComThread
  <2>2. \A u \in Thread : u # t => /\ pc'[u] = pc[u] /\ at'[u] = at[u]
                                    /\ \A ops : Calls(u, ops)' <=> Calls(u, ops)
    BY <2>1, StepsOthers
  <2>3. pc'[t] <= Len(ProgramOf[t]) + 1 /\ at'[t] = "call"
    BY <1>11, ProgramLen DEF com_reader_unlock, Return, Active
  <2> QED
    BY <2>2, <2>3
<1>12. ASSUME NEW t \in Thread, Active(t), com_writer_unlock_enter(t) PROVE Places'
  <2>1. Steps(t)
    BY <1>12, ThreadSteps DEF ComThread
  <2>2. \A u \in Thread : u # t => /\ pc'[u] = pc[u] /\ at'[u] = at[u]
                                    /\ \A ops : Calls(u, ops)' <=> Calls(u, ops)
    BY <2>1, StepsOthers
  <2>3. pc' = pc /\ \A ops : Calls(t, ops)' <=> Calls(t, ops)
    BY <1>12 DEF com_writer_unlock_enter, GoTo, Calls, Created
  <2>4. /\ at'[t] \in {"wait", "got"} => Calls(t, Locks)
        /\ at'[t] = "found" => Calls(t, Opens)
        /\ at'[t] = "fill" => Calls(t, {"create"})
        /\ at'[t] = "callbacks" => Calls(t, {"create", "unlock"})
    BY <1>12 DEF com_writer_unlock_enter, GoTo, Locks, Opens, Calls
  <2> QED
    BY <2>2, <2>3, <2>4
<1>13. ASSUME NEW t \in Thread, Active(t), RunCallback(t) PROVE Places'
  <2>1. UNCHANGED <<pc, at>>
    BY <1>13 DEF RunCallback
  <2> QED
    BY <2>1 DEF Calls, Created
<1>14. ASSUME NEW t \in Thread, Active(t), com_writer_unlock(t) PROVE Places'
  <2>1. Steps(t)
    BY <1>14, ThreadSteps DEF ComThread
  <2>2. \A u \in Thread : u # t => /\ pc'[u] = pc[u] /\ at'[u] = at[u]
                                    /\ \A ops : Calls(u, ops)' <=> Calls(u, ops)
    BY <2>1, StepsOthers
  <2>3. pc'[t] <= Len(ProgramOf[t]) + 1 /\ at'[t] = "call"
    BY <1>14, ProgramLen DEF com_writer_unlock, Return, Active
  <2> QED
    BY <2>2, <2>3
<1>15. ASSUME NEW t \in Thread, Active(t), PrivateLock(t) PROVE Places'
  <2>1. Steps(t)
    BY <1>15, ThreadSteps DEF ComThread
  <2>2. \A u \in Thread : u # t => /\ pc'[u] = pc[u] /\ at'[u] = at[u]
                                    /\ \A ops : Calls(u, ops)' <=> Calls(u, ops)
    BY <2>1, StepsOthers
  <2>3. pc'[t] <= Len(ProgramOf[t]) + 1 /\ at'[t] = "call"
    BY <1>15, ProgramLen DEF PrivateLock, Return, Active
  <2> QED
    BY <2>2, <2>3
<1>16. ASSUME NEW t \in Thread, Active(t), PrivateRelease(t) PROVE Places'
  <2>1. Steps(t)
    BY <1>16, ThreadSteps DEF ComThread
  <2>2. \A u \in Thread : u # t => /\ pc'[u] = pc[u] /\ at'[u] = at[u]
                                    /\ \A ops : Calls(u, ops)' <=> Calls(u, ops)
    BY <2>1, StepsOthers
  <2>3. pc'[t] <= Len(ProgramOf[t]) + 1 /\ at'[t] = "call"
    BY <1>16, ProgramLen DEF PrivateRelease, Return, Active
  <2> QED
    BY <2>2, <2>3
<1>17. ASSUME Phase1, NEW A \in kSubset(MaxActive, Thread \ {Main}), create_threads(A) PROVE Places'
  <2>1. at' = at /\ \A t \in Thread : pc'[t] <= Len(ProgramOf[t]) + 1
    BY <1>17, ProgramLen DEF create_threads
  <2>2. \A t \in Thread : ~ Active(t)
    BY <1>17, ProgramLen DEF Phase1, Active, Created
  <2>3. \A t \in Thread : at[t] = "call"
    BY <2>2 DEF Calls, Active
  <2> QED
    BY <2>1, <2>3
<1>18. CASE UNCHANGED comvars
  BY <1>18 DEF comvars, Calls, Created
<1> HIDE DEF Places
<1> QED
  BY <1>1, <1>2, <1>3, <1>4, <1>5, <1>6, <1>7, <1>8, <1>9, <1>10, <1>11, <1>12, <1>13, <1>14,
     <1>15, <1>16, <1>17, <1>18
  DEF ComNext, ComThread

LEMMA MannedStep ==
  ASSUME ComTypeOK, Manned, [ComNext]_comvars
  PROVE  Manned'
<1>1. ASSUME NEW t \in Thread, Active(t), Steps(t) PROVE Manned'
  <2>1. ~ Done(t)
    BY <1>1, ProgramLen DEF Active, Done, ComTypeOK
  <2>2. \A u \in Thread : u # t => pc'[u] = pc[u]
    BY <1>1, StepsOthers
  <2>3. CASE Alone
    <3>1. t = Main
      BY <1>1, <2>3 DEF Alone, Active, Created
    <3> QED
      BY <2>2, <2>3, <3>1 DEF Alone, Manned
  <2>4. CASE Done(Main) /\ \E A \in kSubset(MaxActive, Thread \ {Main}) : \A u \in Thread : u \notin A => Done(u)
    <3>1. PICK A \in kSubset(MaxActive, Thread \ {Main}) : \A u \in Thread : u \notin A => Done(u)
      BY <2>4
    <3>2. t \in A /\ t # Main
      BY <2>1, <2>4, <3>1
    <3>3. Done(Main)' /\ \A u \in Thread : u \notin A => Done(u)'
      BY <2>2, <2>4, <3>1, <3>2, ComAssumption DEF Done
    <3> QED
      BY <3>1, <3>3 DEF Manned
  <2> QED
    BY <2>3, <2>4 DEF Manned
<1>2. ASSUME Phase1, NEW A \in kSubset(MaxActive, Thread \ {Main}), create_threads(A) PROVE Manned'
  <2>1. \A u \in Thread : u \notin A => Done(u)'
    BY <1>2 DEF create_threads, Done
  <2>2. Main \notin A
    BY <1>2 DEF kSubset
  <2> QED
    BY <1>2, <2>1, <2>2, ComAssumption DEF Manned
<1>3. CASE UNCHANGED comvars
  BY <1>3 DEF comvars, Manned, Alone, Done
<1> QED
  BY <1>1, <1>2, <1>3, ThreadSteps DEF ComNext

-----------------------------------------------------------------------------
(* Uses *)

(* A thread uses the objects it has locked and the one of its call. *)
Uses(t, o) == Held(t, o, pc[t]) \/ (at[t] # "call" /\ On(t) = o)

TableKept == \A o \in Object, t \in Thread : record[o][t] # "NONE" <=> Uses(t, o)

InUse == \A o \in Object : common_object[o].in_use = Cardinality(Using(o))


(* Main has no handle closed, so what it has open stays open. *)
Has(t, o) == HasOpen(t, o, pc[t]) \/ (at[t] # "call" /\ On(t) = o /\ Calls(t, Opens))
Openers(o) == {t \in Thread : t # Main /\ Has(t, o)}

Refs ==
    \A o \in Object : Has(Main, o) =>
        common_object[o].exists /\ common_object[o].ref_count > Cardinality(Openers(o))

(* The call thread t is in. *)
Op(t) == ProgramOf[t][pc[t]].op

LEMMA CallsOp == \A t, ops : Calls(t, ops) => Op(t) \in ops
  BY DEF Calls, Op

LEMMA Working ==
  ASSUME ComTypeOK, Places, NEW t \in Thread, Active(t)
  PROVE  /\ pc[t] \in 1 .. Len(ProgramOf[t]) /\ pc[t] \in Nat \ {0}
         /\ Op(t) \in OnObjects => On(t) \in Object
         /\ Op(t) \in {"lock", "release"} => On(t) \in Private
         /\ at[t] \in {"wait", "got"} => Op(t) \in {"reader_lock", "writer_lock"}
         /\ at[t] = "found" => Op(t) \in {"create", "open"}
         /\ at[t] = "fill" => Op(t) = "create"
         /\ at[t] = "callbacks" => Op(t) \in {"create", "unlock"}
<1>1. pc[t] \in Nat /\ Len(ProgramOf[t]) \in Nat
  BY ProgramLen DEF ComTypeOK
<1>2. pc[t] \in 1 .. Len(ProgramOf[t]) /\ pc[t] \in Nat \ {0}
  BY <1>1 DEF Active, Created
<1>3. /\ at[t] \in {"wait", "got"} => Op(t) \in {"reader_lock", "writer_lock"}
      /\ at[t] = "found" => Op(t) \in {"create", "open"}
      /\ at[t] = "fill" => Op(t) = "create"
      /\ at[t] = "callbacks" => Op(t) \in {"create", "unlock"}
  BY DEF Places, Calls, Op, Locks, Opens
<1> QED
  BY <1>2, <1>3, StepOn DEF Op, On

(* The callers' discipline at that call. *)
LEMMA Keeping ==
  ASSUME ComTypeOK, Places, NEW t \in Thread, Active(t)
  PROVE  /\ Op(t) \in {"reader_lock", "writer_lock"} =>
               /\ \A p \in Object : Held(t, p, pc[t]) => Rank[p] < Rank[On(t)]
               /\ ~ Held(t, On(t), pc[t])
               /\ t = Main => HasOpen(t, On(t), pc[t])
         /\ Op(t) = "unlock" => Held(t, On(t), pc[t])
         /\ Op(t) \in {"create", "open"} =>
               (\A p \in Object : ~ Held(t, p, pc[t])) /\ (t # Main => ~ HasOpen(t, On(t), pc[t]))
         /\ Op(t) = "close" => HasOpen(t, On(t), pc[t]) /\ ~ Held(t, On(t), pc[t]) /\ t # Main
<1>1. pc[t] \in 1 .. Len(ProgramOf[t]) /\ (Op(t) \in OnObjects => On(t) \in Object)
  BY Working
<1>2. \A ops : IsCall(t, pc[t], ops, On(t)) <=> Op(t) \in ops
  BY DEF IsCall, Op, On
<1>3. CASE Op(t) \in {"reader_lock", "writer_lock"}
  <2>1. On(t) \in Object /\ IsCall(t, pc[t], Locks, On(t))
    BY <1>1, <1>2, <1>3 DEF OnObjects, Locks
  <2> QED
    BY <1>1, <1>3, <2>1, Disciplined
<1>4. CASE Op(t) \in {"create", "open"}
  <2>1. On(t) \in Object /\ IsCall(t, pc[t], Opens, On(t))
    BY <1>1, <1>2, <1>4 DEF OnObjects, Opens
  <2> QED
    BY <1>1, <1>4, <2>1, Disciplined
<1>5. CASE Op(t) = "unlock"
  <2>1. On(t) \in Object /\ IsCall(t, pc[t], {"unlock"}, On(t))
    BY <1>1, <1>2, <1>5 DEF OnObjects
  <2> QED
    BY <1>1, <1>5, <2>1, Disciplined
<1>6. CASE Op(t) = "close"
  <2>1. On(t) \in Object /\ IsCall(t, pc[t], {"close"}, On(t))
    BY <1>1, <1>2, <1>6 DEF OnObjects
  <2> QED
    BY <1>1, <1>6, <2>1, Disciplined
<1> QED
  BY <1>3, <1>4, <1>5, <1>6

LEMMA UsesOthers ==
  ASSUME ComTypeOK, NEW t \in Thread, Steps(t), NEW u \in Thread, u # t, NEW o
  PROVE  (Uses(u, o)' <=> Uses(u, o)) /\ (Has(u, o)' <=> Has(u, o))
<1>1. pc'[u] = pc[u] /\ at'[u] = at[u] /\ On(u)' = On(u) /\ (Calls(u, Opens)' <=> Calls(u, Opens))
  BY StepsOthers
<1> QED
  BY <1>1 DEF Uses, Has

LEMMA AfterReturn ==
  ASSUME ComTypeOK, NEW t \in Thread, Active(t), Return(t), NEW o
  PROVE  /\ at'[t] = "call" /\ pc'[t] = pc[t] + 1
         /\ Held(t, o, pc'[t]) <=>
               (Op(t) \in {"reader_lock", "writer_lock"} /\ On(t) = o) \/ (Held(t, o, pc[t]) /\ ~ (Op(t) = "unlock" /\ On(t) = o))
         /\ Uses(t, o)' <=> Held(t, o, pc'[t])
         /\ Has(t, o)' <=>
               (Op(t) \in {"create", "open"} /\ On(t) = o) \/ (HasOpen(t, o, pc[t]) /\ ~ (Op(t) = "close" /\ On(t) = o))
<1>1. pc[t] \in Nat \ {0} /\ pc'[t] = pc[t] + 1 /\ at'[t] = "call"
  BY DEF Active, Created, Return, ComTypeOK
<1>2. Uses(t, o)' <=> Held(t, o, pc[t] + 1)
  BY <1>1 DEF Uses
<1>3. Has(t, o)' <=> HasOpen(t, o, pc[t] + 1)
  BY <1>1 DEF Has
<1>4. \A ops : IsCall(t, pc[t], ops, o) <=> Op(t) \in ops /\ On(t) = o
  BY DEF IsCall, Op, On
<1>5. Held(t, o, pc[t] + 1) <=>
          (Op(t) \in {"reader_lock", "writer_lock"} /\ On(t) = o) \/ (Held(t, o, pc[t]) /\ ~ (Op(t) = "unlock" /\ On(t) = o))
  <2>1. Held(t, o, pc[t] + 1) <=>
            IsCall(t, pc[t], Locks, o) \/ (Held(t, o, pc[t]) /\ ~ IsCall(t, pc[t], {"unlock"}, o))
    BY <1>1, HeldNext
  <2> QED
    BY <1>4, <2>1 DEF Locks
<1>6. HasOpen(t, o, pc[t] + 1) <=>
          (Op(t) \in {"create", "open"} /\ On(t) = o) \/ (HasOpen(t, o, pc[t]) /\ ~ (Op(t) = "close" /\ On(t) = o))
  <2>1. HasOpen(t, o, pc[t] + 1) <=>
            IsCall(t, pc[t], Opens, o) \/ (HasOpen(t, o, pc[t]) /\ ~ IsCall(t, pc[t], {"close"}, o))
    BY <1>1, OpenNext
  <2> QED
    BY <1>4, <2>1 DEF Opens
<1> QED
  BY <1>1, <1>2, <1>3, <1>5, <1>6

LEMMA AfterGoTo ==
  ASSUME ComTypeOK, NEW t \in Thread, Active(t), NEW w, w # "call", GoTo(t, w), NEW o
  PROVE  /\ pc' = pc /\ at'[t] = w /\ On(t)' = On(t)
         /\ Uses(t, o)' <=> Held(t, o, pc[t]) \/ On(t) = o
         /\ Has(t, o)' <=> HasOpen(t, o, pc[t]) \/ (On(t) = o /\ Op(t) \in {"create", "open"})
<1>1. pc' = pc /\ at'[t] = w /\ On(t)' = On(t) /\ (Calls(t, Opens)' <=> Op(t) \in {"create", "open"})
  BY DEF GoTo, ComTypeOK, On, Op, Calls, Opens, Active, Created
<1> QED
  BY <1>1 DEF Uses, Has

LEMMA Before ==
  ASSUME ComTypeOK, NEW t \in Thread, Active(t), NEW o
  PROVE  /\ Uses(t, o) <=> Held(t, o, pc[t]) \/ (at[t] # "call" /\ On(t) = o)
         /\ Has(t, o) <=> HasOpen(t, o, pc[t]) \/ (at[t] # "call" /\ On(t) = o /\ Op(t) \in {"create", "open"})
  BY DEF Uses, Has, Calls, Op, Opens, Active

(* When the threads are created nobody uses anything. *)
LEMMA Created1 ==
  ASSUME ComTypeOK, Places, Phase1, NEW A \in kSubset(MaxActive, Thread \ {Main}), create_threads(A),
         NEW t \in Thread, NEW o \in Object
  PROVE  /\ at' = at /\ at[t] = "call"
         /\ ~ Uses(t, o) /\ ~ Uses(t, o)'
         /\ Has(t, o) <=> t = Main
         /\ Has(t, o)' <=> t = Main
<1>1. pc[t] \in Nat /\ Len(ProgramOf[t]) \in Nat /\ pc[t] <= Len(ProgramOf[t]) + 1
  BY ProgramLen DEF Places, ComTypeOK
<1>2. IF t = Main THEN pc[t] = Len(ProgramOf[t]) + 1 ELSE pc[t] = 0
  BY <1>1 DEF Phase1, Created
<1>3. \A ops : ~ Calls(t, ops)
  BY <1>1, <1>2 DEF Calls, Created
<1>4. at' = at /\ at[t] = "call"
  <2>1. at[t] \in {"call", "found", "fill", "wait", "got", "callbacks"}
    BY DEF ComTypeOK
  <2> QED
    BY <1>3, <2>1 DEF Places, create_threads
<1>5. pc'[t] = 1 \/ pc'[t] = Len(ProgramOf[t]) + 1
  BY DEF create_threads
<1>6. t = Main => pc'[t] = Len(ProgramOf[t]) + 1
  BY DEF create_threads, kSubset
<1>7. ~ Held(t, o, 0) /\ ~ Held(t, o, 1) /\ ~ HasOpen(t, o, 0) /\ ~ HasOpen(t, o, 1)
  BY NothingBefore
<1>8. ~ Held(t, o, Len(ProgramOf[t]) + 1) /\ (HasOpen(t, o, Len(ProgramOf[t]) + 1) <=> t = Main)
  BY AtEnd
<1>9. (Uses(t, o) <=> Held(t, o, pc[t])) /\ (Uses(t, o)' <=> Held(t, o, pc'[t]))
  BY <1>4 DEF Uses
<1>10. (Has(t, o) <=> HasOpen(t, o, pc[t])) /\ (Has(t, o)' <=> HasOpen(t, o, pc'[t]))
  BY <1>4 DEF Has
<1> QED
  BY <1>2, <1>4, <1>5, <1>6, <1>7, <1>8, <1>9, <1>10

(* Main has open what anybody uses. *)
LEMMA MainHas ==
  ASSUME ComTypeOK, Places, Manned, NEW t \in Thread, NEW o \in Object, Uses(t, o)
  PROVE  Has(Main, o)
<1> USE ComAssumption
<1>1. CASE Done(Main)
  <2>1. HasOpen(Main, o, pc[Main])
    BY <1>1, AtEnd DEF Done
  <2> QED
    BY <2>1 DEF Has
<1>2. CASE Alone /\ t # Main
  <2>1. pc[t] = 0
    BY <1>2 DEF Alone
  <2>2. ~ Held(t, o, 0)
    BY NothingBefore
  <2>3. at[t] = "call"
    BY <2>1 DEF Places, Calls, Created, ComTypeOK
  <2> QED
    BY <2>1, <2>2, <2>3 DEF Uses
<1>3. CASE t = Main /\ Held(t, o, pc[t]) /\ pc[t] <= Len(ProgramOf[t])
  <2>1. PICK m \in 1 .. pc[t] - 1 : IsCall(t, m, Locks, o)
    BY <1>3 DEF Held, Locks
  <2>2. m \in 1 .. Len(ProgramOf[t]) /\ pc[t] \in Nat /\ Len(ProgramOf[t]) \in Nat
    BY <1>3, ProgramLen DEF ComTypeOK
  <2>3. HasOpen(t, o, m)
    BY <1>3, <2>1, <2>2, Disciplined
  <2>4. PICK j \in 1 .. m - 1 : IsCall(t, j, Opens, o)
    BY <2>3 DEF HasOpen, Opens
  <2>5. j \in 1 .. pc[t] - 1
    BY <2>1, <2>2, <2>4
  <2>6. \A k \in j + 1 .. pc[t] - 1 : ~ IsCall(t, k, {"close"}, o)
    <3>1. ASSUME NEW k \in j + 1 .. pc[t] - 1 PROVE k \in 1 .. Len(ProgramOf[t])
      BY <1>3, <2>2, <2>5
    <3> QED
      BY <1>3, <3>1, Disciplined
  <2> QED
    BY <1>3, <2>4, <2>5, <2>6 DEF HasOpen, Opens, Has
<1>4. CASE t = Main /\ ~ Held(t, o, pc[t]) /\ pc[t] <= Len(ProgramOf[t])
  <2>1. at[t] # "call" /\ On(t) = o
    BY <1>4 DEF Uses
  <2>2. Active(t)
    BY <1>4, <2>1 DEF Places, Calls, Created, Active, ComTypeOK
  <2>3. Op(t) \in {"reader_lock", "writer_lock", "create", "open", "unlock"}
    <3>1. at[t] \in {"found", "fill", "wait", "got", "callbacks"}
      BY <2>1 DEF ComTypeOK
    <3> QED
      BY <2>2, <3>1, Working
  <2>4. Op(t) # "unlock" /\ (Op(t) \in {"reader_lock", "writer_lock"} => HasOpen(t, o, pc[t]))
    BY <1>4, <2>1, <2>2, Keeping
  <2>5. Has(t, o) <=> HasOpen(t, o, pc[t]) \/ (at[t] # "call" /\ On(t) = o /\ Op(t) \in {"create", "open"})
    BY <2>2, Before
  <2> QED
    BY <1>4, <2>1, <2>3, <2>4, <2>5
<1>5. pc[Main] <= Len(ProgramOf[Main]) \/ Done(Main)
  BY ProgramLen DEF Places, Done, ComTypeOK
<1> QED
  BY <1>1, <1>2, <1>3, <1>4, <1>5 DEF Manned

(* A step of a thread leaves its uses as they are, or begins or ends the   *)
(* use of the object of its call.                                          *)
UseKept(t) ==
    \A o \in Object : /\ Uses(t, o)' <=> Uses(t, o)
                      /\ common_object'[o].in_use = common_object[o].in_use
                      /\ \A u \in Thread : record'[o][u] = "NONE" <=> record[o][u] = "NONE"
UseChanges(t, x) ==
    \A o \in Object : o # x =>
        /\ Uses(t, o)' <=> Uses(t, o)
        /\ common_object'[o].in_use = common_object[o].in_use
        /\ \A u \in Thread : record'[o][u] = record[o][u]
UseBegins(t, x) ==
    /\ UseChanges(t, x) /\ ~ Uses(t, x) /\ Uses(t, x)'
    /\ record'[x] = [record[x] EXCEPT ![t] = record'[x][t]] /\ record'[x][t] # "NONE"
    /\ common_object'[x].in_use = common_object[x].in_use + 1
UseEnds(t, x) ==
    /\ UseChanges(t, x) /\ Uses(t, x) /\ ~ Uses(t, x)'
    /\ record'[x] = [record[x] EXCEPT ![t] = "NONE"]
    /\ common_object'[x].in_use = common_object[x].in_use - 1

(* The call each step belongs to. *)
LEMMA CallOf ==
  ASSUME ComTypeOK, Places, NEW t \in Thread, Active(t)
  PROVE  /\ com_create_new(t) => Op(t) \in {"create", "open"} /\ at[t] = "call" /\ On(t) \in Object
         /\ com_create_found(t) => Op(t) \in {"create", "open"} /\ at[t] = "call" /\ On(t) \in Object
         /\ com_create_fill(t) => Op(t) = "create" /\ at[t] = "found" /\ On(t) \in Object
         /\ com_create_callbacks(t) => Op(t) = "create" /\ at[t] = "fill" /\ On(t) \in Object
         /\ com_create_done(t) => Op(t) \in {"create", "open"} /\ at[t] = "found" /\ On(t) \in Object
         /\ com_close(t) => Op(t) = "close" /\ at[t] = "call" /\ On(t) \in Object
         /\ com_register_callback(t) => Op(t) = "register" /\ at[t] = "call" /\ On(t) \in Object
         /\ com_lock_enter(t) => Op(t) \in {"reader_lock", "writer_lock"} /\ at[t] = "call" /\ On(t) \in Object
         /\ com_lock_wait(t) => Op(t) \in {"reader_lock", "writer_lock"} /\ at[t] = "wait" /\ On(t) \in Object
         /\ com_lock_return(t) => Op(t) \in {"reader_lock", "writer_lock"} /\ at[t] = "got" /\ On(t) \in Object
         /\ com_reader_unlock(t) => Op(t) = "unlock" /\ On(t) \in Object
         /\ com_writer_unlock_enter(t) => Op(t) = "unlock" /\ at[t] = "call" /\ On(t) \in Object
         /\ RunCallback(t) => Op(t) \in {"create", "unlock"} /\ at[t] = "callbacks" /\ On(t) \in Object
         /\ com_writer_unlock(t) => Op(t) \in {"create", "unlock"} /\ at[t] = "callbacks" /\ On(t) \in Object
         /\ PrivateLock(t) => Op(t) = "lock" /\ at[t] = "call"
         /\ PrivateRelease(t) => Op(t) = "release" /\ at[t] = "call"
<1>1. at[t] \in {"call", "found", "fill", "wait", "got", "callbacks"}
  BY DEF ComTypeOK
<1>2. ASSUME com_create_new(t) PROVE Op(t) \in {"create", "open"} /\ at[t] = "call" /\ On(t) \in Object
  <2>1. Op(t) \in {"create", "open"}
    BY <1>2, Working DEF com_create_new, Calls, Op
  <2> QED
    BY <1>1, <1>2, <2>1, Working DEF com_create_new, OnObjects
<1>3. ASSUME com_create_found(t) PROVE Op(t) \in {"create", "open"} /\ at[t] = "call" /\ On(t) \in Object
  <2>1. Op(t) \in {"create", "open"}
    BY <1>3, Working DEF com_create_found, Calls, Op
  <2> QED
    BY <1>1, <1>3, <2>1, Working DEF com_create_found, OnObjects
<1>4. ASSUME com_create_fill(t) PROVE Op(t) = "create" /\ at[t] = "found" /\ On(t) \in Object
  <2>1. Op(t) = "create"
    BY <1>4, Working DEF com_create_fill, Calls, Op
  <2> QED
    BY <1>1, <1>4, <2>1, Working DEF com_create_fill, OnObjects
<1>5. ASSUME com_create_callbacks(t) PROVE Op(t) = "create" /\ at[t] = "fill" /\ On(t) \in Object
  <2>1. Op(t) = "create"
    BY <1>5, Working DEF com_create_callbacks, Calls, Op
  <2> QED
    BY <1>1, <1>5, <2>1, Working DEF com_create_callbacks, OnObjects
<1>6. ASSUME com_create_done(t) PROVE Op(t) \in {"create", "open"} /\ at[t] = "found" /\ On(t) \in Object
  <2>1. Op(t) \in {"create", "open"}
    BY <1>6, Working DEF com_create_done, Calls, Op
  <2> QED
    BY <1>1, <1>6, <2>1, Working DEF com_create_done, OnObjects
<1>7. ASSUME com_close(t) PROVE Op(t) = "close" /\ at[t] = "call" /\ On(t) \in Object
  <2>1. Op(t) = "close"
    BY <1>7, Working DEF com_close, Calls, Op
  <2> QED
    BY <1>1, <1>7, <2>1, Working DEF com_close, OnObjects
<1>8. ASSUME com_register_callback(t) PROVE Op(t) = "register" /\ at[t] = "call" /\ On(t) \in Object
  <2>1. Op(t) = "register"
    BY <1>8, Working DEF com_register_callback, Calls, Op
  <2> QED
    BY <1>1, <1>8, <2>1, Working DEF com_register_callback, OnObjects
<1>9. ASSUME com_lock_enter(t) PROVE Op(t) \in {"reader_lock", "writer_lock"} /\ at[t] = "call" /\ On(t) \in Object
  <2>1. Op(t) \in {"reader_lock", "writer_lock"}
    BY <1>9, Working DEF com_lock_enter, Calls, Op
  <2> QED
    BY <1>1, <1>9, <2>1, Working DEF com_lock_enter, OnObjects
<1>10. ASSUME com_lock_wait(t) PROVE Op(t) \in {"reader_lock", "writer_lock"} /\ at[t] = "wait" /\ On(t) \in Object
  <2>1. Op(t) \in {"reader_lock", "writer_lock"}
    BY <1>10, Working DEF com_lock_wait, Calls, Op
  <2> QED
    BY <1>1, <1>10, <2>1, Working DEF com_lock_wait, OnObjects
<1>11. ASSUME com_lock_return(t) PROVE Op(t) \in {"reader_lock", "writer_lock"} /\ at[t] = "got" /\ On(t) \in Object
  <2>1. Op(t) \in {"reader_lock", "writer_lock"}
    BY <1>11, Working DEF com_lock_return, Calls, Op
  <2> QED
    BY <1>1, <1>11, <2>1, Working DEF com_lock_return, OnObjects
<1>12. ASSUME com_reader_unlock(t) PROVE Op(t) = "unlock" /\ On(t) \in Object
  <2>1. Op(t) = "unlock"
    BY <1>12, Working DEF com_reader_unlock, Calls, Op
  <2> QED
    BY <1>1, <1>12, <2>1, Working DEF com_reader_unlock, OnObjects
<1>13. ASSUME com_writer_unlock_enter(t) PROVE Op(t) = "unlock" /\ at[t] = "call" /\ On(t) \in Object
  <2>1. Op(t) = "unlock"
    BY <1>13, Working DEF com_writer_unlock_enter, Calls, Op
  <2> QED
    BY <1>1, <1>13, <2>1, Working DEF com_writer_unlock_enter, OnObjects
<1>14. ASSUME RunCallback(t) PROVE Op(t) \in {"create", "unlock"} /\ at[t] = "callbacks" /\ On(t) \in Object
  <2>1. Op(t) \in {"create", "unlock"}
    BY <1>14, Working DEF RunCallback, Calls, Op
  <2> QED
    BY <1>1, <1>14, <2>1, Working DEF RunCallback, OnObjects
<1>15. ASSUME com_writer_unlock(t) PROVE Op(t) \in {"create", "unlock"} /\ at[t] = "callbacks" /\ On(t) \in Object
  <2>1. Op(t) \in {"create", "unlock"}
    BY <1>15, Working DEF com_writer_unlock, Calls, Op
  <2> QED
    BY <1>1, <1>15, <2>1, Working DEF com_writer_unlock, OnObjects
<1>16. ASSUME PrivateLock(t) PROVE Op(t) = "lock" /\ at[t] = "call"
  <2>1. Op(t) = "lock"
    BY <1>16, Working DEF PrivateLock, Calls, Op
  <2> QED
    BY <1>1, <1>16, <2>1, Working DEF PrivateLock, OnObjects
<1>17. ASSUME PrivateRelease(t) PROVE Op(t) = "release" /\ at[t] = "call"
  <2>1. Op(t) = "release"
    BY <1>17, Working DEF PrivateRelease, Calls, Op
  <2> QED
    BY <1>1, <1>17, <2>1, Working DEF PrivateRelease, OnObjects
<1> QED
  BY <1>2, <1>3, <1>4, <1>5, <1>6, <1>7, <1>8, <1>9, <1>10, <1>11, <1>12, <1>13, <1>14, <1>15,
     <1>16, <1>17

LEMMA UseStep ==
  ASSUME ComTypeOK, Places, Manned, TableKept, InUse, Refs,
         NEW t \in Thread, Active(t), ComThread(t)
  PROVE  UseKept(t) \/ \E x \in Object : UseBegins(t, x) \/ UseEnds(t, x)
<1>1. ASSUME com_create_new(t) PROVE UseKept(t)
  <2>1. Op(t) \in {"create", "open"} /\ at[t] = "call" /\ On(t) \in Object
    BY <1>1, CallOf
  <2>2. \A o \in Object : Uses(t, o)' <=>
            \/ Op(t) \in {"reader_lock", "writer_lock"} /\ On(t) = o
            \/ Held(t, o, pc[t]) /\ ~ (Op(t) = "unlock" /\ On(t) = o)
    BY <1>1, AfterReturn DEF com_create_new
  <2>3. \A o \in Object : Uses(t, o) <=> Held(t, o, pc[t]) \/ (at[t] # "call" /\ On(t) = o)
    BY <1>1, Before
  <2>5. record' = record
    BY <1>1 DEF com_create_new
  <2>6. common_object[On(t)].in_use = 0
    <3>1. ~ Has(Main, On(t))
      BY <1>1, <2>1 DEF com_create_new, Refs
    <3>2. Using(On(t)) = {}
      BY <2>1, <3>1, MainHas DEF TableKept, Using
    <3> QED
      BY <2>1, <3>2, FS_EmptySet DEF InUse
  <2>7. \A o \in Object : common_object'[o].in_use = common_object[o].in_use
    BY <1>1, <2>1, <2>6 DEF com_create_new, Absent, ComTypeOK
  <2>8. \A o \in Object : Uses(t, o)' <=> Uses(t, o)
    BY <1>1, <2>1, <2>2, <2>3, Keeping
  <2> QED
    BY <2>5, <2>7, <2>8 DEF UseKept
<1>2. ASSUME com_create_found(t) PROVE \E x \in Object : UseBegins(t, x)
  <2>1. Op(t) \in {"create", "open"} /\ at[t] = "call" /\ On(t) \in Object
    BY <1>2, CallOf
  <2>2. \A o \in Object : Uses(t, o)' <=> Held(t, o, pc[t]) \/ On(t) = o
    BY <1>2, AfterGoTo DEF com_create_found
  <2>3. \A o \in Object : Uses(t, o) <=> Held(t, o, pc[t]) \/ (at[t] # "call" /\ On(t) = o)
    BY <1>2, Before
  <2>30. PICK x \in Object : x = On(t)
    BY <2>1
  <2>4. /\ record'[x] = [record[x] EXCEPT ![t] = record'[x][t]] /\ record'[x][t] # "NONE"
        /\ \A o \in Object : o # x => record'[o] = record[o]
    BY <1>2, <2>1, <2>30 DEF com_create_found, set_thread_id_record, ComTypeOK
  <2>5. /\ common_object'[x].in_use = common_object[x].in_use + 1
        /\ \A o \in Object : o # x => common_object'[o].in_use = common_object[o].in_use
    BY <1>2, <2>1, <2>30 DEF com_create_found, ComTypeOK
  <2>6. \A o \in Object : o # x => (Uses(t, o)' <=> Uses(t, o))
    BY <2>1, <2>2, <2>3, <2>30
  <2>7. ~ Uses(t, x) /\ Uses(t, x)'
    BY <1>2, <2>1, <2>2, <2>3, <2>30, Keeping
  <2> QED
    BY <2>4, <2>5, <2>6, <2>7 DEF UseBegins, UseChanges
<1>3. ASSUME com_create_fill(t) PROVE UseKept(t)
  <2>1. Op(t) = "create" /\ at[t] = "found" /\ On(t) \in Object
    BY <1>3, CallOf
  <2>2. \A o \in Object : Uses(t, o)' <=> Held(t, o, pc[t]) \/ On(t) = o
    BY <1>3, AfterGoTo DEF com_create_fill
  <2>3. \A o \in Object : Uses(t, o) <=> Held(t, o, pc[t]) \/ (at[t] # "call" /\ On(t) = o)
    BY <1>3, Before
  <2>5. record' = record
    BY <1>3 DEF com_create_fill
  <2>7. \A o \in Object : common_object'[o].in_use = common_object[o].in_use
    BY <1>3, <2>1 DEF com_create_fill, ComTypeOK
  <2>8. \A o \in Object : Uses(t, o)' <=> Uses(t, o)
    BY <1>3, <2>1, <2>2, <2>3, Keeping
  <2> QED
    BY <2>5, <2>7, <2>8 DEF UseKept
<1>4. ASSUME com_create_callbacks(t) PROVE UseKept(t)
  <2>1. Op(t) = "create" /\ at[t] = "fill" /\ On(t) \in Object
    BY <1>4, CallOf
  <2>2. \A o \in Object : Uses(t, o)' <=> Held(t, o, pc[t]) \/ On(t) = o
    BY <1>4, AfterGoTo DEF com_create_callbacks
  <2>3. \A o \in Object : Uses(t, o) <=> Held(t, o, pc[t]) \/ (at[t] # "call" /\ On(t) = o)
    BY <1>4, Before
  <2>4. record[On(t)][t] # "NONE"
    BY <2>1, <2>3 DEF TableKept
  <2>5. \A o \in Object, u \in Thread : record'[o][u] = "NONE" <=> record[o][u] = "NONE"
    BY <1>4, <2>1, <2>4 DEF com_create_callbacks, set_thread_id_record, ComTypeOK
  <2>7. \A o \in Object : common_object'[o].in_use = common_object[o].in_use
    BY <1>4, <2>1 DEF com_create_callbacks, ComTypeOK
  <2>8. \A o \in Object : Uses(t, o)' <=> Uses(t, o)
    BY <1>4, <2>1, <2>2, <2>3, Keeping
  <2> QED
    BY <2>5, <2>7, <2>8 DEF UseKept
<1>5. ASSUME com_create_done(t) PROVE \E x \in Object : UseEnds(t, x)
  <2>1. Op(t) \in {"create", "open"} /\ at[t] = "found" /\ On(t) \in Object
    BY <1>5, CallOf
  <2>2. \A o \in Object : Uses(t, o)' <=>
            \/ Op(t) \in {"reader_lock", "writer_lock"} /\ On(t) = o
            \/ Held(t, o, pc[t]) /\ ~ (Op(t) = "unlock" /\ On(t) = o)
    BY <1>5, AfterReturn DEF com_create_done
  <2>3. \A o \in Object : Uses(t, o) <=> Held(t, o, pc[t]) \/ (at[t] # "call" /\ On(t) = o)
    BY <1>5, Before
  <2>30. PICK x \in Object : x = On(t)
    BY <2>1
  <2>4. /\ record'[x] = [record[x] EXCEPT ![t] = "NONE"]
        /\ \A o \in Object : o # x => record'[o] = record[o]
    BY <1>5, <2>1, <2>30 DEF com_create_done, set_thread_id_record, ComTypeOK
  <2>5. /\ common_object'[x].in_use = common_object[x].in_use - 1
        /\ \A o \in Object : o # x => common_object'[o].in_use = common_object[o].in_use
    BY <1>5, <2>1, <2>30 DEF com_create_done, ComTypeOK
  <2>6. \A o \in Object : o # x => (Uses(t, o)' <=> Uses(t, o))
    BY <2>1, <2>2, <2>3, <2>30
  <2>7. Uses(t, x) /\ ~ Uses(t, x)'
    BY <1>5, <2>1, <2>2, <2>3, <2>30, Keeping
  <2> QED
    BY <2>4, <2>5, <2>6, <2>7 DEF UseEnds, UseChanges
<1>6. ASSUME com_close(t) PROVE UseKept(t)
  <2>1. Op(t) = "close" /\ at[t] = "call" /\ On(t) \in Object
    BY <1>6, CallOf
  <2>2. \A o \in Object : Uses(t, o)' <=>
            \/ Op(t) \in {"reader_lock", "writer_lock"} /\ On(t) = o
            \/ Held(t, o, pc[t]) /\ ~ (Op(t) = "unlock" /\ On(t) = o)
    BY <1>6, AfterReturn DEF com_close
  <2>3. \A o \in Object : Uses(t, o) <=> Held(t, o, pc[t]) \/ (at[t] # "call" /\ On(t) = o)
    BY <1>6, Before
  <2>5. record' = record
    BY <1>6 DEF com_close
  <2> DEFINE obj == [common_object[On(t)] EXCEPT !.ref_count = IF @ # 0 THEN @ - 1 ELSE @]
  <2>6. \A o \in Object : common_object'[o] =
            IF o # On(t) THEN common_object[o] ELSE IF object_safe_to_delete(obj) THEN Absent ELSE obj
    BY <1>6, <2>1 DEF com_close, ComTypeOK
  <2>7. \A o \in Object : common_object'[o].in_use = common_object[o].in_use
    <3>1. obj.in_use = common_object[On(t)].in_use
      BY <2>1 DEF ComTypeOK
    <3>2. object_safe_to_delete(obj) => obj.in_use = Absent.in_use
      BY DEF object_safe_to_delete, Absent
    <3> HIDE DEF obj
    <3> QED
      BY <2>6, <3>1, <3>2
  <2>8. \A o \in Object : Uses(t, o)' <=> Uses(t, o)
    BY <1>6, <2>1, <2>2, <2>3, Keeping
  <2> QED
    BY <2>5, <2>7, <2>8 DEF UseKept
<1>7. ASSUME com_register_callback(t) PROVE UseKept(t)
  <2>1. Op(t) = "register" /\ at[t] = "call" /\ On(t) \in Object
    BY <1>7, CallOf
  <2>2. \A o \in Object : Uses(t, o)' <=>
            \/ Op(t) \in {"reader_lock", "writer_lock"} /\ On(t) = o
            \/ Held(t, o, pc[t]) /\ ~ (Op(t) = "unlock" /\ On(t) = o)
    BY <1>7, AfterReturn DEF com_register_callback
  <2>3. \A o \in Object : Uses(t, o) <=> Held(t, o, pc[t]) \/ (at[t] # "call" /\ On(t) = o)
    BY <1>7, Before
  <2>5. record' = record
    BY <1>7 DEF com_register_callback
  <2>7. \A o \in Object : common_object'[o].in_use = common_object[o].in_use
    BY <1>7, <2>1 DEF com_register_callback, ComTypeOK
  <2>8. \A o \in Object : Uses(t, o)' <=> Uses(t, o)
    BY <1>7, <2>1, <2>2, <2>3, Keeping
  <2> QED
    BY <2>5, <2>7, <2>8 DEF UseKept
<1>8. ASSUME com_lock_enter(t) PROVE \E x \in Object : UseBegins(t, x)
  <2>1. Op(t) \in {"reader_lock", "writer_lock"} /\ at[t] = "call" /\ On(t) \in Object
    BY <1>8, CallOf
  <2>2. \A o \in Object : Uses(t, o)' <=> Held(t, o, pc[t]) \/ On(t) = o
    BY <1>8, AfterGoTo DEF com_lock_enter
  <2>3. \A o \in Object : Uses(t, o) <=> Held(t, o, pc[t]) \/ (at[t] # "call" /\ On(t) = o)
    BY <1>8, Before
  <2>30. PICK x \in Object : x = On(t)
    BY <2>1
  <2>4. /\ record'[x] = [record[x] EXCEPT ![t] = record'[x][t]] /\ record'[x][t] # "NONE"
        /\ \A o \in Object : o # x => record'[o] = record[o]
    BY <1>8, <2>1, <2>30 DEF com_lock_enter, set_thread_id_record, ComTypeOK
  <2>5. /\ common_object'[x].in_use = common_object[x].in_use + 1
        /\ \A o \in Object : o # x => common_object'[o].in_use = common_object[o].in_use
    BY <1>8, <2>1, <2>30 DEF com_lock_enter, ComTypeOK
  <2>6. \A o \in Object : o # x => (Uses(t, o)' <=> Uses(t, o))
    BY <2>1, <2>2, <2>3, <2>30
  <2>7. ~ Uses(t, x) /\ Uses(t, x)'
    BY <1>8, <2>1, <2>2, <2>3, <2>30, Keeping
  <2> QED
    BY <2>4, <2>5, <2>6, <2>7 DEF UseBegins, UseChanges
<1>9. ASSUME com_lock_wait(t) PROVE UseKept(t)
  <2>1. Op(t) \in {"reader_lock", "writer_lock"} /\ at[t] = "wait" /\ On(t) \in Object
    BY <1>9, CallOf
  <2>2. \A o \in Object : Uses(t, o)' <=> Held(t, o, pc[t]) \/ On(t) = o
    BY <1>9, AfterGoTo DEF com_lock_wait
  <2>3. \A o \in Object : Uses(t, o) <=> Held(t, o, pc[t]) \/ (at[t] # "call" /\ On(t) = o)
    BY <1>9, Before
  <2>5. record' = record
    BY <1>9 DEF com_lock_wait
  <2>7. \A o \in Object : common_object'[o].in_use = common_object[o].in_use
    BY <1>9, <2>1 DEF com_lock_wait, ComTypeOK
  <2>8. \A o \in Object : Uses(t, o)' <=> Uses(t, o)
    BY <1>9, <2>1, <2>2, <2>3, Keeping
  <2> QED
    BY <2>5, <2>7, <2>8 DEF UseKept
<1>10. ASSUME com_lock_return(t) PROVE UseKept(t)
  <2>1. Op(t) \in {"reader_lock", "writer_lock"} /\ at[t] = "got" /\ On(t) \in Object
    BY <1>10, CallOf
  <2>2. \A o \in Object : Uses(t, o)' <=>
            \/ Op(t) \in {"reader_lock", "writer_lock"} /\ On(t) = o
            \/ Held(t, o, pc[t]) /\ ~ (Op(t) = "unlock" /\ On(t) = o)
    BY <1>10, AfterReturn DEF com_lock_return
  <2>3. \A o \in Object : Uses(t, o) <=> Held(t, o, pc[t]) \/ (at[t] # "call" /\ On(t) = o)
    BY <1>10, Before
  <2>4. record[On(t)][t] # "NONE"
    BY <2>1, <2>3 DEF TableKept
  <2>5. \A o \in Object, u \in Thread : record'[o][u] = "NONE" <=> record[o][u] = "NONE"
    BY <1>10, <2>1, <2>4 DEF com_lock_return, set_thread_id_record, ComTypeOK
  <2>7. \A o \in Object : common_object'[o].in_use = common_object[o].in_use
    BY <1>10, <2>1 DEF com_lock_return, ComTypeOK
  <2>8. \A o \in Object : Uses(t, o)' <=> Uses(t, o)
    BY <1>10, <2>1, <2>2, <2>3, Keeping
  <2> QED
    BY <2>5, <2>7, <2>8 DEF UseKept
<1>11. ASSUME com_reader_unlock(t) PROVE \E x \in Object : UseEnds(t, x)
  <2>1. Op(t) = "unlock" /\ On(t) \in Object
    BY <1>11, CallOf
  <2>2. \A o \in Object : Uses(t, o)' <=>
            \/ Op(t) \in {"reader_lock", "writer_lock"} /\ On(t) = o
            \/ Held(t, o, pc[t]) /\ ~ (Op(t) = "unlock" /\ On(t) = o)
    BY <1>11, AfterReturn DEF com_reader_unlock
  <2>3. \A o \in Object : Uses(t, o) <=> Held(t, o, pc[t]) \/ (at[t] # "call" /\ On(t) = o)
    BY <1>11, Before
  <2>30. PICK x \in Object : x = On(t)
    BY <2>1
  <2>4. /\ record'[x] = [record[x] EXCEPT ![t] = "NONE"]
        /\ \A o \in Object : o # x => record'[o] = record[o]
    BY <1>11, <2>1, <2>30 DEF com_reader_unlock, set_thread_id_record, ComTypeOK
  <2>5. /\ common_object'[x].in_use = common_object[x].in_use - 1
        /\ \A o \in Object : o # x => common_object'[o].in_use = common_object[o].in_use
    BY <1>11, <2>1, <2>30 DEF com_reader_unlock, ComTypeOK
  <2>6. \A o \in Object : o # x => (Uses(t, o)' <=> Uses(t, o))
    BY <2>1, <2>2, <2>3, <2>30
  <2>7. Uses(t, x) /\ ~ Uses(t, x)'
    BY <1>11, <2>1, <2>2, <2>3, <2>30, Keeping
  <2> QED
    BY <2>4, <2>5, <2>6, <2>7 DEF UseEnds, UseChanges
<1>12. ASSUME com_writer_unlock_enter(t) PROVE UseKept(t)
  <2>1. Op(t) = "unlock" /\ at[t] = "call" /\ On(t) \in Object
    BY <1>12, CallOf
  <2>2. \A o \in Object : Uses(t, o)' <=> Held(t, o, pc[t]) \/ On(t) = o
    BY <1>12, AfterGoTo DEF com_writer_unlock_enter
  <2>3. \A o \in Object : Uses(t, o) <=> Held(t, o, pc[t]) \/ (at[t] # "call" /\ On(t) = o)
    BY <1>12, Before
  <2>5. record' = record
    BY <1>12 DEF com_writer_unlock_enter
  <2>7. \A o \in Object : common_object'[o].in_use = common_object[o].in_use
    BY <1>12, <2>1 DEF com_writer_unlock_enter, ComTypeOK
  <2>8. \A o \in Object : Uses(t, o)' <=> Uses(t, o)
    BY <1>12, <2>1, <2>2, <2>3, Keeping
  <2> QED
    BY <2>5, <2>7, <2>8 DEF UseKept
<1>13. ASSUME RunCallback(t) PROVE UseKept(t)
  <2>1. On(t) \in Object
    BY <1>13, Working DEF RunCallback, OnObjects
  <2>2. UNCHANGED <<pc, at, record>>
    BY <1>13 DEF RunCallback
  <2>3. \A o \in Object : Uses(t, o)' <=> Uses(t, o)
    BY <2>2 DEF Uses, On
  <2>4. \A o \in Object : common_object'[o].in_use = common_object[o].in_use
    BY <1>13, <2>1 DEF RunCallback, ComTypeOK
  <2> QED
    BY <2>2, <2>3, <2>4 DEF UseKept
<1>14. ASSUME com_writer_unlock(t) PROVE \E x \in Object : UseEnds(t, x)
  <2>1. Op(t) \in {"create", "unlock"} /\ at[t] = "callbacks" /\ On(t) \in Object
    BY <1>14, CallOf
  <2>2. \A o \in Object : Uses(t, o)' <=>
            \/ Op(t) \in {"reader_lock", "writer_lock"} /\ On(t) = o
            \/ Held(t, o, pc[t]) /\ ~ (Op(t) = "unlock" /\ On(t) = o)
    BY <1>14, AfterReturn DEF com_writer_unlock
  <2>3. \A o \in Object : Uses(t, o) <=> Held(t, o, pc[t]) \/ (at[t] # "call" /\ On(t) = o)
    BY <1>14, Before
  <2>30. PICK x \in Object : x = On(t)
    BY <2>1
  <2>4. /\ record'[x] = [record[x] EXCEPT ![t] = "NONE"]
        /\ \A o \in Object : o # x => record'[o] = record[o]
    BY <1>14, <2>1, <2>30 DEF com_writer_unlock, set_thread_id_record, ComTypeOK
  <2>5. /\ common_object'[x].in_use = common_object[x].in_use - 1
        /\ \A o \in Object : o # x => common_object'[o].in_use = common_object[o].in_use
    BY <1>14, <2>1, <2>30 DEF com_writer_unlock, ComTypeOK
  <2>6. \A o \in Object : o # x => (Uses(t, o)' <=> Uses(t, o))
    BY <2>1, <2>2, <2>3, <2>30
  <2>7. Uses(t, x) /\ ~ Uses(t, x)'
    BY <1>14, <2>1, <2>2, <2>3, <2>30, Keeping
  <2> QED
    BY <2>4, <2>5, <2>6, <2>7 DEF UseEnds, UseChanges
<1>15. ASSUME PrivateLock(t) PROVE UseKept(t)
  <2>1. Op(t) = "lock" /\ at[t] = "call"
    BY <1>15, CallOf
  <2>2. \A o \in Object : Uses(t, o)' <=>
            \/ Op(t) \in {"reader_lock", "writer_lock"} /\ On(t) = o
            \/ Held(t, o, pc[t]) /\ ~ (Op(t) = "unlock" /\ On(t) = o)
    BY <1>15, AfterReturn DEF PrivateLock
  <2>3. \A o \in Object : Uses(t, o) <=> Held(t, o, pc[t]) \/ (at[t] # "call" /\ On(t) = o)
    BY <1>15, Before
  <2>5. record' = record
    BY <1>15 DEF PrivateLock
  <2>7. \A o \in Object : common_object'[o].in_use = common_object[o].in_use
    BY <1>15, <2>1 DEF PrivateLock, ComTypeOK
  <2>8. \A o \in Object : Uses(t, o)' <=> Uses(t, o)
    BY <1>15, <2>1, <2>2, <2>3, Keeping
  <2> QED
    BY <2>5, <2>7, <2>8 DEF UseKept
<1>16. ASSUME PrivateRelease(t) PROVE UseKept(t)
  <2>1. Op(t) = "release" /\ at[t] = "call"
    BY <1>16, CallOf
  <2>2. \A o \in Object : Uses(t, o)' <=>
            \/ Op(t) \in {"reader_lock", "writer_lock"} /\ On(t) = o
            \/ Held(t, o, pc[t]) /\ ~ (Op(t) = "unlock" /\ On(t) = o)
    BY <1>16, AfterReturn DEF PrivateRelease
  <2>3. \A o \in Object : Uses(t, o) <=> Held(t, o, pc[t]) \/ (at[t] # "call" /\ On(t) = o)
    BY <1>16, Before
  <2>5. record' = record
    BY <1>16 DEF PrivateRelease
  <2>7. \A o \in Object : common_object'[o].in_use = common_object[o].in_use
    BY <1>16, <2>1 DEF PrivateRelease, ComTypeOK
  <2>8. \A o \in Object : Uses(t, o)' <=> Uses(t, o)
    BY <1>16, <2>1, <2>2, <2>3, Keeping
  <2> QED
    BY <2>5, <2>7, <2>8 DEF UseKept
<1> QED
  BY <1>1, <1>2, <1>3, <1>4, <1>5, <1>6, <1>7, <1>8, <1>9, <1>10, <1>11, <1>12, <1>13, <1>14,
     <1>15, <1>16
  DEF ComThread

LEMMA UseTableStep ==
  ASSUME ComTypeOK, Places, Manned, TableKept, InUse, Refs, [ComNext]_comvars
  PROVE  TableKept' /\ InUse'
<1>1. ASSUME NEW t \in Thread, Active(t), ComThread(t) PROVE TableKept' /\ InUse'
  <2>1. \A o \in Object, u \in Thread : u # t => (Uses(u, o)' <=> Uses(u, o))
    BY <1>1, ThreadSteps, UsesOthers
  <2>2. CASE UseKept(t)
    <3>1. TableKept'
      BY <2>1, <2>2 DEF UseKept, TableKept
    <3>2. \A o \in Object : Using(o)' = Using(o)
      BY <2>2 DEF UseKept, Using
    <3> QED
      BY <2>2, <3>1, <3>2 DEF UseKept, InUse
  <2>3. ASSUME NEW x \in Object, UseBegins(t, x) PROVE TableKept' /\ InUse'
    <3>0. /\ record'[x][t] # "NONE"
          /\ \A u \in Thread : u # t => record'[x][u] = record[x][u]
          /\ \A o \in Object : o # x => \A u \in Thread : record'[o][u] = record[o][u]
      BY <2>3 DEF UseBegins, UseChanges, ComTypeOK
    <3>1. TableKept'
      <4>1. ASSUME NEW o \in Object, NEW u \in Thread PROVE record'[o][u] # "NONE" <=> Uses(u, o)'
        <5>1. CASE u # t
          BY <2>1, <3>0, <5>1 DEF TableKept
        <5>2. CASE u = t /\ o # x
          BY <2>3, <3>0, <5>2 DEF UseBegins, UseChanges, TableKept
        <5>3. CASE u = t /\ o = x
          BY <2>3, <3>0, <5>3 DEF UseBegins
        <5> QED
          BY <5>1, <5>2, <5>3
      <4> QED
        BY <4>1 DEF TableKept
    <3>2. \A o \in Object : o # x => Using(o)' = Using(o)
      BY <3>0 DEF Using
    <3>3. Using(x)' = Using(x) \cup {t} /\ t \notin Using(x)
      BY <2>3, <3>0 DEF UseBegins, Using, TableKept
    <3>4. IsFiniteSet(Using(x))
      BY ComAssumption, FS_Subset DEF Using
    <3>5. Cardinality(Using(x))' = Cardinality(Using(x)) + 1
      BY <3>3, <3>4, FS_AddElement
    <3> QED
      BY <2>3, <3>1, <3>2, <3>5 DEF UseBegins, UseChanges, InUse
  <2>4. ASSUME NEW x \in Object, UseEnds(t, x) PROVE TableKept' /\ InUse'
    <3>0. /\ record'[x][t] = "NONE"
          /\ \A u \in Thread : u # t => record'[x][u] = record[x][u]
          /\ \A o \in Object : o # x => \A u \in Thread : record'[o][u] = record[o][u]
      BY <2>4 DEF UseEnds, UseChanges, ComTypeOK
    <3>1. TableKept'
      <4>1. ASSUME NEW o \in Object, NEW u \in Thread PROVE record'[o][u] # "NONE" <=> Uses(u, o)'
        <5>1. CASE u # t
          BY <2>1, <3>0, <5>1 DEF TableKept
        <5>2. CASE u = t /\ o # x
          BY <2>4, <3>0, <5>2 DEF UseEnds, UseChanges, TableKept
        <5>3. CASE u = t /\ o = x
          BY <2>4, <3>0, <5>3 DEF UseEnds
        <5> QED
          BY <5>1, <5>2, <5>3
      <4> QED
        BY <4>1 DEF TableKept
    <3>2. \A o \in Object : o # x => Using(o)' = Using(o)
      BY <3>0 DEF Using
    <3>3. Using(x)' = Using(x) \ {t} /\ t \in Using(x)
      BY <2>4, <3>0 DEF UseEnds, Using, TableKept
    <3>4. IsFiniteSet(Using(x))
      BY ComAssumption, FS_Subset DEF Using
    <3>5. Cardinality(Using(x))' = Cardinality(Using(x)) - 1
      BY <3>3, <3>4, FS_RemoveElement
    <3> QED
      BY <2>4, <3>1, <3>2, <3>5 DEF UseEnds, UseChanges, InUse
  <2> QED
    BY <1>1, <2>2, <2>3, <2>4, UseStep
<1>2. ASSUME Phase1, NEW A \in kSubset(MaxActive, Thread \ {Main}), create_threads(A) PROVE TableKept' /\ InUse'
  <2>1. record' = record /\ common_object' = common_object
    BY <1>2 DEF create_threads
  <2>2. \A o \in Object, t \in Thread : ~ Uses(t, o) /\ ~ Uses(t, o)'
    BY <1>2, Created1
  <2> QED
    BY <2>1, <2>2 DEF TableKept, InUse, Using
<1>3. CASE UNCHANGED comvars
  BY <1>3 DEF comvars, TableKept, InUse, Using, Uses, On
<1> QED
  BY <1>1, <1>2, <1>3 DEF ComNext

-----------------------------------------------------------------------------
(* References *)

RefKept(t) ==
    \A o \in Object : /\ Has(t, o)' <=> Has(t, o)
                      /\ common_object'[o].exists = common_object[o].exists
                      /\ common_object'[o].ref_count = common_object[o].ref_count

LEMMA OnlyMain ==
  ASSUME ComTypeOK, Places, Alone, NEW o
  PROVE  Openers(o) = {}
<1>1. ASSUME NEW t \in Thread, t # Main PROVE ~ Has(t, o)
  <2>1. pc[t] = 0
    BY <1>1 DEF Alone
  <2>2. at[t] = "call"
    BY <2>1 DEF Places, Calls, Created, ComTypeOK
  <2>3. ~ HasOpen(t, o, 0)
    BY NothingBefore
  <2> QED
    BY <2>1, <2>2, <2>3 DEF Has
<1> QED
  BY <1>1 DEF Openers

LEMMA MainOrDone ==
  ASSUME ComTypeOK, Places, Manned, NEW t \in Thread, Active(t)
  PROVE  (t = Main /\ Alone) \/ (t # Main /\ \A o \in Object : Has(Main, o))
<1>1. CASE Alone
  BY <1>1 DEF Alone, Active, Created
<1>2. CASE Done(Main)
  <2>1. t # Main
    BY <1>2, ProgramLen, ComAssumption DEF Done, Active, ComTypeOK
  <2>2. \A o \in Object : HasOpen(Main, o, pc[Main])
    BY <1>2, AtEnd, ComAssumption DEF Done
  <2> QED
    BY <2>1, <2>2 DEF Has
<1> QED
  BY <1>1, <1>2 DEF Manned

LEMMA RefKeptRefs ==
  ASSUME ComTypeOK, Refs, NEW t \in Thread, ComThread(t), RefKept(t)
  PROVE  Refs'
<1>1. \A o \in Object, u \in Thread : Has(u, o)' <=> Has(u, o)
  BY ThreadSteps, UsesOthers DEF RefKept
<1>2. \A o \in Object : Openers(o)' = Openers(o)
  BY <1>1 DEF Openers
<1> QED
  BY <1>1, <1>2, ComAssumption DEF Refs, RefKept

LEMMA RefStep ==
  ASSUME ComTypeOK, Places, Manned, Refs,
         NEW t \in Thread, Active(t), ComThread(t)
  PROVE  Refs'
<1>1. ASSUME com_create_new(t) PROVE Refs'
  <2>1. Op(t) \in {"create", "open"} /\ at[t] = "call" /\ On(t) \in Object
    BY <1>1, CallOf
  <2>2. t = Main /\ Alone
    BY <1>1, <2>1, MainOrDone DEF com_create_new, Refs
  <2>3. \A o \in Object : Openers(o)' = {}
    <3>1. \A o \in Object, u \in Thread : u # t => (Has(u, o)' <=> Has(u, o))
      BY ThreadSteps, UsesOthers
    <3> QED
      BY <2>2, <3>1, OnlyMain DEF Openers
  <2>4. \A o \in Object : o # On(t) => (Has(t, o)' <=> Has(t, o)) /\ common_object'[o] = common_object[o]
    <3>1. \A o \in Object : o # On(t) => (Has(t, o)' <=> Has(t, o))
      BY <1>1, <2>1, AfterReturn, Before DEF com_create_new
    <3> QED
      BY <1>1, <2>1, <3>1 DEF com_create_new, ComTypeOK
  <2>5. common_object'[On(t)].exists /\ common_object'[On(t)].ref_count = 1
    BY <1>1, <2>1 DEF com_create_new, Absent, ComTypeOK
  <2>6. Cardinality({}) = 0 /\ \A o \in Object : Openers(o) = {}
    BY <2>2, OnlyMain, FS_EmptySet
  <2> QED
    BY <2>2, <2>3, <2>4, <2>5, <2>6 DEF Refs
<1>2. ASSUME com_create_found(t) PROVE Refs'
  <2>1. Op(t) \in {"create", "open"} /\ at[t] = "call" /\ On(t) \in Object
    BY <1>2, CallOf
  <2>2. \A o \in Object, u \in Thread : u # t => (Has(u, o)' <=> Has(u, o))
    BY ThreadSteps, UsesOthers
  <2>3. /\ \A o \in Object : Has(t, o)' <=> HasOpen(t, o, pc[t]) \/ On(t) = o
        /\ \A o \in Object : Has(t, o) <=> HasOpen(t, o, pc[t])
    BY <1>2, <2>1, AfterGoTo, Before DEF com_create_found
  <2>4. \A o \in Object : /\ common_object'[o].exists = common_object[o].exists
                          /\ common_object'[o].ref_count = common_object[o].ref_count + (IF o = On(t) THEN 1 ELSE 0)
    BY <1>2, <2>1 DEF com_create_found, ComTypeOK
  <2>5. common_object[On(t)].exists /\ \A o \in Object : common_object[o].ref_count \in Nat
    BY <1>2, <2>1 DEF com_create_found, ComTypeOK
  <2>6. CASE t = Main /\ Alone
    <3>1. \A o \in Object : Openers(o)' = {} /\ Openers(o) = {}
      BY <2>2, <2>6, OnlyMain DEF Openers
    <3>2. Cardinality({}) = 0
      BY FS_EmptySet
    <3>3. ASSUME NEW o \in Object, Has(Main, o)'
          PROVE  common_object'[o].exists /\ common_object'[o].ref_count > 0
      <4>1. CASE o = On(t)
        BY <2>4, <2>5, <4>1
      <4>2. CASE o # On(t)
        <5>1. Has(Main, o)
          BY <2>3, <2>6, <3>3, <4>2
        <5>2. common_object[o].exists /\ common_object[o].ref_count > 0
          BY <3>1, <3>2, <5>1 DEF Refs
        <5> QED
          BY <2>4, <2>5, <4>2, <5>2
      <4> QED
        BY <4>1, <4>2
    <3> QED
      BY <3>1, <3>2, <3>3 DEF Refs
  <2>7. CASE t # Main
    <3>1. \A o \in Object : Has(Main, o)' <=> Has(Main, o)
      BY <2>2, <2>7, ComAssumption
    <3>2. \A o \in Object : o # On(t) => Openers(o)' = Openers(o)
      BY <2>2, <2>3 DEF Openers
    <3>3. PICK x \in Object : x = On(t)
      BY <2>1
    <3>4. ~ HasOpen(t, x, pc[t])
      BY <2>1, <2>7, <3>3, Keeping
    <3>5. Openers(x)' = Openers(x) \cup {t} /\ t \notin Openers(x)
      BY <2>2, <2>3, <2>7, <3>3, <3>4 DEF Openers
    <3>6. IsFiniteSet(Openers(x))
      BY ComAssumption, FS_Subset DEF Openers
    <3>7. Cardinality(Openers(x)) \in Nat /\ Cardinality(Openers(x))' = Cardinality(Openers(x)) + 1
      BY <3>5, <3>6, FS_AddElement, FS_CardinalityType
    <3>8. ASSUME NEW o \in Object, Has(Main, o)'
          PROVE  common_object'[o].exists /\ common_object'[o].ref_count > Cardinality(Openers(o))'
      <4>1. common_object[o].exists /\ common_object[o].ref_count > Cardinality(Openers(o))
        BY <3>1, <3>8 DEF Refs
      <4>2. CASE o = x
        BY <2>4, <2>5, <3>3, <3>7, <4>1, <4>2
      <4>3. CASE o # x
        BY <2>4, <2>5, <3>2, <3>3, <4>1, <4>3
      <4> QED
        BY <4>2, <4>3
    <3> QED
      BY <3>8 DEF Refs
  <2> QED
    BY <2>6, <2>7, MainOrDone
<1>3. ASSUME com_create_fill(t) PROVE Refs'
  <2>1. Op(t) = "create" /\ at[t] = "found" /\ On(t) \in Object
    BY <1>3, CallOf
  <2>2. \A o \in Object : Has(t, o)' <=> Has(t, o)
    BY <1>3, <2>1, AfterGoTo, Before, Keeping DEF com_create_fill
  <2>3. \A o \in Object : /\ common_object'[o].exists = common_object[o].exists
                          /\ common_object'[o].ref_count = common_object[o].ref_count
    BY <1>3, <2>1 DEF com_create_fill, ComTypeOK
  <2>4. RefKept(t)
    BY <2>2, <2>3 DEF RefKept
  <2> QED
    BY <2>4, RefKeptRefs
<1>4. ASSUME com_create_callbacks(t) PROVE Refs'
  <2>1. Op(t) = "create" /\ at[t] = "fill" /\ On(t) \in Object
    BY <1>4, CallOf
  <2>2. \A o \in Object : Has(t, o)' <=> Has(t, o)
    BY <1>4, <2>1, AfterGoTo, Before, Keeping DEF com_create_callbacks
  <2>3. \A o \in Object : /\ common_object'[o].exists = common_object[o].exists
                          /\ common_object'[o].ref_count = common_object[o].ref_count
    BY <1>4, <2>1 DEF com_create_callbacks, ComTypeOK
  <2>4. RefKept(t)
    BY <2>2, <2>3 DEF RefKept
  <2> QED
    BY <2>4, RefKeptRefs
<1>5. ASSUME com_create_done(t) PROVE Refs'
  <2>1. Op(t) \in {"create", "open"} /\ at[t] = "found" /\ On(t) \in Object
    BY <1>5, CallOf
  <2>2. \A o \in Object : Has(t, o)' <=> Has(t, o)
    BY <1>5, <2>1, AfterReturn, Before, Keeping DEF com_create_done
  <2>3. \A o \in Object : /\ common_object'[o].exists = common_object[o].exists
                          /\ common_object'[o].ref_count = common_object[o].ref_count
    BY <1>5, <2>1 DEF com_create_done, ComTypeOK
  <2>4. RefKept(t)
    BY <2>2, <2>3 DEF RefKept
  <2> QED
    BY <2>4, RefKeptRefs
<1>6. ASSUME com_close(t) PROVE Refs'
  <2>1. Op(t) = "close" /\ at[t] = "call" /\ On(t) \in Object
    BY <1>6, CallOf
  <2>2. \A o \in Object, u \in Thread : u # t => (Has(u, o)' <=> Has(u, o))
    BY ThreadSteps, UsesOthers
  <2>3. /\ \A o \in Object : Has(t, o)' <=> HasOpen(t, o, pc[t]) /\ On(t) # o
        /\ \A o \in Object : Has(t, o) <=> HasOpen(t, o, pc[t])
    BY <1>6, <2>1, AfterReturn, Before DEF com_close
  <2>4. t # Main /\ HasOpen(t, On(t), pc[t])
    BY <2>1, Keeping
  <2> DEFINE obj == [common_object[On(t)] EXCEPT !.ref_count = IF @ # 0 THEN @ - 1 ELSE @]
  <2>5. \A o \in Object : common_object'[o] =
            IF o # On(t) THEN common_object[o] ELSE IF object_safe_to_delete(obj) THEN Absent ELSE obj
    BY <1>6, <2>1 DEF com_close, ComTypeOK
  <2>6. PICK x \in Object : x = On(t)
    BY <2>1
  <2>7. common_object[x].ref_count > 1 =>
            obj.ref_count = common_object[x].ref_count - 1 /\ obj.exists = common_object[x].exists /\ obj.ref_count # 0
    BY <2>1, <2>6 DEF ComTypeOK
  <2>8. obj.ref_count # 0 => ~ object_safe_to_delete(obj)
    BY DEF object_safe_to_delete
  <2> HIDE DEF obj
  <2>9. \A o \in Object : Has(Main, o)' <=> Has(Main, o)
    BY <2>2, <2>4, ComAssumption
  <2>10. \A o \in Object : o # x => Openers(o)' = Openers(o)
    BY <2>2, <2>3, <2>6 DEF Openers
  <2>11. Openers(x)' = Openers(x) \ {t} /\ t \in Openers(x)
    BY <2>2, <2>3, <2>4, <2>6 DEF Openers
  <2>12. IsFiniteSet(Openers(x))
    BY ComAssumption, FS_Subset DEF Openers
  <2>13. Cardinality(Openers(x)) \in Nat \ {0} /\ Cardinality(Openers(x))' = Cardinality(Openers(x)) - 1
    BY <2>11, <2>12, FS_RemoveElement, FS_CardinalityType, FS_EmptySet
  <2>14. ASSUME NEW o \in Object, Has(Main, o)'
         PROVE  common_object'[o].exists /\ common_object'[o].ref_count > Cardinality(Openers(o))'
    <3>1. common_object[o].exists /\ common_object[o].ref_count > Cardinality(Openers(o)) /\ common_object[o].ref_count \in Nat
      BY <2>9, <2>14 DEF Refs, ComTypeOK
    <3>2. CASE o = x
      <4>1. common_object[x].ref_count > 1
        BY <2>13, <3>1, <3>2
      <4>2. common_object'[x] = obj
        BY <2>5, <2>6, <2>7, <2>8, <4>1
      <4> QED
        BY <2>7, <2>13, <3>1, <3>2, <4>1, <4>2
    <3>3. CASE o # x
      BY <2>5, <2>6, <2>10, <3>1, <3>3
    <3> QED
      BY <3>2, <3>3
  <2> QED
    BY <2>14 DEF Refs
<1>7. ASSUME com_register_callback(t) PROVE Refs'
  <2>1. Op(t) = "register" /\ at[t] = "call" /\ On(t) \in Object
    BY <1>7, CallOf
  <2>2. \A o \in Object : Has(t, o)' <=> Has(t, o)
    BY <1>7, <2>1, AfterReturn, Before, Keeping DEF com_register_callback
  <2>3. \A o \in Object : /\ common_object'[o].exists = common_object[o].exists
                          /\ common_object'[o].ref_count = common_object[o].ref_count
    BY <1>7, <2>1 DEF com_register_callback, ComTypeOK
  <2>4. RefKept(t)
    BY <2>2, <2>3 DEF RefKept
  <2> QED
    BY <2>4, RefKeptRefs
<1>8. ASSUME com_lock_enter(t) PROVE Refs'
  <2>1. Op(t) \in {"reader_lock", "writer_lock"} /\ at[t] = "call" /\ On(t) \in Object
    BY <1>8, CallOf
  <2>2. \A o \in Object : Has(t, o)' <=> Has(t, o)
    BY <1>8, <2>1, AfterGoTo, Before, Keeping DEF com_lock_enter
  <2>3. \A o \in Object : /\ common_object'[o].exists = common_object[o].exists
                          /\ common_object'[o].ref_count = common_object[o].ref_count
    BY <1>8, <2>1 DEF com_lock_enter, ComTypeOK
  <2>4. RefKept(t)
    BY <2>2, <2>3 DEF RefKept
  <2> QED
    BY <2>4, RefKeptRefs
<1>9. ASSUME com_lock_wait(t) PROVE Refs'
  <2>1. Op(t) \in {"reader_lock", "writer_lock"} /\ at[t] = "wait" /\ On(t) \in Object
    BY <1>9, CallOf
  <2>2. \A o \in Object : Has(t, o)' <=> Has(t, o)
    BY <1>9, <2>1, AfterGoTo, Before, Keeping DEF com_lock_wait
  <2>3. \A o \in Object : /\ common_object'[o].exists = common_object[o].exists
                          /\ common_object'[o].ref_count = common_object[o].ref_count
    BY <1>9, <2>1 DEF com_lock_wait, ComTypeOK
  <2>4. RefKept(t)
    BY <2>2, <2>3 DEF RefKept
  <2> QED
    BY <2>4, RefKeptRefs
<1>10. ASSUME com_lock_return(t) PROVE Refs'
  <2>1. Op(t) \in {"reader_lock", "writer_lock"} /\ at[t] = "got" /\ On(t) \in Object
    BY <1>10, CallOf
  <2>2. \A o \in Object : Has(t, o)' <=> Has(t, o)
    BY <1>10, <2>1, AfterReturn, Before, Keeping DEF com_lock_return
  <2>3. \A o \in Object : /\ common_object'[o].exists = common_object[o].exists
                          /\ common_object'[o].ref_count = common_object[o].ref_count
    BY <1>10, <2>1 DEF com_lock_return, ComTypeOK
  <2>4. RefKept(t)
    BY <2>2, <2>3 DEF RefKept
  <2> QED
    BY <2>4, RefKeptRefs
<1>11. ASSUME com_reader_unlock(t) PROVE Refs'
  <2>1. Op(t) = "unlock" /\ On(t) \in Object
    BY <1>11, CallOf
  <2>2. \A o \in Object : Has(t, o)' <=> Has(t, o)
    BY <1>11, <2>1, AfterReturn, Before, Keeping DEF com_reader_unlock
  <2>3. \A o \in Object : /\ common_object'[o].exists = common_object[o].exists
                          /\ common_object'[o].ref_count = common_object[o].ref_count
    BY <1>11, <2>1 DEF com_reader_unlock, ComTypeOK
  <2>4. RefKept(t)
    BY <2>2, <2>3 DEF RefKept
  <2> QED
    BY <2>4, RefKeptRefs
<1>12. ASSUME com_writer_unlock_enter(t) PROVE Refs'
  <2>1. Op(t) = "unlock" /\ at[t] = "call" /\ On(t) \in Object
    BY <1>12, CallOf
  <2>2. \A o \in Object : Has(t, o)' <=> Has(t, o)
    BY <1>12, <2>1, AfterGoTo, Before, Keeping DEF com_writer_unlock_enter
  <2>3. \A o \in Object : /\ common_object'[o].exists = common_object[o].exists
                          /\ common_object'[o].ref_count = common_object[o].ref_count
    BY <1>12, <2>1 DEF com_writer_unlock_enter, ComTypeOK
  <2>4. RefKept(t)
    BY <2>2, <2>3 DEF RefKept
  <2> QED
    BY <2>4, RefKeptRefs
<1>13. ASSUME RunCallback(t) PROVE Refs'
  <2>1. On(t) \in Object
    BY <1>13, Working DEF RunCallback, OnObjects
  <2>2. UNCHANGED <<pc, at>>
    BY <1>13 DEF RunCallback
  <2>3. \A o \in Object : Has(t, o)' <=> Has(t, o)
    BY <2>2 DEF Has, On, Calls, Created
  <2>4. \A o \in Object : /\ common_object'[o].exists = common_object[o].exists
                          /\ common_object'[o].ref_count = common_object[o].ref_count
    BY <1>13, <2>1 DEF RunCallback, ComTypeOK
  <2>5. RefKept(t)
    BY <2>3, <2>4 DEF RefKept
  <2> QED
    BY <2>5, RefKeptRefs
<1>14. ASSUME com_writer_unlock(t) PROVE Refs'
  <2>1. Op(t) \in {"create", "unlock"} /\ at[t] = "callbacks" /\ On(t) \in Object
    BY <1>14, CallOf
  <2>2. \A o \in Object : Has(t, o)' <=> Has(t, o)
    BY <1>14, <2>1, AfterReturn, Before, Keeping DEF com_writer_unlock
  <2>3. \A o \in Object : /\ common_object'[o].exists = common_object[o].exists
                          /\ common_object'[o].ref_count = common_object[o].ref_count
    BY <1>14, <2>1 DEF com_writer_unlock, ComTypeOK
  <2>4. RefKept(t)
    BY <2>2, <2>3 DEF RefKept
  <2> QED
    BY <2>4, RefKeptRefs
<1>15. ASSUME PrivateLock(t) PROVE Refs'
  <2>1. Op(t) = "lock" /\ at[t] = "call"
    BY <1>15, CallOf
  <2>2. \A o \in Object : Has(t, o)' <=> Has(t, o)
    BY <1>15, <2>1, AfterReturn, Before, Keeping DEF PrivateLock
  <2>3. \A o \in Object : /\ common_object'[o].exists = common_object[o].exists
                          /\ common_object'[o].ref_count = common_object[o].ref_count
    BY <1>15, <2>1 DEF PrivateLock, ComTypeOK
  <2>4. RefKept(t)
    BY <2>2, <2>3 DEF RefKept
  <2> QED
    BY <2>4, RefKeptRefs
<1>16. ASSUME PrivateRelease(t) PROVE Refs'
  <2>1. Op(t) = "release" /\ at[t] = "call"
    BY <1>16, CallOf
  <2>2. \A o \in Object : Has(t, o)' <=> Has(t, o)
    BY <1>16, <2>1, AfterReturn, Before, Keeping DEF PrivateRelease
  <2>3. \A o \in Object : /\ common_object'[o].exists = common_object[o].exists
                          /\ common_object'[o].ref_count = common_object[o].ref_count
    BY <1>16, <2>1 DEF PrivateRelease, ComTypeOK
  <2>4. RefKept(t)
    BY <2>2, <2>3 DEF RefKept
  <2> QED
    BY <2>4, RefKeptRefs
<1> QED
  BY <1>1, <1>2, <1>3, <1>4, <1>5, <1>6, <1>7, <1>8, <1>9, <1>10, <1>11, <1>12, <1>13, <1>14,
     <1>15, <1>16
  DEF ComThread

LEMMA RefsStep ==
  ASSUME ComTypeOK, Places, Manned, Refs, [ComNext]_comvars
  PROVE  Refs'
<1>1. ASSUME Phase1, NEW A \in kSubset(MaxActive, Thread \ {Main}), create_threads(A) PROVE Refs'
  <2>1. common_object' = common_object
    BY <1>1 DEF create_threads
  <2>2. \A o \in Object, t \in Thread : Has(t, o)' <=> Has(t, o)
    BY <1>1, Created1
  <2>3. \A o \in Object : Openers(o)' = Openers(o)
    BY <2>2 DEF Openers
  <2> QED
    BY <2>1, <2>2, <2>3, ComAssumption DEF Refs
<1>2. CASE UNCHANGED comvars
  <2>1. \A o \in Object, t \in Thread : Has(t, o)' <=> Has(t, o)
    BY <1>2 DEF comvars, Has, On, Calls, Created
  <2>2. \A o \in Object : Openers(o)' = Openers(o)
    BY <2>1 DEF Openers
  <2> QED
    BY <1>2, <2>1, <2>2, ComAssumption DEF Refs, comvars
<1> QED
  BY <1>1, <1>2, RefStep DEF ComNext

-----------------------------------------------------------------------------
(* Types *)

ObjectValue == [ref_count : Nat, in_use : Nat, filled : BOOLEAN, modified : BOOLEAN,
            callbacks : Seq(Callback), exists : BOOLEAN]

LEMMA ObjectFields ==
  ASSUME NEW r \in ObjectValue
  PROVE  r.ref_count \in Nat /\ r.in_use \in Nat /\ r.modified \in BOOLEAN
  BY DEF ObjectValue

LEMMA ObjectNumbers ==
  ASSUME NEW r \in ObjectValue, NEW n \in Nat
  PROVE  [r EXCEPT !.ref_count = n] \in ObjectValue /\ [r EXCEPT !.in_use = n] \in ObjectValue
  BY DEF ObjectValue

LEMMA ObjectFlags ==
  ASSUME NEW r \in ObjectValue, NEW b \in BOOLEAN
  PROVE  [r EXCEPT !.modified = b] \in ObjectValue /\ [r EXCEPT !.filled = b] \in ObjectValue
  BY DEF ObjectValue

LEMMA ObjectCallbacks ==
  ASSUME NEW r \in ObjectValue, NEW c \in Seq(Callback)
  PROVE  [r EXCEPT !.callbacks = c] \in ObjectValue
  BY DEF ObjectValue

LEMMA ObjectStored ==
  ASSUME ComTypeOK, NEW x \in Object, NEW obj \in ObjectValue, common_object' = [common_object EXCEPT ![x] = obj]
  PROVE  common_object' \in [Object -> ObjectValue]
  BY DEF ComTypeOK, ObjectValue

LEMMA TakenIs ==
  ASSUME ComTypeOK, NEW x \in Object, NEW t \in Thread, NEW mode, Taken(x, t, mode)
  PROVE  /\ rwlock' \in [Object -> [writer : Thread \cup {Nobody}, readers : SUBSET Thread]]
         /\ \A o \in Object : o # x => rwlock'[o] = rwlock[o]
         /\ mode = "writer" => rwlock'[x].writer = t /\ rwlock'[x].readers = rwlock[x].readers
         /\ mode # "writer" => rwlock'[x].writer = rwlock[x].writer /\ rwlock'[x].readers = rwlock[x].readers \cup {t}
<1>1. rwlock[x] \in [writer : Thread \cup {Nobody}, readers : SUBSET Thread]
  BY DEF ComTypeOK
<1> QED
  BY <1>1 DEF Taken, ComTypeOK

LEMMA ReleasedIs ==
  ASSUME ComTypeOK, NEW x \in Object, NEW t \in Thread, Released(x, t)
  PROVE  /\ rwlock' \in [Object -> [writer : Thread \cup {Nobody}, readers : SUBSET Thread]]
         /\ \A o \in Object : o # x => rwlock'[o] = rwlock[o]
         /\ rwlock'[x].writer = (IF rwlock[x].writer = t THEN Nobody ELSE rwlock[x].writer)
         /\ rwlock'[x].readers = rwlock[x].readers \ {t}
<1>1. rwlock[x] \in [writer : Thread \cup {Nobody}, readers : SUBSET Thread]
  BY DEF ComTypeOK
<1> QED
  BY <1>1 DEF Released, ComTypeOK

LEMMA ThreadType ==
  ASSUME ComTypeOK, Places, TableKept, InUse,
         NEW t \in Thread, Active(t), ComThread(t)
  PROVE  ComTypeOK'
<1>1. ASSUME com_create_new(t) PROVE ComTypeOK'
  <2>1. Op(t) \in {"create", "open"} /\ at[t] = "call" /\ On(t) \in Object
    BY <1>1, CallOf
  <2>2. pc' \in [Thread -> Nat] /\ at' \in [Thread -> {"call", "found", "fill", "wait", "got", "callbacks"}]
    BY <1>1 DEF com_create_new, Return, ComTypeOK
  <2>3. common_object' \in [Object -> ObjectValue]
    <3>1. Calls(t, {"create"}) \in BOOLEAN
      BY DEF Calls, Created
    <3>2. <<>> \in Seq(Callback)
      OBVIOUS
    <3> QED
      BY <1>1, <2>1, <3>1, <3>2 DEF com_create_new, Absent, ComTypeOK, ObjectValue
  <2>4. rwlock' = rwlock
    BY <1>1 DEF com_create_new
  <2>5. record' = record
    BY <1>1 DEF com_create_new
  <2>6. todo' = todo
    BY <1>1 DEF com_create_new, locals
  <2>7. com_mutex' \in Thread \cup {Nobody} /\ private' \in [Private -> Thread \cup {Nobody}]
    BY <1>1, <2>1 DEF com_create_new, EnterCS, locals, ComTypeOK
  <2> QED
    BY <2>2, <2>3, <2>4, <2>5, <2>6, <2>7 DEF ComTypeOK, ObjectValue
<1>2. ASSUME com_create_found(t) PROVE ComTypeOK'
  <2>1. Op(t) \in {"create", "open"} /\ at[t] = "call" /\ On(t) \in Object
    BY <1>2, CallOf
  <2>2. pc' \in [Thread -> Nat] /\ at' \in [Thread -> {"call", "found", "fill", "wait", "got", "callbacks"}]
    BY <1>2 DEF com_create_found, GoTo, ComTypeOK
  <2>3. common_object' \in [Object -> ObjectValue]
    <3>1. PICK r \in ObjectValue : r = common_object[On(t)]
      BY <2>1 DEF ComTypeOK, ObjectValue
    <3>2. r.ref_count + 1 \in Nat /\ r.in_use + 1 \in Nat
      BY ObjectFields
    <3>3. [[r EXCEPT !.ref_count = r.ref_count + 1] EXCEPT !.in_use = r.in_use + 1] \in ObjectValue
      BY <3>2, ObjectNumbers
    <3>4. common_object' = [common_object EXCEPT ![On(t)] = [[r EXCEPT !.ref_count = r.ref_count + 1] EXCEPT !.in_use = r.in_use + 1]]
      BY <1>2, <2>1, <3>1 DEF com_create_found, ComTypeOK
    <3> QED
      BY <2>1, <3>3, <3>4, ObjectStored
  <2>4. rwlock' = rwlock
    BY <1>2 DEF com_create_found
  <2>5. record' \in [Object -> [Thread -> LockState]]
    BY <1>2, <2>1 DEF com_create_found, set_thread_id_record, ComTypeOK, LockState
  <2>6. todo' = todo
    BY <1>2 DEF com_create_found, locals
  <2>7. com_mutex' \in Thread \cup {Nobody} /\ private' \in [Private -> Thread \cup {Nobody}]
    BY <1>2, <2>1 DEF com_create_found, EnterCS, locals, ComTypeOK
  <2> QED
    BY <2>2, <2>3, <2>4, <2>5, <2>6, <2>7 DEF ComTypeOK, ObjectValue
<1>3. ASSUME com_create_fill(t) PROVE ComTypeOK'
  <2>1. Op(t) = "create" /\ at[t] = "found" /\ On(t) \in Object
    BY <1>3, CallOf
  <2>2. pc' \in [Thread -> Nat] /\ at' \in [Thread -> {"call", "found", "fill", "wait", "got", "callbacks"}]
    BY <1>3 DEF com_create_fill, GoTo, ComTypeOK
  <2>3. common_object' \in [Object -> ObjectValue]
    BY <1>3 DEF com_create_fill, ComTypeOK, ObjectValue
  <2>4. rwlock' \in [Object -> [writer : Thread \cup {Nobody}, readers : SUBSET Thread]]
    BY <1>3, <2>1, TakenIs DEF com_create_fill
  <2>5. record' = record
    BY <1>3 DEF com_create_fill
  <2>6. todo' = todo
    BY <1>3 DEF com_create_fill, locals
  <2>7. com_mutex' \in Thread \cup {Nobody} /\ private' \in [Private -> Thread \cup {Nobody}]
    BY <1>3, <2>1 DEF com_create_fill, EnterCS, locals, ComTypeOK
  <2> QED
    BY <2>2, <2>3, <2>4, <2>5, <2>6, <2>7 DEF ComTypeOK, ObjectValue
<1>4. ASSUME com_create_callbacks(t) PROVE ComTypeOK'
  <2>1. Op(t) = "create" /\ at[t] = "fill" /\ On(t) \in Object
    BY <1>4, CallOf
  <2>2. pc' \in [Thread -> Nat] /\ at' \in [Thread -> {"call", "found", "fill", "wait", "got", "callbacks"}]
    BY <1>4 DEF com_create_callbacks, GoTo, ComTypeOK
  <2>3. common_object' \in [Object -> ObjectValue]
    <3>1. PICK r \in ObjectValue : r = common_object[On(t)]
      BY <2>1 DEF ComTypeOK, ObjectValue
    <3>2. [r EXCEPT !.filled = TRUE] \in ObjectValue
      BY ObjectFlags
    <3>3. common_object' = [common_object EXCEPT ![On(t)] = [r EXCEPT !.filled = TRUE]]
      BY <1>4, <3>1 DEF com_create_callbacks
    <3> QED
      BY <2>1, <3>2, <3>3, ObjectStored
  <2>4. rwlock' = rwlock
    BY <1>4 DEF com_create_callbacks
  <2>5. record' \in [Object -> [Thread -> LockState]]
    BY <1>4, <2>1 DEF com_create_callbacks, set_thread_id_record, ComTypeOK, LockState
  <2>6. todo' \in [Thread -> Seq(Callback)]
    BY <1>4, <2>1 DEF com_create_callbacks, ComTypeOK
  <2>7. com_mutex' \in Thread \cup {Nobody} /\ private' \in [Private -> Thread \cup {Nobody}]
    BY <1>4, <2>1 DEF com_create_callbacks, EnterCS, locals, ComTypeOK
  <2> QED
    BY <2>2, <2>3, <2>4, <2>5, <2>6, <2>7 DEF ComTypeOK, ObjectValue
<1>5. ASSUME com_create_done(t) PROVE ComTypeOK'
  <2>1. Op(t) \in {"create", "open"} /\ at[t] = "found" /\ On(t) \in Object
    BY <1>5, CallOf
  <2>2. pc' \in [Thread -> Nat] /\ at' \in [Thread -> {"call", "found", "fill", "wait", "got", "callbacks"}]
    BY <1>5 DEF com_create_done, Return, ComTypeOK
  <2>3. common_object' \in [Object -> ObjectValue]
    <3>1. common_object[On(t)].in_use - 1 \in Nat
      <4>1. Uses(t, On(t))
        BY <1>5, <2>1, Before, Keeping
      <4>2. t \in Using(On(t)) /\ IsFiniteSet(Using(On(t)))
        BY <2>1, <4>1, ComAssumption, FS_Subset DEF TableKept, Using
      <4>3. Cardinality(Using(On(t))) \in Nat \ {0}
        BY <4>2, FS_CardinalityType, FS_EmptySet
      <4> QED
        BY <2>1, <4>3 DEF InUse
    <3>2. PICK r \in ObjectValue : r = common_object[On(t)]
      BY <2>1 DEF ComTypeOK, ObjectValue
    <3>3. [r EXCEPT !.in_use = r.in_use - 1] \in ObjectValue
      BY <3>1, <3>2, ObjectNumbers, ObjectFlags
    <3>4. common_object' = [common_object EXCEPT ![On(t)] = [r EXCEPT !.in_use = r.in_use - 1]]
      BY <1>5, <2>1, <3>2 DEF com_create_done, ComTypeOK
    <3> QED
      BY <2>1, <3>3, <3>4, ObjectStored
  <2>4. rwlock' = rwlock
    BY <1>5 DEF com_create_done
  <2>5. record' \in [Object -> [Thread -> LockState]]
    BY <1>5, <2>1 DEF com_create_done, set_thread_id_record, ComTypeOK, LockState
  <2>6. todo' = todo
    BY <1>5 DEF com_create_done, locals
  <2>7. com_mutex' \in Thread \cup {Nobody} /\ private' \in [Private -> Thread \cup {Nobody}]
    BY <1>5, <2>1 DEF com_create_done, EnterCS, locals, ComTypeOK
  <2> QED
    BY <2>2, <2>3, <2>4, <2>5, <2>6, <2>7 DEF ComTypeOK, ObjectValue
<1>6. ASSUME com_close(t) PROVE ComTypeOK'
  <2>1. Op(t) = "close" /\ at[t] = "call" /\ On(t) \in Object
    BY <1>6, CallOf
  <2>2. pc' \in [Thread -> Nat] /\ at' \in [Thread -> {"call", "found", "fill", "wait", "got", "callbacks"}]
    BY <1>6 DEF com_close, Return, ComTypeOK
  <2>3. common_object' \in [Object -> ObjectValue]
    <3> DEFINE obj == [common_object[On(t)] EXCEPT !.ref_count = IF @ # 0 THEN @ - 1 ELSE @]
    <3>1. obj \in ObjectValue
      <4>1. PICK r \in ObjectValue : r = common_object[On(t)]
        BY <2>1 DEF ComTypeOK, ObjectValue
      <4>2. (IF r.ref_count # 0 THEN r.ref_count - 1 ELSE r.ref_count) \in Nat
        BY <4>1, ObjectFields
      <4>3. [r EXCEPT !.ref_count = IF r.ref_count # 0 THEN r.ref_count - 1 ELSE r.ref_count] \in ObjectValue
        BY <4>2, ObjectNumbers
      <4> QED
        BY <4>1, <4>3
    <3>2. Absent \in ObjectValue
      <4>1. <<>> \in Seq(Callback)
        OBVIOUS
      <4> QED
        BY <4>1 DEF Absent, ObjectValue
    <3>3. common_object' = [common_object EXCEPT ![On(t)] = IF object_safe_to_delete(obj) THEN Absent ELSE obj]
      BY <1>6 DEF com_close
    <3> HIDE DEF obj
    <3> QED
      BY <2>1, <3>1, <3>2, <3>3 DEF ComTypeOK, ObjectValue
  <2>4. rwlock' = rwlock
    BY <1>6 DEF com_close
  <2>5. record' = record
    BY <1>6 DEF com_close
  <2>6. todo' = todo
    BY <1>6 DEF com_close, locals
  <2>7. com_mutex' \in Thread \cup {Nobody} /\ private' \in [Private -> Thread \cup {Nobody}]
    BY <1>6, <2>1 DEF com_close, EnterCS, locals, ComTypeOK
  <2> QED
    BY <2>2, <2>3, <2>4, <2>5, <2>6, <2>7 DEF ComTypeOK, ObjectValue
<1>7. ASSUME com_register_callback(t) PROVE ComTypeOK'
  <2>1. Op(t) = "register" /\ at[t] = "call" /\ On(t) \in Object
    BY <1>7, CallOf
  <2>2. pc' \in [Thread -> Nat] /\ at' \in [Thread -> {"call", "found", "fill", "wait", "got", "callbacks"}]
    BY <1>7 DEF com_register_callback, Return, ComTypeOK
  <2>3. common_object' \in [Object -> ObjectValue]
    <3>1. ProgramOf[t][pc[t]].func \in Callback
      BY <2>1, Working, StepOn DEF Op
    <3>2. common_object[On(t)].callbacks \in Seq(Callback)
      BY <2>1 DEF ComTypeOK
    <3>3. <<ProgramOf[t][pc[t]].func>> \o common_object[On(t)].callbacks \in Seq(Callback)
      BY <3>1, <3>2
    <3>4. PICK r \in ObjectValue : r = common_object[On(t)]
      BY <2>1 DEF ComTypeOK, ObjectValue
    <3>5. [r EXCEPT !.callbacks = <<ProgramOf[t][pc[t]].func>> \o r.callbacks] \in ObjectValue
      BY <3>3, <3>4, ObjectCallbacks
    <3>6. common_object' = [common_object EXCEPT ![On(t)] =
                               [r EXCEPT !.callbacks = <<ProgramOf[t][pc[t]].func>> \o r.callbacks]]
      BY <1>7, <3>4 DEF com_register_callback
    <3> QED
      BY <2>1, <3>5, <3>6, ObjectStored
  <2>4. rwlock' = rwlock
    BY <1>7 DEF com_register_callback
  <2>5. record' = record
    BY <1>7 DEF com_register_callback
  <2>6. todo' = todo
    BY <1>7 DEF com_register_callback, locals
  <2>7. com_mutex' \in Thread \cup {Nobody} /\ private' \in [Private -> Thread \cup {Nobody}]
    BY <1>7, <2>1 DEF com_register_callback, EnterCS, locals, ComTypeOK
  <2> QED
    BY <2>2, <2>3, <2>4, <2>5, <2>6, <2>7 DEF ComTypeOK, ObjectValue
<1>8. ASSUME com_lock_enter(t) PROVE ComTypeOK'
  <2>1. Op(t) \in {"reader_lock", "writer_lock"} /\ at[t] = "call" /\ On(t) \in Object
    BY <1>8, CallOf
  <2>2. pc' \in [Thread -> Nat] /\ at' \in [Thread -> {"call", "found", "fill", "wait", "got", "callbacks"}]
    BY <1>8 DEF com_lock_enter, GoTo, ComTypeOK
  <2>3. common_object' \in [Object -> ObjectValue]
    <3>1. PICK r \in ObjectValue : r = common_object[On(t)]
      BY <2>1 DEF ComTypeOK, ObjectValue
    <3>2. r.ref_count + 1 \in Nat /\ r.in_use + 1 \in Nat
      BY ObjectFields
    <3>3. [r EXCEPT !.in_use = r.in_use + 1] \in ObjectValue
      BY <3>2, ObjectNumbers
    <3>4. common_object' = [common_object EXCEPT ![On(t)] = [r EXCEPT !.in_use = r.in_use + 1]]
      BY <1>8, <2>1, <3>1 DEF com_lock_enter, ComTypeOK
    <3> QED
      BY <2>1, <3>3, <3>4, ObjectStored
  <2>4. rwlock' = rwlock
    BY <1>8 DEF com_lock_enter
  <2>5. record' \in [Object -> [Thread -> LockState]]
    BY <1>8, <2>1 DEF com_lock_enter, set_thread_id_record, ComTypeOK, LockState
  <2>6. todo' = todo
    BY <1>8 DEF com_lock_enter, locals
  <2>7. com_mutex' \in Thread \cup {Nobody} /\ private' \in [Private -> Thread \cup {Nobody}]
    BY <1>8, <2>1 DEF com_lock_enter, EnterCS, locals, ComTypeOK
  <2> QED
    BY <2>2, <2>3, <2>4, <2>5, <2>6, <2>7 DEF ComTypeOK, ObjectValue
<1>9. ASSUME com_lock_wait(t) PROVE ComTypeOK'
  <2>1. Op(t) \in {"reader_lock", "writer_lock"} /\ at[t] = "wait" /\ On(t) \in Object
    BY <1>9, CallOf
  <2>2. pc' \in [Thread -> Nat] /\ at' \in [Thread -> {"call", "found", "fill", "wait", "got", "callbacks"}]
    BY <1>9 DEF com_lock_wait, GoTo, ComTypeOK
  <2>3. common_object' \in [Object -> ObjectValue]
    BY <1>9 DEF com_lock_wait, ComTypeOK, ObjectValue
  <2>4. rwlock' \in [Object -> [writer : Thread \cup {Nobody}, readers : SUBSET Thread]]
    BY <1>9, <2>1, TakenIs DEF com_lock_wait
  <2>5. record' = record
    BY <1>9 DEF com_lock_wait
  <2>6. todo' = todo
    BY <1>9 DEF com_lock_wait, locals
  <2>7. com_mutex' \in Thread \cup {Nobody} /\ private' \in [Private -> Thread \cup {Nobody}]
    BY <1>9, <2>1 DEF com_lock_wait, EnterCS, locals, ComTypeOK
  <2> QED
    BY <2>2, <2>3, <2>4, <2>5, <2>6, <2>7 DEF ComTypeOK, ObjectValue
<1>10. ASSUME com_lock_return(t) PROVE ComTypeOK'
  <2>1. Op(t) \in {"reader_lock", "writer_lock"} /\ at[t] = "got" /\ On(t) \in Object
    BY <1>10, CallOf
  <2>2. pc' \in [Thread -> Nat] /\ at' \in [Thread -> {"call", "found", "fill", "wait", "got", "callbacks"}]
    BY <1>10 DEF com_lock_return, Return, ComTypeOK
  <2>3. common_object' \in [Object -> ObjectValue]
    <3>1. (common_object[On(t)].modified \/ ModeOf(t) = "writer") \in BOOLEAN
      BY DEF Calls, Created
    <3>2. PICK r \in ObjectValue : r = common_object[On(t)]
      BY <2>1 DEF ComTypeOK, ObjectValue
    <3>3. [r EXCEPT !.modified = (r.modified \/ ModeOf(t) = "writer")] \in ObjectValue
      BY <3>1, <3>2, ObjectFlags
    <3>4. common_object' = [common_object EXCEPT ![On(t)] = [r EXCEPT !.modified = (r.modified \/ ModeOf(t) = "writer")]]
      BY <1>10, <2>1, <3>2 DEF com_lock_return, ComTypeOK
    <3> QED
      BY <2>1, <3>3, <3>4, ObjectStored
  <2>4. rwlock' = rwlock
    BY <1>10 DEF com_lock_return
  <2>5. record' \in [Object -> [Thread -> LockState]]
    BY <1>10, <2>1 DEF com_lock_return, set_thread_id_record, ComTypeOK, LockState
  <2>6. todo' = todo
    BY <1>10 DEF com_lock_return, locals
  <2>7. com_mutex' \in Thread \cup {Nobody} /\ private' \in [Private -> Thread \cup {Nobody}]
    BY <1>10, <2>1 DEF com_lock_return, EnterCS, locals, ComTypeOK
  <2> QED
    BY <2>2, <2>3, <2>4, <2>5, <2>6, <2>7 DEF ComTypeOK, ObjectValue
<1>11. ASSUME com_reader_unlock(t) PROVE ComTypeOK'
  <2>1. Op(t) = "unlock" /\ On(t) \in Object
    BY <1>11, CallOf
  <2>2. pc' \in [Thread -> Nat] /\ at' \in [Thread -> {"call", "found", "fill", "wait", "got", "callbacks"}]
    BY <1>11 DEF com_reader_unlock, Return, ComTypeOK
  <2>3. common_object' \in [Object -> ObjectValue]
    <3>1. common_object[On(t)].in_use - 1 \in Nat
      <4>1. Uses(t, On(t))
        BY <1>11, <2>1, Before, Keeping
      <4>2. t \in Using(On(t)) /\ IsFiniteSet(Using(On(t)))
        BY <2>1, <4>1, ComAssumption, FS_Subset DEF TableKept, Using
      <4>3. Cardinality(Using(On(t))) \in Nat \ {0}
        BY <4>2, FS_CardinalityType, FS_EmptySet
      <4> QED
        BY <2>1, <4>3 DEF InUse
    <3>2. PICK r \in ObjectValue : r = common_object[On(t)]
      BY <2>1 DEF ComTypeOK, ObjectValue
    <3>3. [r EXCEPT !.in_use = r.in_use - 1] \in ObjectValue
      BY <3>1, <3>2, ObjectNumbers, ObjectFlags
    <3>4. common_object' = [common_object EXCEPT ![On(t)] = [r EXCEPT !.in_use = r.in_use - 1]]
      BY <1>11, <2>1, <3>2 DEF com_reader_unlock, ComTypeOK
    <3> QED
      BY <2>1, <3>3, <3>4, ObjectStored
  <2>4. rwlock' \in [Object -> [writer : Thread \cup {Nobody}, readers : SUBSET Thread]]
    BY <1>11, <2>1, ReleasedIs DEF com_reader_unlock
  <2>5. record' \in [Object -> [Thread -> LockState]]
    BY <1>11, <2>1 DEF com_reader_unlock, set_thread_id_record, ComTypeOK, LockState
  <2>6. todo' = todo
    BY <1>11 DEF com_reader_unlock, locals
  <2>7. com_mutex' \in Thread \cup {Nobody} /\ private' \in [Private -> Thread \cup {Nobody}]
    BY <1>11, <2>1 DEF com_reader_unlock, EnterCS, locals, ComTypeOK
  <2> QED
    BY <2>2, <2>3, <2>4, <2>5, <2>6, <2>7 DEF ComTypeOK, ObjectValue
<1>12. ASSUME com_writer_unlock_enter(t) PROVE ComTypeOK'
  <2>1. Op(t) = "unlock" /\ at[t] = "call" /\ On(t) \in Object
    BY <1>12, CallOf
  <2>2. pc' \in [Thread -> Nat] /\ at' \in [Thread -> {"call", "found", "fill", "wait", "got", "callbacks"}]
    BY <1>12 DEF com_writer_unlock_enter, GoTo, ComTypeOK
  <2>3. common_object' \in [Object -> ObjectValue]
    BY <1>12 DEF com_writer_unlock_enter, ComTypeOK, ObjectValue
  <2>4. rwlock' = rwlock
    BY <1>12 DEF com_writer_unlock_enter
  <2>5. record' = record
    BY <1>12 DEF com_writer_unlock_enter
  <2>6. todo' \in [Thread -> Seq(Callback)]
    BY <1>12, <2>1 DEF com_writer_unlock_enter, ComTypeOK
  <2>7. com_mutex' \in Thread \cup {Nobody} /\ private' \in [Private -> Thread \cup {Nobody}]
    BY <1>12, <2>1 DEF com_writer_unlock_enter, EnterCS, locals, ComTypeOK
  <2> QED
    BY <2>2, <2>3, <2>4, <2>5, <2>6, <2>7 DEF ComTypeOK, ObjectValue
<1>13. ASSUME RunCallback(t) PROVE ComTypeOK'
  <2>1. On(t) \in Object
    BY <1>13, Working DEF RunCallback, OnObjects
  <2>2. pc' \in [Thread -> Nat] /\ at' \in [Thread -> {"call", "found", "fill", "wait", "got", "callbacks"}]
    BY <1>13 DEF RunCallback, ComTypeOK
  <2>3. common_object' \in [Object -> ObjectValue]
    <3>1. (common_object[On(t)].modified \/ Calls(t, {"unlock"})) \in BOOLEAN
      BY DEF Calls, Created
    <3>2. PICK r \in ObjectValue : r = common_object[On(t)]
      BY <2>1 DEF ComTypeOK, ObjectValue
    <3>3. [r EXCEPT !.modified = (r.modified \/ Calls(t, {"unlock"}))] \in ObjectValue
      BY <3>1, <3>2, ObjectFlags
    <3>4. common_object' = [common_object EXCEPT ![On(t)] = [r EXCEPT !.modified = (r.modified \/ Calls(t, {"unlock"}))]]
      BY <1>13, <2>1, <3>2 DEF RunCallback, ComTypeOK
    <3> QED
      BY <2>1, <3>3, <3>4, ObjectStored
  <2>4. rwlock' = rwlock
    BY <1>13 DEF RunCallback
  <2>5. record' = record
    BY <1>13 DEF RunCallback
  <2>6. todo' \in [Thread -> Seq(Callback)]
    BY <1>13, <2>1 DEF RunCallback, ComTypeOK
  <2>7. com_mutex' \in Thread \cup {Nobody} /\ private' \in [Private -> Thread \cup {Nobody}]
    BY <1>13, <2>1 DEF RunCallback, EnterCS, locals, ComTypeOK
  <2> QED
    BY <2>2, <2>3, <2>4, <2>5, <2>6, <2>7 DEF ComTypeOK, ObjectValue
<1>14. ASSUME com_writer_unlock(t) PROVE ComTypeOK'
  <2>1. Op(t) \in {"create", "unlock"} /\ at[t] = "callbacks" /\ On(t) \in Object
    BY <1>14, CallOf
  <2>2. pc' \in [Thread -> Nat] /\ at' \in [Thread -> {"call", "found", "fill", "wait", "got", "callbacks"}]
    BY <1>14 DEF com_writer_unlock, Return, ComTypeOK
  <2>3. common_object' \in [Object -> ObjectValue]
    <3>1. common_object[On(t)].in_use - 1 \in Nat
      <4>1. Uses(t, On(t))
        BY <1>14, <2>1, Before, Keeping
      <4>2. t \in Using(On(t)) /\ IsFiniteSet(Using(On(t)))
        BY <2>1, <4>1, ComAssumption, FS_Subset DEF TableKept, Using
      <4>3. Cardinality(Using(On(t))) \in Nat \ {0}
        BY <4>2, FS_CardinalityType, FS_EmptySet
      <4> QED
        BY <2>1, <4>3 DEF InUse
    <3>2. PICK r \in ObjectValue : r = common_object[On(t)]
      BY <2>1 DEF ComTypeOK, ObjectValue
    <3>3. [[r EXCEPT !.modified = FALSE] EXCEPT !.in_use = r.in_use - 1] \in ObjectValue
      BY <3>1, <3>2, ObjectNumbers, ObjectFlags
    <3>4. common_object' = [common_object EXCEPT ![On(t)] = [[r EXCEPT !.modified = FALSE] EXCEPT !.in_use = r.in_use - 1]]
      BY <1>14, <2>1, <3>2 DEF com_writer_unlock, ComTypeOK
    <3> QED
      BY <2>1, <3>3, <3>4, ObjectStored
  <2>4. rwlock' \in [Object -> [writer : Thread \cup {Nobody}, readers : SUBSET Thread]]
    BY <1>14, <2>1, ReleasedIs DEF com_writer_unlock
  <2>5. record' \in [Object -> [Thread -> LockState]]
    BY <1>14, <2>1 DEF com_writer_unlock, set_thread_id_record, ComTypeOK, LockState
  <2>6. todo' = todo
    BY <1>14 DEF com_writer_unlock, locals
  <2>7. com_mutex' \in Thread \cup {Nobody} /\ private' \in [Private -> Thread \cup {Nobody}]
    BY <1>14, <2>1 DEF com_writer_unlock, EnterCS, locals, ComTypeOK
  <2> QED
    BY <2>2, <2>3, <2>4, <2>5, <2>6, <2>7 DEF ComTypeOK, ObjectValue
<1>15. ASSUME PrivateLock(t) PROVE ComTypeOK'
  <2>1. Op(t) = "lock" /\ at[t] = "call"
    BY <1>15, CallOf
  <2>2. pc' \in [Thread -> Nat] /\ at' \in [Thread -> {"call", "found", "fill", "wait", "got", "callbacks"}]
    BY <1>15 DEF PrivateLock, Return, ComTypeOK
  <2>3. common_object' \in [Object -> ObjectValue]
    BY <1>15 DEF PrivateLock, ComTypeOK, ObjectValue
  <2>4. rwlock' = rwlock
    BY <1>15 DEF PrivateLock
  <2>5. record' = record
    BY <1>15 DEF PrivateLock
  <2>6. todo' = todo
    BY <1>15 DEF PrivateLock, locals
  <2>7. com_mutex' \in Thread \cup {Nobody} /\ private' \in [Private -> Thread \cup {Nobody}]
    BY <1>15, <2>1 DEF PrivateLock, EnterCS, locals, ComTypeOK
  <2> QED
    BY <2>2, <2>3, <2>4, <2>5, <2>6, <2>7 DEF ComTypeOK, ObjectValue
<1>16. ASSUME PrivateRelease(t) PROVE ComTypeOK'
  <2>1. Op(t) = "release" /\ at[t] = "call"
    BY <1>16, CallOf
  <2>2. pc' \in [Thread -> Nat] /\ at' \in [Thread -> {"call", "found", "fill", "wait", "got", "callbacks"}]
    BY <1>16 DEF PrivateRelease, Return, ComTypeOK
  <2>3. common_object' \in [Object -> ObjectValue]
    BY <1>16 DEF PrivateRelease, ComTypeOK, ObjectValue
  <2>4. rwlock' = rwlock
    BY <1>16 DEF PrivateRelease
  <2>5. record' = record
    BY <1>16 DEF PrivateRelease
  <2>6. todo' = todo
    BY <1>16 DEF PrivateRelease, locals
  <2>7. com_mutex' \in Thread \cup {Nobody} /\ private' \in [Private -> Thread \cup {Nobody}]
    BY <1>16, <2>1 DEF PrivateRelease, EnterCS, locals, ComTypeOK
  <2> QED
    BY <2>2, <2>3, <2>4, <2>5, <2>6, <2>7 DEF ComTypeOK, ObjectValue
<1> QED
  BY <1>1, <1>2, <1>3, <1>4, <1>5, <1>6, <1>7, <1>8, <1>9, <1>10, <1>11, <1>12, <1>13, <1>14,
     <1>15, <1>16
  DEF ComThread

LEMMA TypeStep ==
  ASSUME ComTypeOK, Places, TableKept, InUse, [ComNext]_comvars
  PROVE  ComTypeOK'
<1>1. ASSUME Phase1, NEW A \in kSubset(MaxActive, Thread \ {Main}), create_threads(A) PROVE ComTypeOK'
  <2>1. pc' \in [Thread -> Nat]
    BY <1>1, ProgramLen DEF create_threads
  <2> QED
    BY <1>1, <2>1 DEF create_threads, ComTypeOK
<1>2. CASE UNCHANGED comvars
  BY <1>2 DEF comvars, ComTypeOK
<1> QED
  BY <1>1, <1>2, ThreadType DEF ComNext

-----------------------------------------------------------------------------
(* Reader/writer locks *)

Holds(t, o) == rwlock[o].writer = t \/ t \in rwlock[o].readers

(* What t holds it has locked in its program or is being given by its call. *)
Own(t) ==
    /\ \A o \in Object : Holds(t, o) =>
          Held(t, o, pc[t]) \/ (at[t] \in {"fill", "got", "callbacks"} /\ On(t) = o)
    /\ at[t] \in {"fill", "callbacks"} \/ (at[t] = "got" /\ ModeOf(t) = "writer") => rwlock[On(t)].writer = t
Locked == \A t \in Thread : Own(t)

Exclusive ==
    \A o \in Object : /\ rwlock[o].readers # {} => rwlock[o].writer = Nobody
                      /\ common_object[o].modified => rwlock[o].writer # Nobody

(* A step of t gives locks to t, or takes them from t. *)
LocksOf(t) ==
    \A o \in Object :
        /\ \/ rwlock'[o].writer = rwlock[o].writer
           \/ rwlock[o].writer = Nobody /\ rwlock'[o].writer = t
           \/ rwlock[o].writer = t /\ rwlock'[o].writer = Nobody
        /\ \A u \in Thread : u # t => (u \in rwlock'[o].readers <=> u \in rwlock[o].readers)

LEMMA LockedOthers ==
  ASSUME ComTypeOK, Places, Locked, NEW t \in Thread, ComThread(t), LocksOf(t), Own(t)'
  PROVE  Locked'
<1>1. ASSUME NEW u \in Thread, u # t PROVE Own(u)'
  <2>1. pc'[u] = pc[u] /\ at'[u] = at[u] /\ On(u)' = On(u) /\ ModeOf(u)' = ModeOf(u)
    BY <1>1, ThreadSteps, StepsOthers
  <2>2. \A o \in Object : Holds(u, o)' => Holds(u, o)
    BY <1>1, ComAssumption DEF Holds, LocksOf
  <2>3. \A o \in Object : rwlock[o].writer = u => rwlock'[o].writer = u
    BY <1>1, ComAssumption DEF LocksOf
  <2>4. at[u] \in {"fill", "callbacks", "got"} => On(u) \in Object
    <3>1. at[u] \in {"fill", "callbacks", "got"} => Active(u)
      BY DEF Places, Calls, Active
    <3> QED
      BY <3>1, Working DEF OnObjects
  <2>5. Own(u)
    BY DEF Locked
  <2> QED
    BY <2>1, <2>2, <2>3, <2>4, <2>5 DEF Own
<1> QED
  BY <1>1 DEF Locked

LEMMA LocksKept ==
  ASSUME ComTypeOK, Places, Locked, Exclusive, NEW t \in Thread, ComThread(t), rwlock' = rwlock, Own(t)',
         \A o \in Object : common_object'[o].modified => common_object[o].modified \/ rwlock[o].writer # Nobody
  PROVE  Locked' /\ Exclusive'
<1>1. LocksOf(t)
  BY DEF LocksOf
<1>2. Exclusive'
  BY DEF Exclusive
<1> QED
  BY <1>1, <1>2, LockedOthers

LEMMA LockStep ==
  ASSUME ComTypeOK, Places, Locked, Exclusive,
         NEW t \in Thread, Active(t), ComThread(t)
  PROVE  Locked' /\ Exclusive'
<1>1. ASSUME com_create_new(t) PROVE Locked' /\ Exclusive'
  <2>1. Op(t) \in {"create", "open"} /\ at[t] = "call" /\ On(t) \in Object
    BY <1>1, CallOf
  <2>2. at'[t] = "call" /\ \A o \in Object : Held(t, o, pc'[t]) <=>
            \/ Op(t) \in {"reader_lock", "writer_lock"} /\ On(t) = o
            \/ Held(t, o, pc[t]) /\ ~ (Op(t) = "unlock" /\ On(t) = o)
    BY <1>1, AfterReturn DEF com_create_new
  <2>3. rwlock' = rwlock
    BY <1>1 DEF com_create_new
  <2>4. ASSUME NEW o \in Object, Holds(t, o) PROVE Held(t, o, pc'[t])
    BY <2>1, <2>2, <2>4 DEF Locked, Own
  <2>5. Own(t)'
    BY <2>2, <2>3, <2>4 DEF Own, Holds
  <2>6. \A o \in Object : common_object'[o].modified => common_object[o].modified \/ rwlock[o].writer # Nobody
    BY <1>1, <2>1 DEF com_create_new, Absent, ComTypeOK
  <2> QED
    BY <2>3, <2>5, <2>6, LocksKept
<1>2. ASSUME com_create_found(t) PROVE Locked' /\ Exclusive'
  <2>1. Op(t) \in {"create", "open"} /\ at[t] = "call" /\ On(t) \in Object
    BY <1>2, CallOf
  <2>2. pc' = pc /\ at'[t] = "found" /\ On(t)' = On(t)
    BY <1>2 DEF com_create_found, GoTo, On, ComTypeOK
  <2>3. rwlock' = rwlock
    BY <1>2 DEF com_create_found
  <2>4. ASSUME NEW o \in Object, Holds(t, o) PROVE Held(t, o, pc[t]) \/ (at'[t] = "callbacks" /\ On(t) = o)
    BY <2>1, <2>2, <2>4 DEF Locked, Own
  <2>5. at'[t] = "callbacks" => rwlock[On(t)].writer = t
    BY <1>2, <2>1, <2>2 DEF Locked, Own, com_create_found
  <2>6. Own(t)'
    BY <2>2, <2>3, <2>4, <2>5 DEF Own, Holds
  <2>7. \A o \in Object : common_object'[o].modified => common_object[o].modified \/ rwlock[o].writer # Nobody
    BY <1>2, <2>1 DEF com_create_found, ComTypeOK
  <2> QED
    BY <2>3, <2>6, <2>7, LocksKept
<1>3. ASSUME com_create_fill(t) PROVE Locked' /\ Exclusive'
  <2>1. Op(t) = "create" /\ at[t] = "found" /\ On(t) \in Object
    BY <1>3, CallOf
  <2>2. pc' = pc /\ at'[t] = "fill" /\ On(t)' = On(t)
    BY <1>3 DEF com_create_fill, GoTo, On, ComTypeOK
  <2>3. PICK x \in Object : x = On(t)
    BY <2>1
  <2>4. /\ rwlock[x].writer = Nobody /\ ("writer" = "writer" => rwlock[x].readers = {})
        /\ \A o \in Object : o # x => rwlock'[o] = rwlock[o]
        /\ "writer" = "writer" => rwlock'[x].writer = t /\ rwlock'[x].readers = rwlock[x].readers
        /\ "writer" # "writer" => rwlock'[x].writer = rwlock[x].writer /\ rwlock'[x].readers = rwlock[x].readers \cup {t}
    BY <1>3, <2>3, TakenIs DEF com_create_fill, Free
  <2>5. LocksOf(t)
    <3>1. ASSUME NEW o \in Object, o # x
          PROVE  rwlock'[o].writer = rwlock[o].writer /\ \A u \in Thread : u \in rwlock'[o].readers <=> u \in rwlock[o].readers
      BY <2>4, <3>1
    <3>2. /\ rwlock'[x].writer = rwlock[x].writer \/ (rwlock[x].writer = Nobody /\ rwlock'[x].writer = t)
          /\ \A u \in Thread : u # t => (u \in rwlock'[x].readers <=> u \in rwlock[x].readers)
      BY <2>4
    <3> QED
      BY <3>1, <3>2 DEF LocksOf
  <2>6. Own(t)'
    <3>1. ModeOf(t)' = ModeOf(t)
      BY <2>2 DEF ModeOf, Calls, Created
    <3>2. ASSUME NEW o \in Object, Holds(t, o)' PROVE Held(t, o, pc'[t]) \/ On(t)' = o
      BY <2>1, <2>2, <2>3, <2>4, <3>2 DEF Locked, Own, Holds
    <3>3. "writer" = "writer" => rwlock'[On(t)'].writer = t
      BY <2>2, <2>3, <2>4
    <3> QED
      BY <2>2, <3>1, <3>2, <3>3 DEF Own
  <2>7. common_object' = common_object
    BY <1>3 DEF com_create_fill
  <2>8. ASSUME NEW o \in Object
        PROVE  /\ rwlock'[o].readers # {} => rwlock'[o].writer = Nobody
               /\ common_object'[o].modified => rwlock'[o].writer # Nobody
    BY <2>4, <2>7, ComAssumption DEF Exclusive
  <2>9. Exclusive'
    BY <2>8 DEF Exclusive
  <2> QED
    BY <2>5, <2>6, <2>9, LockedOthers
<1>4. ASSUME com_create_callbacks(t) PROVE Locked' /\ Exclusive'
  <2>1. Op(t) = "create" /\ at[t] = "fill" /\ On(t) \in Object
    BY <1>4, CallOf
  <2>2. pc' = pc /\ at'[t] = "callbacks" /\ On(t)' = On(t)
    BY <1>4 DEF com_create_callbacks, GoTo, On, ComTypeOK
  <2>3. rwlock' = rwlock
    BY <1>4 DEF com_create_callbacks
  <2>4. ASSUME NEW o \in Object, Holds(t, o) PROVE Held(t, o, pc[t]) \/ (at'[t] = "callbacks" /\ On(t) = o)
    BY <2>1, <2>2, <2>4 DEF Locked, Own
  <2>5. at'[t] = "callbacks" => rwlock[On(t)].writer = t
    BY <1>4, <2>1, <2>2 DEF Locked, Own, com_create_callbacks
  <2>6. Own(t)'
    BY <2>2, <2>3, <2>4, <2>5 DEF Own, Holds
  <2>7. \A o \in Object : common_object'[o].modified => common_object[o].modified \/ rwlock[o].writer # Nobody
    BY <1>4, <2>1 DEF com_create_callbacks, ComTypeOK
  <2> QED
    BY <2>3, <2>6, <2>7, LocksKept
<1>5. ASSUME com_create_done(t) PROVE Locked' /\ Exclusive'
  <2>1. Op(t) \in {"create", "open"} /\ at[t] = "found" /\ On(t) \in Object
    BY <1>5, CallOf
  <2>2. at'[t] = "call" /\ \A o \in Object : Held(t, o, pc'[t]) <=>
            \/ Op(t) \in {"reader_lock", "writer_lock"} /\ On(t) = o
            \/ Held(t, o, pc[t]) /\ ~ (Op(t) = "unlock" /\ On(t) = o)
    BY <1>5, AfterReturn DEF com_create_done
  <2>3. rwlock' = rwlock
    BY <1>5 DEF com_create_done
  <2>4. ASSUME NEW o \in Object, Holds(t, o) PROVE Held(t, o, pc'[t])
    BY <2>1, <2>2, <2>4 DEF Locked, Own
  <2>5. Own(t)'
    BY <2>2, <2>3, <2>4 DEF Own, Holds
  <2>6. \A o \in Object : common_object'[o].modified => common_object[o].modified \/ rwlock[o].writer # Nobody
    BY <1>5, <2>1 DEF com_create_done, ComTypeOK
  <2> QED
    BY <2>3, <2>5, <2>6, LocksKept
<1>6. ASSUME com_close(t) PROVE Locked' /\ Exclusive'
  <2>1. Op(t) = "close" /\ at[t] = "call" /\ On(t) \in Object
    BY <1>6, CallOf
  <2>2. at'[t] = "call" /\ \A o \in Object : Held(t, o, pc'[t]) <=>
            \/ Op(t) \in {"reader_lock", "writer_lock"} /\ On(t) = o
            \/ Held(t, o, pc[t]) /\ ~ (Op(t) = "unlock" /\ On(t) = o)
    BY <1>6, AfterReturn DEF com_close
  <2>3. rwlock' = rwlock
    BY <1>6 DEF com_close
  <2>4. ASSUME NEW o \in Object, Holds(t, o) PROVE Held(t, o, pc'[t])
    BY <2>1, <2>2, <2>4 DEF Locked, Own
  <2>5. Own(t)'
    BY <2>2, <2>3, <2>4 DEF Own, Holds
  <2>6. \A o \in Object : common_object'[o].modified => common_object[o].modified \/ rwlock[o].writer # Nobody
    <3> DEFINE obj == [common_object[On(t)] EXCEPT !.ref_count = IF @ # 0 THEN @ - 1 ELSE @]
    <3>1. obj.modified = common_object[On(t)].modified /\ ~ Absent.modified
      BY <2>1 DEF Absent, ComTypeOK
    <3>2. \A o \in Object : common_object'[o] =
              IF o # On(t) THEN common_object[o] ELSE IF object_safe_to_delete(obj) THEN Absent ELSE obj
      BY <1>6, <2>1 DEF com_close, ComTypeOK
    <3> HIDE DEF obj
    <3> QED
      BY <3>1, <3>2
  <2> QED
    BY <2>3, <2>5, <2>6, LocksKept
<1>7. ASSUME com_register_callback(t) PROVE Locked' /\ Exclusive'
  <2>1. Op(t) = "register" /\ at[t] = "call" /\ On(t) \in Object
    BY <1>7, CallOf
  <2>2. at'[t] = "call" /\ \A o \in Object : Held(t, o, pc'[t]) <=>
            \/ Op(t) \in {"reader_lock", "writer_lock"} /\ On(t) = o
            \/ Held(t, o, pc[t]) /\ ~ (Op(t) = "unlock" /\ On(t) = o)
    BY <1>7, AfterReturn DEF com_register_callback
  <2>3. rwlock' = rwlock
    BY <1>7 DEF com_register_callback
  <2>4. ASSUME NEW o \in Object, Holds(t, o) PROVE Held(t, o, pc'[t])
    BY <2>1, <2>2, <2>4 DEF Locked, Own
  <2>5. Own(t)'
    BY <2>2, <2>3, <2>4 DEF Own, Holds
  <2>6. \A o \in Object : common_object'[o].modified => common_object[o].modified \/ rwlock[o].writer # Nobody
    BY <1>7, <2>1 DEF com_register_callback, ComTypeOK
  <2> QED
    BY <2>3, <2>5, <2>6, LocksKept
<1>8. ASSUME com_lock_enter(t) PROVE Locked' /\ Exclusive'
  <2>1. Op(t) \in {"reader_lock", "writer_lock"} /\ at[t] = "call" /\ On(t) \in Object
    BY <1>8, CallOf
  <2>2. pc' = pc /\ at'[t] = "wait" /\ On(t)' = On(t)
    BY <1>8 DEF com_lock_enter, GoTo, On, ComTypeOK
  <2>3. rwlock' = rwlock
    BY <1>8 DEF com_lock_enter
  <2>4. ASSUME NEW o \in Object, Holds(t, o) PROVE Held(t, o, pc[t]) \/ (at'[t] = "callbacks" /\ On(t) = o)
    BY <2>1, <2>2, <2>4 DEF Locked, Own
  <2>5. at'[t] = "callbacks" => rwlock[On(t)].writer = t
    BY <1>8, <2>1, <2>2 DEF Locked, Own, com_lock_enter
  <2>6. Own(t)'
    BY <2>2, <2>3, <2>4, <2>5 DEF Own, Holds
  <2>7. \A o \in Object : common_object'[o].modified => common_object[o].modified \/ rwlock[o].writer # Nobody
    BY <1>8, <2>1 DEF com_lock_enter, ComTypeOK
  <2> QED
    BY <2>3, <2>6, <2>7, LocksKept
<1>9. ASSUME com_lock_wait(t) PROVE Locked' /\ Exclusive'
  <2>1. Op(t) \in {"reader_lock", "writer_lock"} /\ at[t] = "wait" /\ On(t) \in Object
    BY <1>9, CallOf
  <2>2. pc' = pc /\ at'[t] = "got" /\ On(t)' = On(t)
    BY <1>9 DEF com_lock_wait, GoTo, On, ComTypeOK
  <2>3. PICK x \in Object : x = On(t)
    BY <2>1
  <2>4. /\ rwlock[x].writer = Nobody /\ (ModeOf(t) = "writer" => rwlock[x].readers = {})
        /\ \A o \in Object : o # x => rwlock'[o] = rwlock[o]
        /\ ModeOf(t) = "writer" => rwlock'[x].writer = t /\ rwlock'[x].readers = rwlock[x].readers
        /\ ModeOf(t) # "writer" => rwlock'[x].writer = rwlock[x].writer /\ rwlock'[x].readers = rwlock[x].readers \cup {t}
    BY <1>9, <2>3, TakenIs DEF com_lock_wait, Free
  <2>5. LocksOf(t)
    <3>1. ASSUME NEW o \in Object, o # x
          PROVE  rwlock'[o].writer = rwlock[o].writer /\ \A u \in Thread : u \in rwlock'[o].readers <=> u \in rwlock[o].readers
      BY <2>4, <3>1
    <3>2. /\ rwlock'[x].writer = rwlock[x].writer \/ (rwlock[x].writer = Nobody /\ rwlock'[x].writer = t)
          /\ \A u \in Thread : u # t => (u \in rwlock'[x].readers <=> u \in rwlock[x].readers)
      BY <2>4
    <3> QED
      BY <3>1, <3>2 DEF LocksOf
  <2>6. Own(t)'
    <3>1. ModeOf(t)' = ModeOf(t)
      BY <2>2 DEF ModeOf, Calls, Created
    <3>2. ASSUME NEW o \in Object, Holds(t, o)' PROVE Held(t, o, pc'[t]) \/ On(t)' = o
      BY <2>1, <2>2, <2>3, <2>4, <3>2 DEF Locked, Own, Holds
    <3>3. ModeOf(t) = "writer" => rwlock'[On(t)'].writer = t
      BY <2>2, <2>3, <2>4
    <3> QED
      BY <2>2, <3>1, <3>2, <3>3 DEF Own
  <2>7. common_object' = common_object
    BY <1>9 DEF com_lock_wait
  <2>8. ASSUME NEW o \in Object
        PROVE  /\ rwlock'[o].readers # {} => rwlock'[o].writer = Nobody
               /\ common_object'[o].modified => rwlock'[o].writer # Nobody
    BY <2>4, <2>7, ComAssumption DEF Exclusive
  <2>9. Exclusive'
    BY <2>8 DEF Exclusive
  <2> QED
    BY <2>5, <2>6, <2>9, LockedOthers
<1>10. ASSUME com_lock_return(t) PROVE Locked' /\ Exclusive'
  <2>1. Op(t) \in {"reader_lock", "writer_lock"} /\ at[t] = "got" /\ On(t) \in Object
    BY <1>10, CallOf
  <2>2. at'[t] = "call" /\ \A o \in Object : Held(t, o, pc'[t]) <=>
            \/ Op(t) \in {"reader_lock", "writer_lock"} /\ On(t) = o
            \/ Held(t, o, pc[t]) /\ ~ (Op(t) = "unlock" /\ On(t) = o)
    BY <1>10, AfterReturn DEF com_lock_return
  <2>3. rwlock' = rwlock
    BY <1>10 DEF com_lock_return
  <2>4. ASSUME NEW o \in Object, Holds(t, o) PROVE Held(t, o, pc'[t])
    BY <2>1, <2>2, <2>4 DEF Locked, Own
  <2>5. Own(t)'
    BY <2>2, <2>3, <2>4 DEF Own, Holds
  <2>6. \A o \in Object : common_object'[o].modified => common_object[o].modified \/ rwlock[o].writer # Nobody
    <3>1. ModeOf(t) = "writer" => rwlock[On(t)].writer = t
      BY <2>1 DEF Locked, Own
    <3> QED
      BY <1>10, <2>1, <3>1, ComAssumption DEF com_lock_return, ComTypeOK
  <2> QED
    BY <2>3, <2>5, <2>6, LocksKept
<1>11. ASSUME com_reader_unlock(t) PROVE Locked' /\ Exclusive'
  <2>1. Op(t) = "unlock" /\ On(t) \in Object
    BY <1>11, CallOf
  <2>2. at'[t] = "call" /\ \A o \in Object : Held(t, o, pc'[t]) <=>
            \/ Op(t) \in {"reader_lock", "writer_lock"} /\ On(t) = o
            \/ Held(t, o, pc[t]) /\ ~ (Op(t) = "unlock" /\ On(t) = o)
    BY <1>11, AfterReturn DEF com_reader_unlock
  <2>3. PICK x \in Object : x = On(t)
    BY <2>1
  <2>4. /\ \A o \in Object : o # x => rwlock'[o] = rwlock[o]
        /\ rwlock'[x].writer = (IF rwlock[x].writer = t THEN Nobody ELSE rwlock[x].writer)
        /\ rwlock'[x].readers = rwlock[x].readers \ {t}
    BY <1>11, <2>3, ReleasedIs DEF com_reader_unlock
  <2>5. LocksOf(t)
    <3>1. ASSUME NEW o \in Object, o # x
          PROVE  rwlock'[o].writer = rwlock[o].writer /\ \A u \in Thread : u \in rwlock'[o].readers <=> u \in rwlock[o].readers
      BY <2>4, <3>1
    <3>2. /\ rwlock'[x].writer = rwlock[x].writer \/ (rwlock[x].writer = t /\ rwlock'[x].writer = Nobody)
          /\ \A u \in Thread : u # t => (u \in rwlock'[x].readers <=> u \in rwlock[x].readers)
      BY <2>4
    <3> QED
      BY <3>1, <3>2 DEF LocksOf
  <2>6. Own(t)'
    <3>1. ~ Holds(t, x)'
      BY <2>4, ComAssumption DEF Holds
    <3>2. ASSUME NEW o \in Object, Holds(t, o)' PROVE Held(t, o, pc'[t])
      <4>1. o # x /\ Holds(t, o)
        BY <2>4, <3>1, <3>2 DEF Holds
      <4> QED
        BY <2>2, <2>3, <4>1 DEF Locked, Own
    <3> QED
      BY <2>2, <3>2 DEF Own
  <2>7. \A o \in Object : common_object'[o].modified = common_object[o].modified
    BY <1>11, <2>1 DEF com_reader_unlock, ComTypeOK
  <2>8. rwlock[x].writer = Nobody /\ rwlock[x].writer # t
    BY <1>11, <2>3, ComAssumption DEF com_reader_unlock, Exclusive
  <2>9. ASSUME NEW o \in Object
        PROVE  /\ rwlock'[o].readers # {} => rwlock'[o].writer = Nobody
               /\ common_object'[o].modified => rwlock'[o].writer # Nobody
    BY <2>4, <2>7, <2>8, ComAssumption DEF Exclusive
  <2>10. Exclusive'
    BY <2>9 DEF Exclusive
  <2> QED
    BY <2>5, <2>6, <2>10, LockedOthers
<1>12. ASSUME com_writer_unlock_enter(t) PROVE Locked' /\ Exclusive'
  <2>1. Op(t) = "unlock" /\ at[t] = "call" /\ On(t) \in Object
    BY <1>12, CallOf
  <2>2. pc' = pc /\ at'[t] = "callbacks" /\ On(t)' = On(t)
    BY <1>12 DEF com_writer_unlock_enter, GoTo, On, ComTypeOK
  <2>3. rwlock' = rwlock
    BY <1>12 DEF com_writer_unlock_enter
  <2>4. ASSUME NEW o \in Object, Holds(t, o) PROVE Held(t, o, pc[t]) \/ (at'[t] = "callbacks" /\ On(t) = o)
    BY <2>1, <2>2, <2>4 DEF Locked, Own
  <2>5. at'[t] = "callbacks" => rwlock[On(t)].writer = t
    BY <1>12, <2>1, <2>2 DEF Locked, Own, com_writer_unlock_enter
  <2>6. Own(t)'
    BY <2>2, <2>3, <2>4, <2>5 DEF Own, Holds
  <2>7. \A o \in Object : common_object'[o].modified => common_object[o].modified \/ rwlock[o].writer # Nobody
    BY <1>12, <2>1 DEF com_writer_unlock_enter, ComTypeOK
  <2> QED
    BY <2>3, <2>6, <2>7, LocksKept
<1>13. ASSUME RunCallback(t) PROVE Locked' /\ Exclusive'
  <2>1. On(t) \in Object /\ rwlock[On(t)].writer = t
    BY <1>13, Working DEF RunCallback, OnObjects, Locked, Own
  <2>2. UNCHANGED <<pc, at, rwlock>>
    BY <1>13 DEF RunCallback
  <2>3. Own(t)'
    BY <2>2 DEF Locked, Own, Holds, On, ModeOf, Calls, Created
  <2>4. \A o \in Object : common_object'[o].modified => common_object[o].modified \/ rwlock[o].writer # Nobody
    BY <1>13, <2>1, ComAssumption DEF RunCallback, ComTypeOK
  <2> QED
    BY <2>2, <2>3, <2>4, LocksKept
<1>14. ASSUME com_writer_unlock(t) PROVE Locked' /\ Exclusive'
  <2>1. Op(t) \in {"create", "unlock"} /\ at[t] = "callbacks" /\ On(t) \in Object
    BY <1>14, CallOf
  <2>2. at'[t] = "call" /\ \A o \in Object : Held(t, o, pc'[t]) <=>
            \/ Op(t) \in {"reader_lock", "writer_lock"} /\ On(t) = o
            \/ Held(t, o, pc[t]) /\ ~ (Op(t) = "unlock" /\ On(t) = o)
    BY <1>14, AfterReturn DEF com_writer_unlock
  <2>3. PICK x \in Object : x = On(t)
    BY <2>1
  <2>4. /\ \A o \in Object : o # x => rwlock'[o] = rwlock[o]
        /\ rwlock'[x].writer = (IF rwlock[x].writer = t THEN Nobody ELSE rwlock[x].writer)
        /\ rwlock'[x].readers = rwlock[x].readers \ {t}
    BY <1>14, <2>3, ReleasedIs DEF com_writer_unlock
  <2>5. LocksOf(t)
    <3>1. ASSUME NEW o \in Object, o # x
          PROVE  rwlock'[o].writer = rwlock[o].writer /\ \A u \in Thread : u \in rwlock'[o].readers <=> u \in rwlock[o].readers
      BY <2>4, <3>1
    <3>2. /\ rwlock'[x].writer = rwlock[x].writer \/ (rwlock[x].writer = t /\ rwlock'[x].writer = Nobody)
          /\ \A u \in Thread : u # t => (u \in rwlock'[x].readers <=> u \in rwlock[x].readers)
      BY <2>4
    <3> QED
      BY <3>1, <3>2 DEF LocksOf
  <2>6. Own(t)'
    <3>1. ~ Holds(t, x)'
      BY <2>4, ComAssumption DEF Holds
    <3>2. ASSUME NEW o \in Object, Holds(t, o)' PROVE Held(t, o, pc'[t])
      <4>1. o # x /\ Holds(t, o)
        BY <2>4, <3>1, <3>2 DEF Holds
      <4> QED
        BY <2>2, <2>3, <4>1 DEF Locked, Own
    <3> QED
      BY <2>2, <3>2 DEF Own
  <2>7. \A o \in Object : common_object'[o].modified = (o # x /\ common_object[o].modified)
    <3>1. common_object' = [common_object EXCEPT ![x] =
              [[common_object[x] EXCEPT !.modified = FALSE] EXCEPT !.in_use = common_object[x].in_use - 1]]
      BY <1>14, <2>3 DEF com_writer_unlock, ComTypeOK
    <3>2. common_object'[x].modified = FALSE
      BY <3>1 DEF ComTypeOK
    <3>3. \A o \in Object : o # x => common_object'[o] = common_object[o]
      BY <3>1 DEF ComTypeOK
    <3> QED
      BY <3>2, <3>3 DEF ComTypeOK
  <2>8. rwlock[x].writer = t
    BY <2>1, <2>3 DEF Locked, Own
  <2>9. ASSUME NEW o \in Object
        PROVE  /\ rwlock'[o].readers # {} => rwlock'[o].writer = Nobody
               /\ common_object'[o].modified => rwlock'[o].writer # Nobody
    BY <2>4, <2>7, <2>8, ComAssumption DEF Exclusive
  <2>10. Exclusive'
    BY <2>9 DEF Exclusive
  <2> QED
    BY <2>5, <2>6, <2>10, LockedOthers
<1>15. ASSUME PrivateLock(t) PROVE Locked' /\ Exclusive'
  <2>1. Op(t) = "lock" /\ at[t] = "call"
    BY <1>15, CallOf
  <2>2. at'[t] = "call" /\ \A o \in Object : Held(t, o, pc'[t]) <=>
            \/ Op(t) \in {"reader_lock", "writer_lock"} /\ On(t) = o
            \/ Held(t, o, pc[t]) /\ ~ (Op(t) = "unlock" /\ On(t) = o)
    BY <1>15, AfterReturn DEF PrivateLock
  <2>3. rwlock' = rwlock
    BY <1>15 DEF PrivateLock
  <2>4. ASSUME NEW o \in Object, Holds(t, o) PROVE Held(t, o, pc'[t])
    BY <2>1, <2>2, <2>4 DEF Locked, Own
  <2>5. Own(t)'
    BY <2>2, <2>3, <2>4 DEF Own, Holds
  <2>6. \A o \in Object : common_object'[o].modified => common_object[o].modified \/ rwlock[o].writer # Nobody
    BY <1>15, <2>1 DEF PrivateLock, ComTypeOK
  <2> QED
    BY <2>3, <2>5, <2>6, LocksKept
<1>16. ASSUME PrivateRelease(t) PROVE Locked' /\ Exclusive'
  <2>1. Op(t) = "release" /\ at[t] = "call"
    BY <1>16, CallOf
  <2>2. at'[t] = "call" /\ \A o \in Object : Held(t, o, pc'[t]) <=>
            \/ Op(t) \in {"reader_lock", "writer_lock"} /\ On(t) = o
            \/ Held(t, o, pc[t]) /\ ~ (Op(t) = "unlock" /\ On(t) = o)
    BY <1>16, AfterReturn DEF PrivateRelease
  <2>3. rwlock' = rwlock
    BY <1>16 DEF PrivateRelease
  <2>4. ASSUME NEW o \in Object, Holds(t, o) PROVE Held(t, o, pc'[t])
    BY <2>1, <2>2, <2>4 DEF Locked, Own
  <2>5. Own(t)'
    BY <2>2, <2>3, <2>4 DEF Own, Holds
  <2>6. \A o \in Object : common_object'[o].modified => common_object[o].modified \/ rwlock[o].writer # Nobody
    BY <1>16, <2>1 DEF PrivateRelease, ComTypeOK
  <2> QED
    BY <2>3, <2>5, <2>6, LocksKept
<1> QED
  BY <1>1, <1>2, <1>3, <1>4, <1>5, <1>6, <1>7, <1>8, <1>9, <1>10, <1>11, <1>12, <1>13, <1>14,
     <1>15, <1>16
  DEF ComThread

LEMMA LockedStep ==
  ASSUME ComTypeOK, Places, Locked, Exclusive, [ComNext]_comvars
  PROVE  Locked' /\ Exclusive'
<1>1. ASSUME Phase1, NEW A \in kSubset(MaxActive, Thread \ {Main}), create_threads(A) PROVE Locked' /\ Exclusive'
  <2>1. rwlock' = rwlock /\ common_object' = common_object
    BY <1>1 DEF create_threads
  <2>2. \A o \in Object, t \in Thread : at' = at /\ at[t] = "call" /\ ~ Uses(t, o)
    BY <1>1, Created1
  <2>3. \A o \in Object, t \in Thread : ~ Holds(t, o)
    BY <2>2 DEF Locked, Own, Uses
  <2>4. \A t \in Thread : at'[t] = "call"
    BY <1>1, ProgramLen DEF Places, ComTypeOK, create_threads, Phase1, Calls, Created
  <2>5. Locked'
    BY <2>1, <2>3, <2>4 DEF Locked, Own, Holds
  <2> QED
    BY <2>1, <2>5 DEF Exclusive
<1>2. CASE UNCHANGED comvars
  BY <1>2 DEF comvars, Locked, Own, Holds, Exclusive, On, ModeOf, Calls, Created
<1> QED
  BY <1>1, <1>2, LockStep DEF ComNext

-----------------------------------------------------------------------------
(* Who waits for whom *)

(* com_mutex is kept only while callbacks run, and who holds a private     *)
(* lock is about to release it.                                            *)
MutexHeld == com_mutex = Nobody \/ at[com_mutex] = "callbacks"
PrivateHeld ==
    \A l \in Private, t \in Thread : private[l] = t => Active(t) /\ Op(t) = "release" /\ On(t) = l

LEMMA MutexStep ==
  ASSUME ComTypeOK, Places, MutexHeld, [ComNext]_comvars
  PROVE  MutexHeld'
<1> USE DEF MutexHeld
<1>1. ASSUME NEW t \in Thread, Active(t), com_create_new(t) PROVE MutexHeld'
  BY <1>1 DEF com_create_new, EnterCS
<1>2. ASSUME NEW t \in Thread, Active(t), com_create_found(t) PROVE MutexHeld'
  BY <1>2 DEF com_create_found, EnterCS
<1>3. ASSUME NEW t \in Thread, Active(t), com_create_fill(t) PROVE MutexHeld'
  <2>1. Op(t) = "create" /\ at[t] = "found" /\ On(t) \in Object
    BY <1>3, CallOf
  <2>2. com_mutex' = com_mutex /\ \A u \in Thread : u # t => at'[u] = at[u]
    BY <1>3 DEF com_create_fill, GoTo, Return, ComTypeOK
  <2> QED
    BY <2>1, <2>2 DEF ComTypeOK
<1>4. ASSUME NEW t \in Thread, Active(t), com_create_callbacks(t) PROVE MutexHeld'
  BY <1>4, ComAssumption DEF com_create_callbacks, GoTo, ComTypeOK
<1>5. ASSUME NEW t \in Thread, Active(t), com_create_done(t) PROVE MutexHeld'
  BY <1>5 DEF com_create_done, EnterCS
<1>6. ASSUME NEW t \in Thread, Active(t), com_close(t) PROVE MutexHeld'
  BY <1>6 DEF com_close, EnterCS
<1>7. ASSUME NEW t \in Thread, Active(t), com_register_callback(t) PROVE MutexHeld'
  BY <1>7 DEF com_register_callback, EnterCS
<1>8. ASSUME NEW t \in Thread, Active(t), com_lock_enter(t) PROVE MutexHeld'
  BY <1>8 DEF com_lock_enter, EnterCS
<1>9. ASSUME NEW t \in Thread, Active(t), com_lock_wait(t) PROVE MutexHeld'
  <2>1. Op(t) \in {"reader_lock", "writer_lock"} /\ at[t] = "wait" /\ On(t) \in Object
    BY <1>9, CallOf
  <2>2. com_mutex' = com_mutex /\ \A u \in Thread : u # t => at'[u] = at[u]
    BY <1>9 DEF com_lock_wait, GoTo, Return, ComTypeOK
  <2> QED
    BY <2>1, <2>2 DEF ComTypeOK
<1>10. ASSUME NEW t \in Thread, Active(t), com_lock_return(t) PROVE MutexHeld'
  BY <1>10 DEF com_lock_return, EnterCS
<1>11. ASSUME NEW t \in Thread, Active(t), com_reader_unlock(t) PROVE MutexHeld'
  BY <1>11 DEF com_reader_unlock, EnterCS
<1>12. ASSUME NEW t \in Thread, Active(t), com_writer_unlock_enter(t) PROVE MutexHeld'
  BY <1>12, ComAssumption DEF com_writer_unlock_enter, GoTo, ComTypeOK
<1>13. ASSUME NEW t \in Thread, Active(t), RunCallback(t) PROVE MutexHeld'
  BY <1>13 DEF RunCallback, EnterCS
<1>14. ASSUME NEW t \in Thread, Active(t), com_writer_unlock(t) PROVE MutexHeld'
  BY <1>14 DEF com_writer_unlock, EnterCS
<1>15. ASSUME NEW t \in Thread, Active(t), PrivateLock(t) PROVE MutexHeld'
  <2>1. Op(t) = "lock" /\ at[t] = "call"
    BY <1>15, CallOf
  <2>2. com_mutex' = com_mutex /\ \A u \in Thread : u # t => at'[u] = at[u]
    BY <1>15 DEF PrivateLock, GoTo, Return, ComTypeOK
  <2> QED
    BY <2>1, <2>2 DEF ComTypeOK
<1>16. ASSUME NEW t \in Thread, Active(t), PrivateRelease(t) PROVE MutexHeld'
  <2>1. Op(t) = "release" /\ at[t] = "call"
    BY <1>16, CallOf
  <2>2. com_mutex' = com_mutex /\ \A u \in Thread : u # t => at'[u] = at[u]
    BY <1>16 DEF PrivateRelease, GoTo, Return, ComTypeOK
  <2> QED
    BY <2>1, <2>2 DEF ComTypeOK
<1>17. ASSUME Phase1, NEW A \in kSubset(MaxActive, Thread \ {Main}), create_threads(A) PROVE MutexHeld'
  BY <1>17 DEF create_threads
<1>18. CASE UNCHANGED comvars
  BY <1>18 DEF comvars
<1> HIDE DEF MutexHeld
<1> QED
  BY <1>1, <1>2, <1>3, <1>4, <1>5, <1>6, <1>7, <1>8, <1>9, <1>10, <1>11, <1>12, <1>13, <1>14,
     <1>15, <1>16, <1>17, <1>18
  DEF ComNext, ComThread

LEMMA PrivateOthers ==
  ASSUME ComTypeOK, PrivateHeld, NEW t \in Thread, ComThread(t), private' = private,
         \A l \in Private : private[l] # t
  PROVE  PrivateHeld'
<1>1. ASSUME NEW u \in Thread, u # t
      PROVE  (Active(u)' <=> Active(u)) /\ Op(u)' = Op(u) /\ On(u)' = On(u)
  <2>1. pc'[u] = pc[u]
    BY <1>1, ThreadSteps, StepsOthers
  <2> QED
    BY <2>1 DEF Active, Created, Op, On
<1> QED
  BY <1>1 DEF PrivateHeld

LEMMA PrivateThread ==
  ASSUME ComTypeOK, Places, PrivateHeld,
         NEW t \in Thread, Active(t), ComThread(t)
  PROVE  PrivateHeld'
<1>1. ASSUME com_create_new(t) PROVE PrivateHeld'
  <2>1. Op(t) \in {"create", "open"}
    BY <1>1, Working DEF com_create_new, Calls, Op
  <2>2. private' = private
    BY <1>1 DEF com_create_new, locals
  <2>3. \A l \in Private : private[l] # t
    BY <2>1 DEF PrivateHeld
  <2> QED
    BY <2>2, <2>3, PrivateOthers
<1>2. ASSUME com_create_found(t) PROVE PrivateHeld'
  <2>1. Op(t) \in {"create", "open"}
    BY <1>2, Working DEF com_create_found, Calls, Op
  <2>2. private' = private
    BY <1>2 DEF com_create_found, locals
  <2>3. \A l \in Private : private[l] # t
    BY <2>1 DEF PrivateHeld
  <2> QED
    BY <2>2, <2>3, PrivateOthers
<1>3. ASSUME com_create_fill(t) PROVE PrivateHeld'
  <2>1. Op(t) = "create"
    BY <1>3, Working DEF com_create_fill, Calls, Op
  <2>2. private' = private
    BY <1>3 DEF com_create_fill, locals
  <2>3. \A l \in Private : private[l] # t
    BY <2>1 DEF PrivateHeld
  <2> QED
    BY <2>2, <2>3, PrivateOthers
<1>4. ASSUME com_create_callbacks(t) PROVE PrivateHeld'
  <2>1. Op(t) = "create"
    BY <1>4, Working DEF com_create_callbacks, Calls, Op
  <2>2. private' = private
    BY <1>4 DEF com_create_callbacks, locals
  <2>3. \A l \in Private : private[l] # t
    BY <2>1 DEF PrivateHeld
  <2> QED
    BY <2>2, <2>3, PrivateOthers
<1>5. ASSUME com_create_done(t) PROVE PrivateHeld'
  <2>1. Op(t) \in {"create", "open"}
    BY <1>5, Working DEF com_create_done, Calls, Op
  <2>2. private' = private
    BY <1>5 DEF com_create_done, locals
  <2>3. \A l \in Private : private[l] # t
    BY <2>1 DEF PrivateHeld
  <2> QED
    BY <2>2, <2>3, PrivateOthers
<1>6. ASSUME com_close(t) PROVE PrivateHeld'
  <2>1. Op(t) = "close"
    BY <1>6, Working DEF com_close, Calls, Op
  <2>2. private' = private
    BY <1>6 DEF com_close, locals
  <2>3. \A l \in Private : private[l] # t
    BY <2>1 DEF PrivateHeld
  <2> QED
    BY <2>2, <2>3, PrivateOthers
<1>7. ASSUME com_register_callback(t) PROVE PrivateHeld'
  <2>1. Op(t) = "register"
    BY <1>7, Working DEF com_register_callback, Calls, Op
  <2>2. private' = private
    BY <1>7 DEF com_register_callback, locals
  <2>3. \A l \in Private : private[l] # t
    BY <2>1 DEF PrivateHeld
  <2> QED
    BY <2>2, <2>3, PrivateOthers
<1>8. ASSUME com_lock_enter(t) PROVE PrivateHeld'
  <2>1. Op(t) \in {"reader_lock", "writer_lock"}
    BY <1>8, Working DEF com_lock_enter, Calls, Op
  <2>2. private' = private
    BY <1>8 DEF com_lock_enter, locals
  <2>3. \A l \in Private : private[l] # t
    BY <2>1 DEF PrivateHeld
  <2> QED
    BY <2>2, <2>3, PrivateOthers
<1>9. ASSUME com_lock_wait(t) PROVE PrivateHeld'
  <2>1. Op(t) \in {"reader_lock", "writer_lock"}
    BY <1>9, Working DEF com_lock_wait, Calls, Op
  <2>2. private' = private
    BY <1>9 DEF com_lock_wait, locals
  <2>3. \A l \in Private : private[l] # t
    BY <2>1 DEF PrivateHeld
  <2> QED
    BY <2>2, <2>3, PrivateOthers
<1>10. ASSUME com_lock_return(t) PROVE PrivateHeld'
  <2>1. Op(t) \in {"reader_lock", "writer_lock"}
    BY <1>10, Working DEF com_lock_return, Calls, Op
  <2>2. private' = private
    BY <1>10 DEF com_lock_return, locals
  <2>3. \A l \in Private : private[l] # t
    BY <2>1 DEF PrivateHeld
  <2> QED
    BY <2>2, <2>3, PrivateOthers
<1>11. ASSUME com_reader_unlock(t) PROVE PrivateHeld'
  <2>1. Op(t) = "unlock"
    BY <1>11, Working DEF com_reader_unlock, Calls, Op
  <2>2. private' = private
    BY <1>11 DEF com_reader_unlock, locals
  <2>3. \A l \in Private : private[l] # t
    BY <2>1 DEF PrivateHeld
  <2> QED
    BY <2>2, <2>3, PrivateOthers
<1>12. ASSUME com_writer_unlock_enter(t) PROVE PrivateHeld'
  <2>1. Op(t) = "unlock"
    BY <1>12, Working DEF com_writer_unlock_enter, Calls, Op
  <2>2. private' = private
    BY <1>12 DEF com_writer_unlock_enter, locals
  <2>3. \A l \in Private : private[l] # t
    BY <2>1 DEF PrivateHeld
  <2> QED
    BY <2>2, <2>3, PrivateOthers
<1>13. ASSUME RunCallback(t) PROVE PrivateHeld'
  <2>1. Op(t) \in {"create", "unlock"}
    BY <1>13, Working DEF RunCallback, Calls, Op
  <2>2. private' = private
    BY <1>13 DEF RunCallback, locals
  <2>3. \A l \in Private : private[l] # t
    BY <2>1 DEF PrivateHeld
  <2> QED
    BY <2>2, <2>3, PrivateOthers
<1>14. ASSUME com_writer_unlock(t) PROVE PrivateHeld'
  <2>1. Op(t) \in {"create", "unlock"}
    BY <1>14, Working DEF com_writer_unlock, Calls, Op
  <2>2. private' = private
    BY <1>14 DEF com_writer_unlock, locals
  <2>3. \A l \in Private : private[l] # t
    BY <2>1 DEF PrivateHeld
  <2> QED
    BY <2>2, <2>3, PrivateOthers
<1>15. ASSUME PrivateLock(t) PROVE PrivateHeld'
  <2>1. Op(t) = "lock" /\ at[t] = "call"
    BY <1>15, CallOf
  <2>2. PICK l \in Private : l = On(t)
    BY <1>15, <2>1, Working
  <2>3. pc[t] \in 1 .. Len(ProgramOf[t]) /\ IsCall(t, pc[t], {"lock"}, l)
    BY <2>1, <2>2, Working DEF IsCall, Op, On
  <2>4. pc[t] < Len(ProgramOf[t]) /\ IsCall(t, pc[t] + 1, {"release"}, l)
    BY <2>3, CallersAssumption
  <2>5. pc[t] \in Nat /\ Len(ProgramOf[t]) \in Nat /\ pc'[t] = pc[t] + 1
    BY <1>15, ProgramLen DEF PrivateLock, Return, ComTypeOK
  <2>6. Active(t)' /\ Op(t)' = "release" /\ On(t)' = l
    BY <2>4, <2>5 DEF Active, Created, Op, On, IsCall
  <2>7. \A m \in Private : private[m] # t
    BY <2>1 DEF PrivateHeld
  <2>8. \A m \in Private : private'[m] = IF m = l THEN t ELSE private[m]
    BY <1>15, <2>2 DEF PrivateLock, ComTypeOK
  <2>9. ASSUME NEW u \in Thread, u # t
        PROVE  (Active(u)' <=> Active(u)) /\ Op(u)' = Op(u) /\ On(u)' = On(u)
    <3>1. pc'[u] = pc[u]
      BY <2>9, ThreadSteps, StepsOthers
    <3> QED
      BY <3>1 DEF Active, Created, Op, On
  <2> QED
    BY <2>6, <2>7, <2>8, <2>9 DEF PrivateHeld
<1>16. ASSUME PrivateRelease(t) PROVE PrivateHeld'
  <2>1. Op(t) = "release" /\ at[t] = "call"
    BY <1>16, CallOf
  <2>2. PICK l \in Private : l = On(t)
    BY <1>16, <2>1, Working
  <2>3. \A m \in Private : private'[m] = IF m = l THEN Nobody ELSE private[m]
    BY <1>16, <2>2 DEF PrivateRelease, ComTypeOK
  <2>4. \A m \in Private : private[m] = t => m = l
    BY <2>2 DEF PrivateHeld
  <2>5. ASSUME NEW u \in Thread, u # t
        PROVE  (Active(u)' <=> Active(u)) /\ Op(u)' = Op(u) /\ On(u)' = On(u)
    <3>1. pc'[u] = pc[u]
      BY <2>5, ThreadSteps, StepsOthers
    <3> QED
      BY <3>1 DEF Active, Created, Op, On
  <2> QED
    BY <2>3, <2>4, <2>5, ComAssumption DEF PrivateHeld
<1> QED
  BY <1>1, <1>2, <1>3, <1>4, <1>5, <1>6, <1>7, <1>8, <1>9, <1>10, <1>11, <1>12, <1>13, <1>14,
     <1>15, <1>16
  DEF ComThread

LEMMA PrivateStep ==
  ASSUME ComTypeOK, Places, PrivateHeld, [ComNext]_comvars
  PROVE  PrivateHeld'
<1>1. ASSUME Phase1, NEW A \in kSubset(MaxActive, Thread \ {Main}), create_threads(A) PROVE PrivateHeld'
  <2>1. private' = private
    BY <1>1 DEF create_threads
  <2>2. \A t \in Thread : ~ Active(t)
    BY <1>1, ProgramLen DEF Phase1, Active, Created, ComTypeOK
  <2> QED
    BY <2>1, <2>2 DEF PrivateHeld
<1>2. CASE UNCHANGED comvars
  BY <1>2 DEF comvars, PrivateHeld, Active, Created, Op, On
<1> QED
  BY <1>1, <1>2, PrivateThread DEF ComNext

-----------------------------------------------------------------------------
(* The invariant *)

ComInv ==
    /\ ComTypeOK /\ Places /\ Manned
    /\ TableKept /\ InUse /\ Refs
    /\ Locked /\ Exclusive
    /\ MutexHeld /\ PrivateHeld

LEMMA ComInitially == ComInit => ComInv
<1> SUFFICES ASSUME ComInit PROVE ComInv
  OBVIOUS
<1> USE ComAssumption
<1>1. ComTypeOK
  <2>1. <<>> \in Seq(Callback)
    OBVIOUS
  <2>2. Absent \in [ref_count : Nat, in_use : Nat, filled : BOOLEAN, modified : BOOLEAN,
                    callbacks : Seq(Callback), exists : BOOLEAN]
    BY <2>1 DEF Absent
  <2> QED
    BY <2>1, <2>2 DEF ComInit, ComTypeOK, LockState
<1>2. Places
  BY ProgramLen DEF ComInit, Places
<1>3. Manned
  BY DEF ComInit, Manned, Alone
<1>4. \A o \in Object, t \in Thread : ~ Uses(t, o) /\ ~ Has(t, o)
  <2>1. ASSUME NEW o \in Object, NEW t \in Thread PROVE ~ Uses(t, o) /\ ~ Has(t, o)
    <3>1. pc[t] \in {0, 1} /\ at[t] = "call"
      BY DEF ComInit
    <3>2. ~ Held(t, o, pc[t]) /\ ~ HasOpen(t, o, pc[t])
      BY <3>1, NothingBefore
    <3> QED
      BY <3>1, <3>2 DEF Uses, Has
  <2> QED
    BY <2>1
<1>5. TableKept
  BY <1>4 DEF ComInit, TableKept
<1>6. InUse
  <2>1. \A o \in Object : Using(o) = {}
    BY DEF ComInit, Using
  <2> QED
    BY <2>1, FS_EmptySet DEF ComInit, InUse, Absent
<1>7. Refs
  BY <1>4 DEF Refs
<1>8. Locked /\ Exclusive
  BY DEF ComInit, Locked, Own, Holds, Exclusive, Absent
<1>9. MutexHeld /\ PrivateHeld
  BY DEF ComInit, MutexHeld, PrivateHeld
<1> QED
  BY <1>1, <1>2, <1>3, <1>5, <1>6, <1>7, <1>8, <1>9 DEF ComInv

LEMMA ComStep == ComInv /\ [ComNext]_comvars => ComInv'
  BY TypeStep, PlacesStep, MannedStep, UseTableStep, RefsStep, LockedStep, MutexStep, PrivateStep DEF ComInv

(* The objects, locks, records and threads keep their types: no count of   *)
(* com.c drops below zero.                                                 *)
THEOREM ComTypeCorrect == ComSpec => []ComTypeOK
<1>1. ComInv => ComTypeOK
  BY DEF ComInv
<1> QED
  BY <1>1, ComInitially, ComStep, PTL DEF ComSpec

LEMMA DoneUnused ==
  ASSUME ComTypeOK, Places, NEW t \in Thread, Done(t), NEW o \in Object
  PROVE  ~ Uses(t, o)
<1>1. ~ Held(t, o, pc[t])
  BY AtEnd DEF Done
<1>2. \A ops : ~ Calls(t, ops)
  BY ProgramLen DEF Done, Calls, ComTypeOK
<1>3. at[t] = "call"
  BY <1>2 DEF Places, ComTypeOK
<1> QED
  BY <1>1, <1>3 DEF Uses

LEMMA TableRoom ==
  ASSUME ComInv, NEW o \in Object
  PROVE  Cardinality(Using(o)) <= THREAD_ID_RECORD_NUM
<1> USE ComAssumption, CallersAssumption
<1>1. \A t \in Thread : t \in Using(o) => Uses(t, o)
  BY DEF ComInv, TableKept, Using
<1>2. CASE Alone
  <2>1. ASSUME NEW t \in Thread, t # Main PROVE ~ Uses(t, o)
    <3>1. pc[t] = 0
      BY <1>2, <2>1 DEF Alone
    <3>2. ~ Held(t, o, 0)
      BY NothingBefore
    <3>3. at[t] = "call"
      BY <3>1 DEF ComInv, Places, Calls, Created, ComTypeOK
    <3> QED
      BY <3>1, <3>2, <3>3 DEF Uses
  <2>2. Using(o) \subseteq {Main}
    BY <1>1, <2>1 DEF Using
  <2>3. IsFiniteSet({Main}) /\ Cardinality({Main}) = 1
    BY FS_Singleton
  <2>4. Cardinality(Using(o)) <= Cardinality({Main}) /\ IsFiniteSet(Using(o))
    BY <2>2, <2>3, FS_Subset
  <2> QED
    BY <2>3, <2>4, FS_CardinalityType
<1>3. CASE ~ Alone
  <2>1. PICK A \in kSubset(MaxActive, Thread \ {Main}) : \A t \in Thread : t \notin A => Done(t)
    BY <1>3 DEF ComInv, Manned
  <2>2. Using(o) \subseteq A
    BY <1>1, <2>1, DoneUnused DEF Using, ComInv
  <2>3. IsFiniteSet(A) /\ Cardinality(A) = MaxActive
    BY <2>1, FS_Subset DEF kSubset
  <2>4. Cardinality(Using(o)) <= Cardinality(A) /\ IsFiniteSet(Using(o))
    BY <2>2, <2>3, FS_Subset
  <2> QED
    BY <2>3, <2>4, FS_CardinalityType
<1> QED
  BY <1>2, <1>3

(* in_use and the thread table of an object agree, the table has room for  *)
(* every thread that may use the object, and com_close() deletes none that *)
(* is used, waited for or kept open by main().                             *)
THEOREM UsesAccounted == ComSpec => []UseAccounted
<1>1. ComInv => UseAccounted
  <2> SUFFICES ASSUME ComInv, NEW o \in Object
               PROVE  /\ common_object[o].in_use = Cardinality(Using(o))
                      /\ Cardinality(Using(o)) <= THREAD_ID_RECORD_NUM
                      /\ Using(o) # {} \/ pc[Main] > Len(ProgramOf[Main]) => common_object[o].exists
                      /\ \A t \in Thread : rwlock[o].writer = t \/ t \in rwlock[o].readers => t \in Using(o)
    BY DEF UseAccounted
  <2>1. common_object[o].in_use = Cardinality(Using(o))
    BY DEF ComInv, InUse
  <2>2. Using(o) # {} => common_object[o].exists
    BY MainHas DEF ComInv, Using, TableKept, Refs
  <2>3. pc[Main] > Len(ProgramOf[Main]) => common_object[o].exists
    <3>1. pc[Main] > Len(ProgramOf[Main]) => pc[Main] = Len(ProgramOf[Main]) + 1
      BY ProgramLen, ComAssumption DEF ComInv, Places, ComTypeOK
    <3>2. pc[Main] > Len(ProgramOf[Main]) => Has(Main, o)
      BY <3>1, AtEnd, ComAssumption DEF Has
    <3> QED
      BY <3>2 DEF ComInv, Refs
  <2>4. ASSUME NEW t \in Thread, rwlock[o].writer = t \/ t \in rwlock[o].readers PROVE t \in Using(o)
    <3>1. Uses(t, o)
      BY <2>4 DEF ComInv, Locked, Own, Holds, Uses
    <3> QED
      BY <3>1 DEF ComInv, TableKept, Using
  <2> QED
    BY <2>1, <2>2, <2>3, <2>4, TableRoom
<1> QED
  BY <1>1, ComInitially, ComStep, PTL DEF ComSpec

(* No writer, and no callback run for one, changes a buffer while readers  *)
(* hold it.                                                                *)
THEOREM ReadersSafe == ComSpec => []ReadersUndisturbed
<1>1. ComInv => ReadersUndisturbed
  BY DEF ComInv, Exclusive, ReadersUndisturbed
<1> QED
  BY <1>1, ComInitially, ComStep, PTL DEF ComSpec

LEMMA LeastOf ==
  ASSUME NEW S, S \subseteq Nat, S # {}
  PROVE  \E n \in S : \A m \in S : n <= m
<1>1. IsWellFoundedOn(OpToRel(<, Nat), Nat)
  BY NatLessThanWellFounded, Zenon
<1>2. PICK n \in S : \A m \in S : ~ (<<m, n>> \in OpToRel(<, Nat))
  BY <1>1, WFMin, Zenon
<1>3. \A m \in S : ~ (m < n)
  BY <1>2, Zenon DEF OpToRel
<1> QED
  BY <1>3

(* In a finite set something has the highest rank. *)
LEMMA Highest ==
  ASSUME NEW S, IsFiniteSet(S), S # {}, NEW f \in [S -> Nat]
  PROVE  \E t \in S : \A u \in S : ~ (f[t] < f[u])
<1> SUFFICES ASSUME \A t \in S : \E u \in S : f[t] < f[u] PROVE FALSE
  OBVIOUS
<1> DEFINE Rising == {R \in SUBSET S : R # {} /\ \A t \in R : \E u \in R : f[t] < f[u]}
           Sizes == {Cardinality(R) : R \in Rising}
<1>1. S \in Rising
  OBVIOUS
<1>2. \A R \in Rising : R \subseteq S /\ IsFiniteSet(R) /\ Cardinality(R) \in Nat
  BY FS_Subset, FS_CardinalityType
<1>3. Sizes \subseteq Nat /\ Sizes # {}
  BY <1>1, <1>2
<1>4. PICK n \in Sizes : \A m \in Sizes : n <= m
  <2> HIDE DEF Sizes
  <2> QED
    BY <1>3, LeastOf
<1>5. PICK R \in Rising : \A Q \in Rising : Cardinality(R) <= Cardinality(Q)
  BY <1>4
<1>6. R \subseteq S /\ R # {} /\ \A t \in R : \E u \in R : f[t] < f[u]
  BY <1>5
<1>7. {f[t] : t \in R} \subseteq Nat /\ {f[t] : t \in R} # {}
  BY <1>6
<1>8. PICK k \in {f[t] : t \in R} : \A m \in {f[t] : t \in R} : k <= m
  BY <1>7, LeastOf
<1>9. PICK low \in R : \A t \in R : f[low] <= f[t]
  BY <1>8
<1>10. R \ {low} \in Rising
  <2>1. R \ {low} # {}
    BY <1>6, <1>9
  <2>2. ASSUME NEW t \in R \ {low} PROVE \E u \in R \ {low} : f[t] < f[u]
    <3>1. PICK u \in R : f[t] < f[u]
      BY <1>6
    <3>2. u # low
      BY <1>6, <1>9, <3>1
    <3> QED
      BY <3>1, <3>2
  <2> QED
    BY <1>6, <2>1, <2>2
<1>11. Cardinality(R \ {low}) = Cardinality(R) - 1 /\ Cardinality(R) \in Nat
  BY <1>2, <1>5, <1>9, FS_RemoveElement
<1>12. Cardinality(R) <= Cardinality(R \ {low})
  BY <1>5, <1>10
<1> QED
  BY <1>11, <1>12

(* No threads wait for each other in a ring.  Who holds a private lock     *)
(* waits for nothing; so a callback waits for nobody in the ring, and      *)
(* nobody in it waits for com_mutex; what is left are reader/writer locks, *)
(* and those are waited for in their order.                                *)
THEOREM NoDeadlock == ComSpec => []NoRing
<1>1. ComInv => NoRing
  <2> SUFFICES ASSUME ComInv, NEW ring, ring \subseteq {t \in Thread : Active(t)}, ring # {},
                      \A t \in ring : \E u \in ring : WaitsFor(t, u)
               PROVE  FALSE
    BY DEF NoRing
  <2> USE DEF ComInv
  <2>1. \A t \in ring : t \in Thread /\ Active(t) /\ at[t] \in {"call", "found", "fill", "wait", "got", "callbacks"}
    BY DEF ComTypeOK
  <2>2. ASSUME NEW t \in ring PROVE Op(t) # "release"
    <3>1. Op(t) = "release" => at[t] = "call"
      BY <2>1, Working
    <3>2. \A ops : Calls(t, ops) <=> Op(t) \in ops
      BY <2>1 DEF Active, Calls, Op
    <3> QED
      BY <3>1, <3>2 DEF WaitsFor
  <2>3. ASSUME NEW t \in ring, NEW l \in Private PROVE private[l] # t
    BY <2>1, <2>2 DEF PrivateHeld
  <2>4. ASSUME NEW t \in ring PROVE at[t] # "callbacks"
    <3> SUFFICES ASSUME at[t] = "callbacks" PROVE FALSE
      OBVIOUS
    <3>1. PICK u \in ring : WaitsFor(t, u)
      OBVIOUS
    <3>2. Op(t) # "lock"
      BY <2>1, Working
    <3>3. todo[t] # <<>> /\ private[LockOf[Head(todo[t])]] = u
      BY <3>1, <3>2 DEF WaitsFor, Calls, Op
    <3>4. LockOf[Head(todo[t])] \in Private
      <4>1. todo[t] \in Seq(Callback)
        BY <2>1 DEF ComTypeOK
      <4>2. Head(todo[t]) \in Callback
        BY <3>3, <4>1
      <4> QED
        BY <4>2, ComAssumption DEF LockOf
    <3> QED
      BY <2>3, <3>3, <3>4
  <2>5. ASSUME NEW t \in ring PROVE com_mutex # t
    BY <2>1, <2>4, ComAssumption DEF MutexHeld
  <2>6. ASSUME NEW t \in ring, NEW u \in ring, WaitsFor(t, u)
        PROVE  at[t] \in {"wait", "found"} /\ On(t) \in Object /\ Holds(u, On(t))
    <3>1. ~ (Calls(t, {"lock"}) /\ private[On(t)] = u)
      <4>1. Calls(t, {"lock"}) => On(t) \in Private
        BY <2>1, Working DEF Calls, Op
      <4> QED
        BY <2>3, <4>1
    <3>2. at[t] \in {"wait", "found"} /\ Holds(u, On(t))
      BY <2>4, <2>5, <2>6, <3>1 DEF WaitsFor, Holds
    <3> QED
      BY <2>1, <3>2, Working DEF OnObjects
  <2>7. ASSUME NEW t \in ring, NEW u \in ring, WaitsFor(t, u)
        PROVE  at[u] = "wait" /\ Rank[On(t)] < Rank[On(u)]
    <3>1. at[u] \in {"wait", "found"} /\ On(u) \in Object
      BY <2>6
    <3>2. On(t) \in Object /\ Holds(u, On(t))
      BY <2>6, <2>7
    <3>3. Held(u, On(t), pc[u])
      BY <2>1, <3>1, <3>2 DEF Locked, Own
    <3>4. at[u] # "found"
      BY <2>1, <3>2, <3>3, Working, Keeping
    <3>5. Op(u) \in {"reader_lock", "writer_lock"}
      BY <2>1, <3>1, <3>4, Working
    <3> QED
      BY <2>1, <3>1, <3>2, <3>3, <3>4, <3>5, Keeping
  <2> DEFINE f == [t \in ring |-> Rank[On(t)]]
  <2>8. f \in [ring -> Nat]
    BY <2>6, ComAssumption
  <2>9. IsFiniteSet(ring)
    BY ComAssumption, FS_Subset
  <2>10. \A t \in ring : \E u \in ring : f[t] < f[u]
    BY <2>7
  <2> HIDE DEF f
  <2> QED
    BY <2>8, <2>9, <2>10, Highest
<1> QED
  BY <1>1, ComInitially, ComStep, PTL DEF ComSpec
==============================================================================
