--------------------------- MODULE StateFileProofs ---------------------------
(***************************************************************************)
(* Proofs about the fields of the State-File that are set on request, for  *)
(* any number of hosts, setters and failing accesses.                      *)
(***************************************************************************)
EXTENDS StateFile, TLAPS

LEMMA InitType == Init => TypeOK
  BY StateFileAssumption DEF Init, TypeOK, Global, PoolStates, Nobody, NoCall, Host

(* The pool state is a field of the SF object. *)
LEMMA SetPoolType ==
  ASSUME object \in [Host -> Global], NEW i \in Host, NEW s \in PoolStates, sf_set_pool_state(i, s)
  PROVE  object' \in [Host -> Global]
<1>1. ASSUME NEW g \in Global PROVE [g EXCEPT !.pool = s] \in Global
  BY DEF Global
<1> QED  BY <1>1 DEF sf_set_pool_state

(* So is the master. *)
LEMMA SetMasterType ==
  ASSUME object \in [Host -> Global], NEW i \in Host
  PROVE  [object EXCEPT ![i].master = i] \in [Host -> Global]
<1>1. ASSUME NEW g \in Global PROVE [g EXCEPT !.master = i] \in Global
  BY DEF Global
<1> QED  BY <1>1

LEMMA NextType == TypeOK /\ [Next]_vars => TypeOK'
<1> SUFFICES ASSUME TypeOK, [Next]_vars PROVE TypeOK'
  OBVIOUS
<1> USE DEF sections, obj, thread, clocks, TypeOK, Global, PoolStates, Calls, NoCall
<1>1. ASSUME NEW i \in Host, write_hostspecific(i) PROVE TypeOK'
  <2>1. hbuffer' \in [Host -> BOOLEAN] /\ hlisted' \in [Host -> BOOLEAN]
    BY <1>1 DEF write_hostspecific, Member
  <2>2. /\ repending' \in [Host -> BOOLEAN]
        /\ mask' \in [Host -> SUBSET {"master", "pool", "excluded"}]
        /\ sfpc' \in [Host -> {"cycle", "write", "read", "global"}]
    BY <1>1 DEF write_hostspecific
  <2> QED
    BY <1>1, <2>1, <2>2 DEF write_hostspecific
<1>2. ASSUME NEW i \in Host, SkipWrite(i) PROVE TypeOK'
  BY <1>2, StateFileAssumption DEF SkipWrite, StartRead, Running
<1>3. ASSUME NEW i \in Host, sf_writehostspecific(i) PROVE TypeOK'
  <2>1. /\ flag' \in [Host -> BOOLEAN] /\ listed' \in [Host -> BOOLEAN]
        /\ newseq' \in [Host -> BOOLEAN]
    BY <1>3 DEF sf_writehostspecific, WriteSection
  <2>2. /\ repending' \in [Host -> BOOLEAN]
        /\ toread' \in [Host -> SUBSET {"global", "hosts"}]
        /\ sfpc' \in [Host -> {"cycle", "write", "read", "global"}]
    BY <1>3 DEF sf_writehostspecific, StartRead
  <2> QED
    BY <1>3, <2>1, <2>2 DEF sf_writehostspecific
<1>4. ASSUME NEW i \in Host, sf_readglobal(i) PROVE TypeOK'
  BY <1>4, StateFileAssumption DEF sf_readglobal, Running
<1>5. ASSUME NEW i \in Host, sf_readhostspecific(i) PROVE TypeOK'
  BY <1>5, StateFileAssumption DEF sf_readhostspecific, Running
<1>6. ASSUME NEW i \in Host, readsf(i) PROVE TypeOK'
  BY <1>6, StateFileAssumption DEF readsf, Merged, Running
<1>7. ASSUME NEW i \in Host, sf_writeglobal(i) PROVE TypeOK'
  BY <1>7, StateFileAssumption DEF sf_writeglobal, Running
<1>8. ASSUME NEW i \in Host, sf_writehostspecific_failed(i) PROVE TypeOK'
  <2>1. /\ flag' \in [Host -> BOOLEAN] /\ listed' \in [Host -> BOOLEAN]
        /\ newseq' \in [Host -> BOOLEAN]
    <3>1. CASE WriteSection(i)
      BY <3>1 DEF WriteSection
    <3>2. CASE UNCHANGED <<flag, listed, newseq>>
      BY <3>2
    <3> QED  BY <1>8, <3>1, <3>2 DEF sf_writehostspecific_failed
  <2>2. mask' \in [Host -> SUBSET {"master", "pool", "excluded"}]
    BY <1>8 DEF sf_writehostspecific_failed
  <2>3. /\ sf_access' \in [Host -> BOOLEAN] /\ repending' \in [Host -> BOOLEAN]
        /\ toread' \in [Host -> SUBSET {"global", "hosts"}]
        /\ sfpc' \in [Host -> {"cycle", "write", "read", "global"}]
    BY <1>8 DEF sf_writehostspecific_failed, StartRead
  <2>4. ioerrors' \in 0 .. MaxIoErrors
    BY <1>8, StateFileAssumption DEF sf_writehostspecific_failed, IoError
  <2> QED
    BY <1>8, <2>1, <2>2, <2>3, <2>4 DEF sf_writehostspecific_failed
<1>9. ASSUME NEW i \in Host, readsf_failed(i) PROVE TypeOK'
  BY <1>9, StateFileAssumption DEF readsf_failed, IoError, Running
<1>10. ASSUME NEW i \in Host, sf_writeglobal_failed(i) PROVE TypeOK'
  BY <1>10, StateFileAssumption DEF sf_writeglobal_failed, IoError, Running
<1>11. ASSUME NEW i \in Host, FormPool(i) PROVE TypeOK'
  <2>1. object' \in [Host -> Global]
    BY <1>11, SetPoolType DEF FormPool
  <2>2. mask' \in [Host -> SUBSET {"master", "pool", "excluded"}]
    BY <1>11 DEF FormPool, sf_set_pool_state
  <2>3. mode' \in [Host -> {"starting", "formed", "started", "aborted", "exited"}]
    BY <1>11 DEF FormPool
  <2> QED
    BY <1>11, <2>1, <2>2, <2>3 DEF FormPool, sf_set_pool_state
<1>12. ASSUME NEW i \in Host, sf_set_master(i) PROVE TypeOK'
  <2>1. object' \in [Host -> Global]
    BY <1>12, SetMasterType DEF sf_set_master
  <2>2. mask' \in [Host -> SUBSET {"master", "pool", "excluded"}]
    BY <1>12 DEF sf_set_master
  <2> QED
    BY <1>12, <2>1, <2>2 DEF sf_set_master
<1>13. ASSUME NEW i \in Host, script_service_do_set_pool_state(i) PROVE TypeOK'
  <2>1. PICK s \in {"active", "invalid"} :
            Begin(i, [kind |-> "pool", value |-> s]) /\ sf_set_pool_state(i, s)
    BY <1>13 DEF script_service_do_set_pool_state
  <2>2. [kind |-> "pool", value |-> s] \in Calls
    OBVIOUS
  <2>3. call' \in [Host -> Calls \cup {NoCall}]
    BY <2>1, <2>2 DEF Begin
  <2>4. object' \in [Host -> Global] /\ mask' \in [Host -> SUBSET {"master", "pool", "excluded"}]
    BY <2>1, SetPoolType DEF sf_set_pool_state
  <2> QED
    BY <2>1, <2>3, <2>4 DEF Begin, sf_set_pool_state
<1>14. ASSUME NEW i \in Host, do_set_clear_excluded_sub(i) PROVE TypeOK'
  BY <1>14, StateFileAssumption DEF do_set_clear_excluded_sub, Begin
<1>15. ASSUME NEW i \in Host, check_pool_state(i) PROVE TypeOK'
  BY <1>15, StateFileAssumption DEF check_pool_state
<1>16. ASSUME NEW i \in Host, CallReturns(i) PROVE TypeOK'
  BY <1>16, StateFileAssumption DEF CallReturns
<1>17. CASE UNCHANGED vars
  BY <1>17 DEF vars
<1>18. ASSUME NEW i \in Host, form_new_liveset(i) PROVE TypeOK'
  BY <1>18 DEF form_new_liveset
<1> QED
  BY <1>1, <1>2, <1>3, <1>4, <1>5, <1>6, <1>7, <1>8, <1>9, <1>10, <1>11, <1>12, <1>13, <1>14, <1>15, <1>16, <1>17, <1>18
  DEF Next, SfThread, SfError, Toolstack, Ended

(* The State-File objects, sections and threads keep their types. *)
THEOREM TypeCorrect == Spec => []TypeOK
  BY InitType, NextType, PTL DEF Spec

(***************************************************************************)
(* The excluded flag.                                                      *)
(***************************************************************************)
LEMMA InitExcluded == Init => ExcludedInv
  BY DEF Init, ExcludedInv

LEMMA NextExcluded == TypeOK /\ ExcludedInv /\ [Next]_vars => ExcludedInv'
<1> SUFFICES ASSUME TypeOK, ExcludedInv, [Next]_vars PROVE ExcludedInv'
  OBVIOUS
<1> USE DEF sections, obj, thread, clocks, TypeOK, ExcludedInv
<1>1. ASSUME NEW i \in Host, write_hostspecific(i) PROVE ExcludedInv'
  BY <1>1 DEF write_hostspecific, Running
<1>2. ASSUME NEW i \in Host, SkipWrite(i) PROVE ExcludedInv'
  BY <1>2 DEF SkipWrite, StartRead, Running
<1>3. ASSUME NEW i \in Host, sf_writehostspecific(i) PROVE ExcludedInv'
  BY <1>3 DEF sf_writehostspecific, WriteSection, StartRead, Running
<1>4. ASSUME NEW i \in Host, sf_readglobal(i) PROVE ExcludedInv'
  BY <1>4 DEF sf_readglobal, Running
<1>5. ASSUME NEW i \in Host, sf_readhostspecific(i) PROVE ExcludedInv'
  BY <1>5 DEF sf_readhostspecific, Running
<1>6. ASSUME NEW i \in Host, readsf(i) PROVE ExcludedInv'
  BY <1>6 DEF readsf, Merged, Running
<1>7. ASSUME NEW i \in Host, sf_writeglobal(i) PROVE ExcludedInv'
  BY <1>7 DEF sf_writeglobal, Running
<1>8. ASSUME NEW i \in Host, sf_writehostspecific_failed(i) PROVE ExcludedInv'
  BY <1>8 DEF sf_writehostspecific_failed, WriteSection, StartRead, IoError, Running
<1>9. ASSUME NEW i \in Host, readsf_failed(i) PROVE ExcludedInv'
  BY <1>9 DEF readsf_failed, IoError, Running
<1>10. ASSUME NEW i \in Host, sf_writeglobal_failed(i) PROVE ExcludedInv'
  BY <1>10 DEF sf_writeglobal_failed, IoError, Running
<1>11. ASSUME NEW i \in Host, FormPool(i) PROVE ExcludedInv'
  BY <1>11 DEF FormPool, sf_set_pool_state
<1>12. ASSUME NEW i \in Host, sf_set_master(i) PROVE ExcludedInv'
  BY <1>12 DEF sf_set_master
<1>13. ASSUME NEW i \in Host, script_service_do_set_pool_state(i) PROVE ExcludedInv'
  BY <1>13 DEF script_service_do_set_pool_state, Begin, sf_set_pool_state
<1>14. ASSUME NEW i \in Host, do_set_clear_excluded_sub(i) PROVE ExcludedInv'
  BY <1>14 DEF do_set_clear_excluded_sub, Begin
<1>15. ASSUME NEW i \in Host, check_pool_state(i) PROVE ExcludedInv'
  BY <1>15 DEF check_pool_state
<1>16. ASSUME NEW i \in Host, CallReturns(i) PROVE ExcludedInv'
  BY <1>16 DEF CallReturns
<1>17. CASE UNCHANGED vars
  BY <1>17 DEF vars
<1>18. ASSUME NEW i \in Host, form_new_liveset(i) PROVE ExcludedInv'
  BY <1>18 DEF form_new_liveset
<1> QED
  BY <1>1, <1>2, <1>3, <1>4, <1>5, <1>6, <1>7, <1>8, <1>9, <1>10, <1>11, <1>12, <1>13, <1>14, <1>15, <1>16, <1>17, <1>18
  DEF Next, SfThread, SfError, Toolstack, Ended

(***************************************************************************)
(* The pool state, as long as no access fails.                             *)
(***************************************************************************)
LEMMA InitPool == Init => PoolInv
  BY DEF Init, PoolInv

LEMMA NextPool == TypeOK /\ PoolInv /\ ioerrors' = 0 /\ [Next]_vars => PoolInv'
<1> SUFFICES ASSUME TypeOK, PoolInv, ioerrors' = 0, [Next]_vars PROVE PoolInv'
  OBVIOUS
<1> USE DEF sections, obj, thread, clocks, TypeOK, PoolInv, Global, PoolStates
<1>1. ASSUME NEW i \in Host, write_hostspecific(i) PROVE PoolInv'
  BY <1>1 DEF write_hostspecific, Running
<1>2. ASSUME NEW i \in Host, SkipWrite(i) PROVE PoolInv'
  BY <1>2 DEF SkipWrite, StartRead, Running
<1>3. ASSUME NEW i \in Host, sf_writehostspecific(i) PROVE PoolInv'
  BY <1>3 DEF sf_writehostspecific, WriteSection, StartRead, Running
<1>4. ASSUME NEW i \in Host, sf_readglobal(i) PROVE PoolInv'
  BY <1>4 DEF sf_readglobal, Running
<1>5. ASSUME NEW i \in Host, sf_readhostspecific(i) PROVE PoolInv'
  BY <1>5 DEF sf_readhostspecific, Running
<1>6. ASSUME NEW i \in Host, readsf(i) PROVE PoolInv'
  BY <1>6 DEF readsf, Merged, Running
<1>7. ASSUME NEW i \in Host, sf_writeglobal(i) PROVE PoolInv'
  BY <1>7 DEF sf_writeglobal, Running
<1>8. ASSUME NEW i \in Host, sf_writehostspecific_failed(i) PROVE PoolInv'
  BY <1>8 DEF sf_writehostspecific_failed, WriteSection, StartRead, IoError, Running
<1>9. ASSUME NEW i \in Host, readsf_failed(i) PROVE PoolInv'
  BY <1>9 DEF readsf_failed, IoError, Running
<1>10. ASSUME NEW i \in Host, sf_writeglobal_failed(i) PROVE PoolInv'
  BY <1>10 DEF sf_writeglobal_failed, IoError, Running
<1>11. ASSUME NEW i \in Host, FormPool(i) PROVE PoolInv'
  BY <1>11 DEF FormPool, sf_set_pool_state
<1>12. ASSUME NEW i \in Host, sf_set_master(i) PROVE PoolInv'
  BY <1>12 DEF sf_set_master
<1>13. ASSUME NEW i \in Host, script_service_do_set_pool_state(i) PROVE PoolInv'
  BY <1>13 DEF script_service_do_set_pool_state, Begin, sf_set_pool_state
<1>14. ASSUME NEW i \in Host, do_set_clear_excluded_sub(i) PROVE PoolInv'
  BY <1>14 DEF do_set_clear_excluded_sub, Begin
<1>15. ASSUME NEW i \in Host, check_pool_state(i) PROVE PoolInv'
  BY <1>15 DEF check_pool_state
<1>16. ASSUME NEW i \in Host, CallReturns(i) PROVE PoolInv'
  BY <1>16 DEF CallReturns
<1>17. CASE UNCHANGED vars
  BY <1>17 DEF vars
<1>18. ASSUME NEW i \in Host, form_new_liveset(i) PROVE PoolInv'
  BY <1>18 DEF form_new_liveset
<1> QED
  BY <1>1, <1>2, <1>3, <1>4, <1>5, <1>6, <1>7, <1>8, <1>9, <1>10, <1>11, <1>12, <1>13, <1>14, <1>15, <1>16, <1>17, <1>18
  DEF Next, SfThread, SfError, Toolstack, Ended

(* No step takes a failed access back. *)
LEMMA ErrorsStay == TypeOK /\ [Next]_vars /\ ioerrors' = 0 => ioerrors = 0
<1> SUFFICES ASSUME TypeOK, [Next]_vars PROVE ioerrors' = ioerrors \/ ioerrors' = ioerrors + 1
  BY StateFileAssumption DEF TypeOK
<1>1. ASSUME NEW i \in Host, SfThread(i) PROVE ioerrors' = ioerrors
  BY <1>1 DEF SfThread, write_hostspecific, SkipWrite, sf_writehostspecific, sf_readglobal,
              sf_readhostspecific, readsf, sf_writeglobal
<1>2. ASSUME NEW i \in Host, SfError(i) PROVE ioerrors' = ioerrors + 1
  BY <1>2 DEF SfError, sf_writehostspecific_failed, readsf_failed, sf_writeglobal_failed, IoError
<1>3. ASSUME NEW i \in Host, Toolstack(i) PROVE ioerrors' = ioerrors
  BY <1>3 DEF Toolstack, sf_set_master, script_service_do_set_pool_state, do_set_clear_excluded_sub, Begin
<1>4. ASSUME NEW i \in Host,
             form_new_liveset(i) \/ FormPool(i) \/ check_pool_state(i) \/ CallReturns(i)
      PROVE  ioerrors' = ioerrors
  BY <1>4 DEF form_new_liveset, FormPool, check_pool_state, CallReturns
<1> QED
  BY <1>1, <1>2, <1>3, <1>4 DEF Next, Ended, vars

(* The inductive invariant holds in every reachable state. *)
THEOREM SfInvariant == Spec => []SfInv
<1>1. Init => SfInv
  BY InitType, InitExcluded, InitPool DEF SfInv
<1>2. SfInv /\ [Next]_vars => SfInv'
  BY NextType, NextExcluded, NextPool, ErrorsStay DEF SfInv
<1> QED  BY <1>1, <1>2, PTL DEF Spec

(* An excluded flag that was set or cleared is never lost, however many    *)
(* accesses of the State-File fail.                                        *)
THEOREM ExcludedIsKept == Spec => []ExcludedKept
<1>1. SfInv => ExcludedKept
  BY DEF SfInv, ExcludedInv, ExcludedKept
<1> QED  BY <1>1, SfInvariant, PTL

(* Without failing accesses no started host finds the pool state INIT,     *)
(* however many hosts write the global section at the same time.           *)
THEOREM StartedIsNotInit == Spec => []StartedNotInit
<1>1. SfInv => StartedNotInit
  BY DEF SfInv, PoolInv, StartedNotInit
<1> QED  BY <1>1, SfInvariant, PTL
=============================================================================
