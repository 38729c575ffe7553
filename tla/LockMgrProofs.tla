--------------------------- MODULE LockMgrProofs ---------------------------
(***************************************************************************)
(* Proofs about the lock manager, for every number of hosts and every      *)
(* choice of the other constants.                                          *)
(***************************************************************************)
EXTENDS LockMgr, TLAPS

(***************************************************************************)
(* Type correctness.                                                       *)
(***************************************************************************)
LEMMA InitType == Init => TypeOK
  BY ConstAssumption DEF Init, TypeOK, InitFields, Fields, Host

(* What a call that returns does to the script service's variables. *)
LEMMA ReturnType ==
  ASSUME TypeOK, NEW i \in Host, NEW mine \in BOOLEAN, Return(i, mine)
  PROVE  /\ scpc' \in [Host -> {"idle", "request", "check", "wait", "cancel"}]
         /\ accepted' \in [Host -> BOOLEAN]
  BY DEF TypeOK, Return

LEMMA LeaveType ==
  ASSUME TypeOK, NEW i \in Host, NEW mine \in BOOLEAN, LockLeave(i, mine)
  PROVE  TypeOK'
  BY DEF TypeOK, LockLeave, Return, sfvars, lmvars, scvars, smvars

(* get_lock_node() is a test, TRUE or FALSE. *)
LEMMA LockNodeBoolean == \A i, j : get_lock_node_is(i, j) \in BOOLEAN
  BY DEF get_lock_node_is, is_locked, is_online

LEMMA NextType == TypeOK /\ [Next]_vars => TypeOK'
<1> SUFFICES ASSUME TypeOK, [Next]_vars PROVE TypeOK'
  OBVIOUS
<1> USE DEF sfvars, lmvars, scvars, smvars, TypeOK
<1>1. ASSUME NEW i \in Host, write_hostspecific(i) PROVE TypeOK'
  BY <1>1 DEF write_hostspecific, StartRead
<1>2. ASSUME NEW i \in Host, write_hostspecific_failed(i) PROVE TypeOK'
  <2>1. statefile' \in [Host -> Fields]
    BY <1>2 DEF write_hostspecific_failed
  <2>2. ioerrors' \in 0 .. MaxIoErrors
    BY <1>2, ConstAssumption DEF write_hostspecific_failed, LoseAccess
  <2> QED  BY <1>2, <2>1, <2>2 DEF write_hostspecific_failed, LoseAccess, StartRead
<1>3. ASSUME NEW i \in Host, SfSkipWrite(i) PROVE TypeOK'
  BY <1>3 DEF SfSkipWrite, StartRead
<1>4. ASSUME NEW i \in Host, NEW j \in Host, SfRead(i, j) PROVE TypeOK'
  BY <1>4 DEF SfRead
<1>5. ASSUME NEW i \in Host, SfPublish(i) PROVE TypeOK'
  BY <1>5 DEF SfPublish
<1>6. ASSUME NEW i \in Host, readsf_failed(i) PROVE TypeOK'
  BY <1>6, ConstAssumption DEF readsf_failed, LoseAccess
<1>7. ASSUME NEW i \in Host, lock_mgr(i) PROVE TypeOK'
  <2>1. PassRequest(i) \in BOOLEAN
    BY DEF PassRequest
  <2>2. PassGrant(i) \in SUBSET Host
    BY DEF PassGrant, Requesters
  <2> QED  BY <1>7, <2>1, <2>2 DEF lock_mgr, Fields
<1>8. ASSUME NEW i \in Host, ProposeMaster(i) PROVE TypeOK'
  <2>1. CASE Return(i, get_lock_node_is(i, i))
    <3>1. /\ scpc' \in [Host -> {"idle", "request", "check", "wait", "cancel"}]
          /\ accepted' \in [Host -> BOOLEAN]
      BY ONLY TypeOK, <2>1, ReturnType, LockNodeBoolean, i \in Host
    <3> QED  BY <1>8, <3>1 DEF ProposeMaster
  <2>2. CASE nobody_locked(i)
    BY <1>8, <2>2 DEF ProposeMaster
  <2> QED  BY <1>8, <2>1, <2>2 DEF ProposeMaster
<1>9. ASSUME NEW i \in Host, LockRequest(i) PROVE TypeOK'
  BY <1>9 DEF LockRequest
<1>10. ASSUME NEW i \in Host, LockCheck(i) PROVE TypeOK'
  <2>1. CASE LockLeave(i, get_lock_node_is(i, i))
    BY ONLY TypeOK, <2>1, LeaveType, LockNodeBoolean, i \in Host
  <2>2. CASE nobody_locked(i)
    BY <1>10, <2>2 DEF LockCheck
  <2> QED  BY <1>10, <2>1, <2>2 DEF LockCheck
<1>11. ASSUME NEW i \in Host, LockWoken(i) PROVE TypeOK'
  <2>1. CASE LockLeave(i, get_lock_node_is(i, i))
    BY ONLY TypeOK, <2>1, LeaveType, LockNodeBoolean, i \in Host
  <2>2. CASE LockLeave(i, FALSE)
    BY ONLY TypeOK, <2>2, LeaveType, i \in Host
  <2> QED  BY <1>11, <2>1, <2>2 DEF LockWoken
<1>12. ASSUME NEW i \in Host, CancelMaster(i) PROVE TypeOK'
  BY <1>12 DEF CancelMaster
<1>13. ASSUME NEW i \in Host, CancelAcknowledged(i) PROVE TypeOK'
  BY <1>13 DEF CancelAcknowledged
<1>14. ASSUME NEW i \in Host, form_new_liveset(i) PROVE TypeOK'
  BY <1>14 DEF form_new_liveset
<1>15. ASSUME NEW i \in Host, FaultHandlerDrop(i) PROVE TypeOK'
  BY <1>15 DEF FaultHandlerDrop
<1>16. ASSUME NEW i \in Host, Crash(i) PROVE TypeOK'
  BY <1>16 DEF Crash
<1>17. CASE UNCHANGED vars
  BY <1>17 DEF vars
<1> QED
  BY <1>1, <1>2, <1>3, <1>4, <1>5, <1>6, <1>7, <1>8, <1>9, <1>10, <1>11,
     <1>12, <1>13, <1>14, <1>15, <1>16, <1>17
  DEF Next, SfThread, SfError, ScThread, SmThread

(* Every variable keeps its type, for every constant. *)
THEOREM TypeCorrect == Spec => []TypeOK
  BY InitType, NextType, PTL DEF Spec

(***************************************************************************)
(* The discipline of grants: only the lock manager's pass creates fields,  *)
(* every other step copies them.                                           *)
(***************************************************************************)

(* A pass leaves no grant to a lower priority host next to a request. *)
LEMMA PassDiscipline ==
  ASSUME TypeOK, GrantDiscipline, NEW i \in Host, PassRequest(i), NEW b \in Host, i < b
  PROVE  b \notin PassGrant(i)
<1>1. SUFFICES ASSUME b \in PassGrant(i) PROVE FALSE
  OBVIOUS
<1>2. b \in liveset[i] /\ b \in lm[i][i].grant
  BY <1>1, ConstAssumption DEF PassGrant, Requesters, Host
<1>3. CASE lm[i][i].request
  BY <1>2, <1>3 DEF GrantDiscipline
<1>4. CASE ~ lm[i][i].request
  BY <1>2, <1>4 DEF PassRequest, am_i_ready_to_request, TypeOK, Host
<1> QED  BY <1>3, <1>4

LEMMA InitDiscipline == Init => GrantDiscipline
  BY DEF Init, GrantDiscipline, InitFields

(* The fields a pass of the lock manager leaves behind. *)
LEMMA PassFields ==
  ASSUME TypeOK, NEW i \in Host, lock_mgr(i)
  PROVE  /\ lm'[i][i].request = PassRequest(i)
         /\ lm'[i][i].grant = PassGrant(i)
         /\ \A x, y \in Host : (x # i \/ y # i) => lm'[x][y] = lm[x][y]
  BY DEF TypeOK, lock_mgr

(* What a publication leaves behind. *)
LEMMA PublishFields ==
  ASSUME TypeOK, NEW i \in Host, SfPublish(i)
  PROVE  /\ \A x \in Host : lm'[x][x] = lm[x][x]
         /\ \A y \in Host \ {i} : lm'[i][y] = section[i][y]
         /\ \A x, y \in Host : x # i => lm'[x][y] = lm[x][y]
  BY DEF TypeOK, SfPublish

LEMMA NextDiscipline ==
  TypeOK /\ GrantDiscipline /\ [Next]_vars => GrantDiscipline'
<1> SUFFICES ASSUME TypeOK, GrantDiscipline, [Next]_vars PROVE GrantDiscipline'
  OBVIOUS
<1> USE DEF sfvars
<1>1. ASSUME NEW i \in Host, write_hostspecific(i) PROVE GrantDiscipline'
  BY <1>1 DEF write_hostspecific, GrantDiscipline, TypeOK
<1>2. ASSUME NEW i \in Host, NEW j \in Host, SfRead(i, j) PROVE GrantDiscipline'
  BY <1>2 DEF SfRead, GrantDiscipline, TypeOK
<1>3. ASSUME NEW i \in Host, SfPublish(i) PROVE GrantDiscipline'
  BY <1>3, PublishFields DEF SfPublish, GrantDiscipline
<1>4. ASSUME NEW i \in Host, lock_mgr(i) PROVE GrantDiscipline'
  <2>1. UNCHANGED <<section, statefile>>
    BY <1>4 DEF lock_mgr
  <2>2. ASSUME NEW x \in Host, NEW a \in Host, NEW b \in Host, a < b, lm'[x][a].request
        PROVE  b \notin lm'[x][a].grant
    <3>1. CASE x = i /\ a = i
      BY <1>4, <2>2, <3>1, PassFields, PassDiscipline
    <3>2. CASE x # i \/ a # i
      BY <1>4, <2>2, <3>2, PassFields DEF GrantDiscipline
    <3> QED  BY <3>1, <3>2
  <2> QED  BY <2>1, <2>2 DEF GrantDiscipline
<1>5. CASE UNCHANGED <<lm, section, statefile>>
  BY <1>5 DEF GrantDiscipline
<1>6. ASSUME NEW i \in Host, write_hostspecific_failed(i) PROVE GrantDiscipline'
  <2>1. CASE UNCHANGED statefile
    BY <1>6, <2>1 DEF write_hostspecific_failed, LoseAccess, GrantDiscipline
  <2>2. CASE statefile' = [statefile EXCEPT ![i] = lm[i][i]]
    BY <1>6, <2>2 DEF write_hostspecific_failed, LoseAccess, GrantDiscipline, TypeOK
  <2> QED  BY <1>6, <2>1, <2>2 DEF write_hostspecific_failed
<1> QED
  BY <1>1, <1>2, <1>3, <1>4, <1>5, <1>6
  DEF Next, SfThread, SfError, ScThread, SmThread, readsf_failed,
      LoseAccess, SfSkipWrite, ProposeMaster, LockRequest, LockCheck, LockWoken, LockLeave,
      CancelMaster, CancelAcknowledged, form_new_liveset, FaultHandlerDrop, Crash, vars

(* No copy of the lock fields, on disk, in a buffer or in memory, ever     *)
(* shows a request beside a grant to a host of lower priority: the test of *)
(* am_i_ready_to_request() and the condition on granting in lock_mgr()     *)
(* together keep this, whatever the toolstacks, disks and hosts do.        *)
THEOREM Discipline == Spec => []GrantDiscipline
<1>1. Init => TypeOK /\ GrantDiscipline
  BY InitType, InitDiscipline
<1>2. TypeOK /\ GrantDiscipline /\ [Next]_vars => (TypeOK /\ GrantDiscipline)'
  BY NextType, NextDiscipline
<1> QED  BY <1>1, <1>2, PTL DEF Spec

(***************************************************************************)
(* The lock invariant, for patient toolstacks.                             *)
(***************************************************************************)

(* The conjuncts of the invariant beside TypeOK and GrantDiscipline. *)
Protocol ==
    /\ LivesetCoversUp /\ UsersOnline /\ CallerStates /\ DeadNotAccepted
    /\ RequestChain

LEMMA InitProtocol == Init => Protocol
  BY DEF Init, Protocol, LivesetCoversUp, UsersOnline, CallerStates, CallerState,
         DeadNotAccepted, RequestChain, Proposing, InitFields

(* Steps of the State-File thread. *)
LEMMA WriteProtocol ==
  ASSUME LockInv, NEW i \in Host, statefile' = [statefile EXCEPT ![i] = lm[i][i]],
         UNCHANGED <<lm, section, liveset, up, scpc, accepted, pending_request, cancel_request>>
  PROVE  Protocol'
<1> USE DEF LockInv, TypeOK
<1>1. /\ statefile'[i] = lm[i][i]
      /\ \A x \in Host : x # i => statefile'[x] = statefile[x]
      /\ UNCHANGED <<lm, section, liveset, up, scpc, accepted, pending_request, cancel_request>>
  OBVIOUS
<1>2. LivesetCoversUp' /\ UsersOnline' /\ DeadNotAccepted'
  BY <1>1 DEF LivesetCoversUp, UsersOnline, DeadNotAccepted, Proposing
<1>3. ASSUME NEW a \in Host, Withdrawn(a) PROVE Withdrawn(a)'
  BY <1>1, <1>3 DEF Withdrawn
<1>4. CallerStates'
  BY <1>1, <1>3 DEF CallerStates, CallerState, Proposing, is_locked, is_online
<1>5. RequestChain'
  BY <1>1 DEF RequestChain, Chain
<1> QED  BY <1>2, <1>4, <1>5 DEF Protocol

LEMMA ReadProtocol ==
  ASSUME LockInv, NEW i \in Host, NEW j \in Host, SfRead(i, j)
  PROVE  Protocol'
<1> USE DEF LockInv, TypeOK
<1>1. /\ section'[i][j] = statefile[j]
      /\ \A x, y \in Host : (x # i \/ y # j) => section'[x][y] = section[x][y]
      /\ UNCHANGED <<lm, statefile, liveset, up, scpc, accepted, pending_request, cancel_request>>
  BY DEF SfRead, lmvars, scvars, smvars
<1>2. LivesetCoversUp' /\ UsersOnline' /\ DeadNotAccepted'
  BY <1>1 DEF LivesetCoversUp, UsersOnline, DeadNotAccepted, Proposing
<1>3. ASSUME NEW a \in Host, Withdrawn(a) PROVE Withdrawn(a)'
  BY <1>1, <1>3 DEF Withdrawn
<1>4. CallerStates'
  BY <1>1, <1>3 DEF CallerStates, CallerState, Proposing, is_locked, is_online
<1>5. RequestChain'
  <2>1. ASSUME NEW a \in Host, NEW b \in Host, Chain(a, b) PROVE Chain(a, b)'
    BY <1>1, <2>1 DEF Chain
  <2> QED  BY <1>1, <2>1 DEF RequestChain
<1> QED  BY <1>2, <1>4, <1>5 DEF Protocol

LEMMA PublishProtocol ==
  ASSUME LockInv, NEW i \in Host, SfPublish(i)
  PROVE  Protocol'
<1> USE DEF LockInv, TypeOK
<1>1. UNCHANGED <<section, statefile, liveset, up, scpc, accepted, pending_request, cancel_request>>
  BY DEF SfPublish, scvars, smvars
<1>0. /\ \A x \in Host : lm'[x][x] = lm[x][x]
      /\ \A y \in Host \ {i} : lm'[i][y] = section[i][y]
      /\ \A x, y \in Host : x # i => lm'[x][y] = lm[x][y]
  BY PublishFields
<1>2. LivesetCoversUp' /\ UsersOnline' /\ DeadNotAccepted'
  BY <1>0, <1>1 DEF LivesetCoversUp, UsersOnline, DeadNotAccepted, Proposing
<1>3. ASSUME NEW a \in Host, Withdrawn(a) PROVE Withdrawn(a)'
  <2>1. lm'[a][a] = lm[a][a]
    BY <1>0
  <2>2. ASSUME NEW k \in liveset[a] \ {a}
        PROVE  /\ k \in Host /\ lm'[k][k] = lm[k][k]
               /\ lm'[k][a] = lm[k][a] \/ lm'[k][a] = section[k][a]
               /\ lm'[a][k] = lm[a][k] \/ lm'[a][k] = section[a][k]
    BY <1>0, <2>2
  <2> QED  BY <1>1, <1>3, <2>1, <2>2 DEF Withdrawn
<1>4. ASSUME NEW a \in Host, up[a], accepted[a] PROVE is_locked(a, a)'
  <2>1. is_locked(a, a) /\ lm[a][a].request
    BY <1>4 DEF CallerStates, CallerState
  <2>2. ASSUME NEW k \in liveset[a] PROVE a \in lm'[a][k].grant
    <3>1. k \in Host /\ a \in lm[a][k].grant
      BY <2>1, <2>2 DEF is_locked
    <3>2. k # a => a \in section[a][k].grant
      BY <1>4, <2>1, <2>2, <3>1 DEF RequestChain, Chain
    <3>3. lm'[a][k] = lm[a][k] \/ (k # a /\ lm'[a][k] = section[a][k])
      BY <1>0, <3>1
    <3> QED  BY <3>1, <3>2, <3>3
  <2> QED  BY <1>1, <2>1, <2>2 DEF is_locked, is_online
<1>5. CallerStates'
  BY <1>0, <1>1, <1>3, <1>4 DEF CallerStates, CallerState, Proposing
<1>6. RequestChain'
  BY <1>0, <1>1 DEF RequestChain, Chain
<1> QED  BY <1>2, <1>5, <1>6 DEF Protocol

(* A State-File error or an idle cycle touches none of the protocol's      *)
(* variables.                                                              *)
LEMMA IdleProtocol ==
  ASSUME LockInv,
         UNCHANGED <<lm, statefile, section, liveset, up, scpc, accepted, pending_request, cancel_request>>
  PROVE  Protocol'
<1>1. LivesetCoversUp' /\ UsersOnline' /\ DeadNotAccepted' /\ RequestChain'
  BY DEF LockInv, LivesetCoversUp, UsersOnline, DeadNotAccepted, Proposing, RequestChain, Chain
<1>2. CallerStates'
  BY DEF LockInv, CallerStates, CallerState, Proposing, Withdrawn, is_locked, is_online
<1> QED  BY <1>1, <1>2 DEF Protocol

(* A pass of the lock manager of i. *)
LEMMA PassProtocol ==
  ASSUME LockInv, NEW i \in Host, lock_mgr(i)
  PROVE  Protocol'
<1> USE DEF LockInv, TypeOK
<1>1. /\ UNCHANGED <<section, statefile, liveset, up, scpc, accepted>>
      /\ pending_request'[i] = (pending_request[i] /\ ~ am_i_ready_to_request(i) /\ ~ cancel_request[i])
      /\ cancel_request'[i] = FALSE
      /\ \A x \in Host : x # i => /\ pending_request'[x] = pending_request[x]
                                  /\ cancel_request'[x] = cancel_request[x]
      /\ up[i] /\ i \in liveset[i]
  BY DEF lock_mgr, sfvars, scvars, smvars, is_online
<1>2. /\ lm'[i][i].request = PassRequest(i)
      /\ lm'[i][i].grant = PassGrant(i)
      /\ \A x, y \in Host : (x # i \/ y # i) => lm'[x][y] = lm[x][y]
  BY PassFields
<1>3. LivesetCoversUp' /\ DeadNotAccepted'
  BY <1>1 DEF LivesetCoversUp, DeadNotAccepted
<1>4. UsersOnline'
  <2>1. ASSUME NEW a \in Host, lm'[a][a].request \/ Proposing(a)' \/ accepted'[a]
        PROVE  liveset'[a] # {}
    <3>1. CASE a = i
      BY <1>1, <3>1
    <3>2. CASE a # i
      BY <1>1, <1>2, <2>1, <3>2 DEF UsersOnline, Proposing
    <3> QED  BY <3>1, <3>2
  <2> QED  BY <2>1 DEF UsersOnline
<1>5. \* the grants of i after the pass, to a host whose request i sees or not
      ASSUME NEW a \in Host
      PROVE  /\ a \in PassGrant(i) => lm[i][a].request
             /\ a \in lm[i][i].grant /\ lm[i][a].request /\ a \in liveset[i] => a \in PassGrant(i)
  BY DEF PassGrant, Requesters
<1>6. ASSUME NEW a \in Host, a # i, Withdrawn(a), liveset[a] # {} PROVE Withdrawn(a)'
  <2>1. i \in liveset[a]
    BY <1>1, <1>6 DEF LivesetCoversUp
  <2>2. ~ lm[i][a].request
    BY <1>6, <2>1 DEF Withdrawn
  <2>3. a \notin lm'[i][i].grant
    BY <1>2, <1>5, <2>2
  <2>4. ASSUME NEW k \in liveset[a] \ {a}
        PROVE  /\ k \in Host /\ lm'[k][a] = lm[k][a] /\ lm'[a][k] = lm[a][k]
               /\ a \in lm'[k][k].grant => a \in lm[k][k].grant
    BY <1>2, <1>6, <2>3, <2>4
  <2>5. lm'[a][a] = lm[a][a]
    BY <1>2, <1>6
  <2> QED  BY <1>1, <1>6, <2>4, <2>5 DEF Withdrawn
<1>7. ASSUME NEW a \in Host, up'[a] PROVE CallerState(a)'
  <2>0. CallerState(a)
    BY <1>1, <1>7 DEF CallerStates
  <2>1. CASE a # i
    <3>1. /\ lm'[a][a] = lm[a][a] /\ pending_request'[a] = pending_request[a]
          /\ cancel_request'[a] = cancel_request[a] /\ scpc'[a] = scpc[a] /\ accepted'[a] = accepted[a]
          /\ \A k \in Host : lm'[a][k] = lm[a][k]
      BY <1>1, <1>2, <2>1
    <3>2. Proposing(a) => liveset[a] # {}
      BY DEF UsersOnline
    <3>3. is_locked(a, a) => is_locked(a, a)'
      BY <1>1, <3>1 DEF is_locked, is_online
    <3> QED  BY <1>6, <2>0, <2>1, <3>1, <3>2, <3>3 DEF CallerState, Proposing
  <2>2. CASE a = i
    <3>1. Proposing(i)' => ~ cancel_request'[i]
      BY <1>1
    <3>2. ASSUME Proposing(i)', ~ lm'[i][i].request PROVE Withdrawn(i)'
      <4>1. ~ cancel_request[i] /\ Proposing(i)
        BY <1>1, <2>0, <2>2, <3>2 DEF CallerState, Proposing
      <4>2. ~ lm[i][i].request /\ Withdrawn(i)
        BY <1>2, <2>0, <2>2, <3>2, <4>1 DEF CallerState, PassRequest
      <4>3. i \notin lm'[i][i].grant
        BY <1>2, <1>5, <4>2
      <4>4. ASSUME NEW k \in liveset[i] \ {i}
            PROVE k \in Host /\ lm'[k][i] = lm[k][i] /\ lm'[k][k] = lm[k][k] /\ lm'[i][k] = lm[i][k]
        BY <1>2, <4>4
      <4> QED  BY <1>1, <3>2, <4>2, <4>3, <4>4 DEF Withdrawn
    <3>3. ASSUME pending_request'[i]
          PROVE  scpc'[i] \in {"check", "wait"} /\ ~ lm'[i][i].request
      BY <1>1, <1>2, <2>0, <2>2, <3>3 DEF CallerState, PassRequest
    <3>4. ASSUME accepted'[i]
          PROVE  /\ scpc'[i] = "idle" /\ lm'[i][i].request /\ is_locked(i, i)'
                 /\ ~ cancel_request'[i] /\ ~ pending_request'[i]
      <4>1. /\ accepted[i] /\ scpc[i] = "idle" /\ lm[i][i].request /\ is_locked(i, i)
            /\ ~ cancel_request[i] /\ ~ pending_request[i]
        BY <1>1, <2>0, <2>2, <3>4 DEF CallerState
      <4>2. lm'[i][i].request
        BY <1>2, <4>1 DEF PassRequest
      <4>3. i \in lm'[i][i].grant
        BY <1>1, <1>2, <1>5, <4>1 DEF is_locked
      <4>4. ASSUME NEW k \in liveset[i] PROVE i \in lm'[i][k].grant
        BY <1>2, <4>1, <4>3, <4>4 DEF is_locked
      <4>5. is_locked(i, i)'
        BY <1>1, <4>4 DEF is_locked, is_online
      <4> QED  BY <1>1, <4>1, <4>2, <4>5
    <3>5. ASSUME scpc'[i] = "request" PROVE ~ lm'[i][i].request
      <4>1. scpc[i] = "request" /\ ~ cancel_request[i] /\ ~ lm[i][i].request
        BY <1>1, <2>0, <2>2, <3>5 DEF CallerState, Proposing
      <4>2. ~ pending_request[i]
        BY <2>0, <2>2, <4>1 DEF CallerState
      <4> QED  BY <1>2, <4>1, <4>2 DEF PassRequest
    <3> QED  BY <2>2, <3>1, <3>2, <3>3, <3>4, <3>5 DEF CallerState
  <2> QED  BY <2>1, <2>2
<1>8. CallerStates'
  BY <1>7 DEF CallerStates
<1>9. ASSUME NEW a \in Host, up'[a], lm'[a][a].request, NEW k \in liveset'[a] \ {a}
      PROVE  Chain(a, k)'
  <2>0. k \in Host /\ k \in liveset[a] \ {a} /\ up[a]
    BY <1>1, <1>9
  <2>1. CASE a = i
    <3>0. lm'[a][k] = lm[a][k] /\ lm'[k][a] = lm[k][a] /\ lm'[k][k] = lm[k][k]
      BY <1>2, <2>0, <2>1
    <3>1. CASE lm[i][i].request
      BY <1>1, <2>0, <2>1, <3>0, <3>1 DEF RequestChain, Chain
    <3>2. CASE ~ lm[i][i].request
      <4>1. pending_request[i] /\ ~ cancel_request[i] /\ am_i_ready_to_request(i)
        BY <1>2, <1>9, <2>1, <3>2 DEF PassRequest
      <4>2. Withdrawn(i)
        BY <1>1, <3>2, <4>1 DEF CallerStates, CallerState, Proposing
      <4>3. i \notin lm[i][k].grant
        BY <2>0, <2>1, <4>1 DEF am_i_ready_to_request
      <4> QED  BY <1>1, <2>0, <2>1, <3>0, <4>2, <4>3 DEF Withdrawn, Chain
    <3> QED  BY <3>1, <3>2
  <2>2. CASE a # i /\ k = i
    <3>1. lm'[a][k] = lm[a][k] /\ lm'[k][a] = lm[k][a] /\ lm'[a][a] = lm[a][a]
      BY <1>2, <2>0, <2>2
    <3>2. Chain(a, k)
      BY <1>9, <2>0, <3>1 DEF RequestChain
    <3>3. a \in liveset[i]
      BY <1>1, <2>0 DEF LivesetCoversUp
    <3> QED  BY <1>1, <1>2, <1>5, <2>2, <3>1, <3>2, <3>3 DEF Chain
  <2>3. CASE a # i /\ k # i
    <3>1. lm'[a][k] = lm[a][k] /\ lm'[k][a] = lm[k][a] /\ lm'[a][a] = lm[a][a] /\ lm'[k][k] = lm[k][k]
      BY <1>2, <2>0, <2>3
    <3> QED  BY <1>1, <1>9, <2>0, <3>1 DEF RequestChain, Chain
  <2> QED  BY <2>1, <2>2, <2>3
<1>10. RequestChain'
  BY <1>9 DEF RequestChain
<1> QED  BY <1>3, <1>4, <1>8, <1>10 DEF Protocol

(* Steps of the script service thread.  Only the caller's own variables    *)
(* change, so that the invariant needs a look at one host only.            *)
LEMMA CallerFrame ==
  ASSUME LockInv, NEW i \in Host, UNCHANGED <<lm, statefile, section, liveset, up>>,
         \A x \in Host : x # i =>
            /\ scpc'[x] = scpc[x] /\ accepted'[x] = accepted[x]
            /\ pending_request'[x] = pending_request[x] /\ cancel_request'[x] = cancel_request[x],
         up[i], liveset[i] # {}, CallerState(i)'
  PROVE  Protocol'
<1>1. LivesetCoversUp' /\ UsersOnline' /\ DeadNotAccepted' /\ RequestChain'
  BY DEF LockInv, LivesetCoversUp, UsersOnline, DeadNotAccepted, Proposing, RequestChain, Chain
<1>2. ASSUME NEW x \in Host, x # i, CallerState(x) PROVE CallerState(x)'
  BY <1>2 DEF CallerState, Proposing, Withdrawn, is_locked, is_online
<1>3. CallerStates'
  BY <1>2 DEF LockInv, CallerStates
<1> QED  BY <1>1, <1>3 DEF Protocol

LEMMA LeaveProtocol ==
  ASSUME LockInv, NEW i \in Host, NEW mine \in BOOLEAN, LockLeave(i, mine),
         up[i], scpc[i] \in {"check", "wait"}, mine => is_locked(i, i)
  PROVE  Protocol'
<1> USE DEF LockInv, TypeOK
<1>1. /\ UNCHANGED <<lm, statefile, section, liveset, up, pending_request>>
      /\ scpc'[i] = "idle" /\ accepted'[i] = mine /\ cancel_request'[i] = (cancel_request[i] \/ ~ mine)
      /\ \A x \in Host : x # i => /\ scpc'[x] = scpc[x] /\ accepted'[x] = accepted[x]
                                  /\ cancel_request'[x] = cancel_request[x]
  BY DEF LockLeave, Return, sfvars, smvars
<1>2. CallerState(i) /\ Proposing(i) /\ liveset[i] # {}
  BY DEF CallerStates, Proposing, UsersOnline
<1>3. CASE ~ mine
  <2>1. CallerState(i)'
    BY <1>1, <1>2, <1>3 DEF CallerState, Proposing
  <2> QED  BY <1>1, <1>2, <2>1, CallerFrame
<1>4. CASE mine
  <2>1. i \in liveset[i]
    BY <1>2 DEF LivesetCoversUp
  <2>2. i \in lm[i][i].grant
    BY <1>4, <2>1 DEF is_locked
  <2>3. lm[i][i].request /\ ~ cancel_request[i] /\ ~ pending_request[i]
    BY <1>2, <2>2 DEF CallerState, Withdrawn
  <2>4. is_locked(i, i)'
    BY <1>1, <1>4 DEF is_locked, is_online
  <2>5. CallerState(i)'
    BY <1>1, <1>4, <2>3, <2>4 DEF CallerState, Proposing
  <2> QED  BY <1>1, <1>2, <2>5, CallerFrame
<1> QED  BY <1>3, <1>4

LEMMA ReturnProtocol ==
  ASSUME LockInv, NEW i \in Host, NEW mine \in BOOLEAN, Return(i, mine),
         UNCHANGED <<lm, statefile, section, liveset, up, pending_request, cancel_request>>,
         up[i], is_online(i, i), Settled(i) \/ accepted[i], mine => is_locked(i, i)
  PROVE  Protocol'
<1> USE DEF LockInv, TypeOK
<1>1. /\ scpc'[i] = "idle" /\ accepted'[i] = mine
      /\ \A x \in Host : x # i => scpc'[x] = scpc[x] /\ accepted'[x] = accepted[x]
  BY DEF Return
<1>2. CallerState(i) /\ liveset[i] # {} /\ i \in liveset[i]
  BY DEF CallerStates, is_online
<1>3. mine => accepted[i]
  BY <1>2 DEF Settled, Withdrawn, is_locked
<1>4. is_locked(i, i) => is_locked(i, i)'
  BY DEF is_locked, is_online
<1>5. pending_request[i] => cancel_request[i]
  BY <1>2 DEF CallerState, Settled
<1>6. CallerState(i)'
  BY <1>1, <1>2, <1>3, <1>4, <1>5 DEF CallerState, Proposing
<1> QED  BY <1>1, <1>2, <1>6, CallerFrame

LEMMA ProposeProtocol ==
  ASSUME LockInv, Patient, NEW i \in Host, ProposeMaster(i)
  PROVE  Protocol'
<1>1. /\ UNCHANGED <<lm, statefile, section, liveset, up, pending_request, cancel_request>>
      /\ up[i] /\ is_online(i, i) /\ (Settled(i) \/ accepted[i])
  BY DEF ProposeMaster, sfvars, lmvars, smvars
<1>2. CASE Return(i, get_lock_node_is(i, i))
  <2>1. get_lock_node_is(i, i) => is_locked(i, i)
    BY DEF get_lock_node_is
  <2> QED  BY ONLY LockInv, i \in Host, <1>1, <1>2, <2>1, LockNodeBoolean, ReturnProtocol
<1>3. CASE nobody_locked(i) /\ scpc' = [scpc EXCEPT ![i] = "request"] /\ UNCHANGED accepted
  <2>1. CallerState(i) /\ liveset[i] # {}
    BY <1>1 DEF LockInv, CallerStates, is_online
  <2>2. ~ accepted[i] /\ Settled(i)
    BY <1>1, <1>3, <2>1 DEF CallerState, nobody_locked
  <2>3. /\ scpc'[i] = "request" /\ accepted'[i] = accepted[i]
        /\ \A x \in Host : x # i => scpc'[x] = scpc[x] /\ accepted'[x] = accepted[x]
    BY <1>3 DEF LockInv, TypeOK
  <2>4. Withdrawn(i)' /\ ~ lm'[i][i].request
    BY <1>1, <2>2 DEF Settled, Withdrawn
  <2>5. CallerState(i)'
    BY <1>1, <2>2, <2>3, <2>4 DEF CallerState, Settled
  <2> QED  BY <1>1, <2>1, <2>3, <2>5, CallerFrame
<1> QED  BY <1>2, <1>3 DEF ProposeMaster

LEMMA RequestProtocol ==
  ASSUME LockInv, NEW i \in Host, LockRequest(i)
  PROVE  Protocol'
<1> USE DEF LockInv, TypeOK
<1>1. /\ UNCHANGED <<lm, statefile, section, liveset, up, accepted, cancel_request>>
      /\ scpc[i] = "request" /\ up[i]
      /\ scpc'[i] = "check" /\ pending_request'[i] = TRUE
      /\ \A x \in Host : x # i => scpc'[x] = scpc[x] /\ pending_request'[x] = pending_request[x]
  BY DEF LockRequest, sfvars, smvars
<1>2. CallerState(i) /\ liveset[i] # {} /\ ~ accepted[i]
  BY <1>1 DEF CallerStates, UsersOnline, Proposing, CallerState
<1>3. ~ lm'[i][i].request /\ Withdrawn(i)'
  BY <1>1, <1>2 DEF CallerState, Proposing, Withdrawn
<1>4. CallerState(i)'
  BY <1>1, <1>2, <1>3 DEF CallerState, Proposing
<1> QED  BY <1>1, <1>2, <1>4, CallerFrame

LEMMA CheckProtocol ==
  ASSUME LockInv, NEW i \in Host, LockCheck(i)
  PROVE  Protocol'
<1>1. up[i] /\ scpc[i] = "check"
  BY DEF LockCheck
<1>2. CASE LockLeave(i, get_lock_node_is(i, i))
  <2>1. get_lock_node_is(i, i) => is_locked(i, i)
    BY DEF get_lock_node_is
  <2>2. scpc[i] \in {"check", "wait"}
    BY <1>1
  <2> QED  BY ONLY LockInv, i \in Host, <1>1, <1>2, <2>1, <2>2, LockNodeBoolean, LeaveProtocol
<1>3. CASE nobody_locked(i)
  <2>1. /\ UNCHANGED <<lm, statefile, section, liveset, up, accepted, pending_request, cancel_request>>
        /\ scpc'[i] = "wait" /\ \A x \in Host : x # i => scpc'[x] = scpc[x]
    BY <1>3 DEF LockCheck, LockInv, TypeOK, sfvars, lmvars, smvars
  <2>2. CallerState(i) /\ liveset[i] # {}
    BY <1>1 DEF LockInv, CallerStates, UsersOnline, Proposing
  <2>3. CallerState(i)'
    BY <1>1, <2>1, <2>2 DEF CallerState, Proposing, Withdrawn
  <2> QED  BY <1>1, <2>1, <2>2, <2>3, CallerFrame
<1> QED  BY <1>2, <1>3 DEF LockCheck

LEMMA WokenProtocol ==
  ASSUME LockInv, NEW i \in Host, LockWoken(i)
  PROVE  Protocol'
<1>1. up[i] /\ scpc[i] = "wait"
  BY DEF LockWoken
<1>2. scpc[i] \in {"check", "wait"}
  BY <1>1
<1>3. CASE LockLeave(i, get_lock_node_is(i, i))
  <2>1. get_lock_node_is(i, i) => is_locked(i, i)
    BY DEF get_lock_node_is
  <2> QED  BY ONLY LockInv, i \in Host, <1>1, <1>2, <1>3, <2>1, LockNodeBoolean, LeaveProtocol
<1>4. CASE LockLeave(i, FALSE)
  BY ONLY LockInv, i \in Host, <1>1, <1>2, <1>4, LeaveProtocol
<1> QED  BY <1>3, <1>4 DEF LockWoken

LEMMA CancelProtocol ==
  ASSUME LockInv, NEW i \in Host, CancelMaster(i) \/ CancelAcknowledged(i)
  PROVE  Protocol'
<1> USE DEF LockInv, TypeOK
<1>1. CASE CancelMaster(i)
  <2>1. /\ UNCHANGED <<lm, statefile, section, liveset, up, pending_request>>
        /\ up[i] /\ i \in liveset[i] /\ scpc'[i] = "cancel" /\ cancel_request'[i] = TRUE /\ accepted'[i] = FALSE
        /\ \A x \in Host : x # i => /\ scpc'[x] = scpc[x] /\ accepted'[x] = accepted[x]
                                    /\ cancel_request'[x] = cancel_request[x]
    BY <1>1 DEF CancelMaster, sfvars, smvars, is_online
  <2>2. CallerState(i)'
    BY <2>1 DEF CallerState, Proposing
  <2> QED  BY <2>1, <2>2, CallerFrame
<1>2. CASE CancelAcknowledged(i)
  <2>1. /\ UNCHANGED <<lm, statefile, section, liveset, up, pending_request, cancel_request, accepted>>
        /\ up[i] /\ scpc[i] = "cancel" /\ scpc'[i] = "idle"
        /\ \A x \in Host : x # i => scpc'[x] = scpc[x]
    BY <1>2 DEF CancelAcknowledged, sfvars, lmvars, smvars
  <2>2. CallerState(i)
    BY <2>1 DEF CallerStates
  <2>3. CallerState(i)'
    BY <2>1, <2>2 DEF CallerState, Proposing
  <2>4. LivesetCoversUp' /\ UsersOnline' /\ DeadNotAccepted' /\ RequestChain'
    BY <2>1 DEF LivesetCoversUp, UsersOnline, DeadNotAccepted, Proposing, RequestChain, Chain
  <2>5. ASSUME NEW x \in Host, x # i, CallerState(x) PROVE CallerState(x)'
    BY <2>1, <2>5 DEF CallerState, Proposing, Withdrawn, is_locked, is_online
  <2>6. CallerStates'
    BY <2>1, <2>3, <2>5 DEF CallerStates
  <2> QED  BY <2>4, <2>6 DEF Protocol
<1> QED  BY <1>1, <1>2

(* Steps of the state manager, and crashes. *)
LEMMA FormProtocol ==
  ASSUME LockInv, NEW i \in Host, form_new_liveset(i)
  PROVE  Protocol'
<1> USE DEF LockInv, TypeOK
<1>1. /\ UNCHANGED <<lm, statefile, section, up, scpc, accepted, pending_request, cancel_request>>
      /\ liveset[i] = {} /\ liveset'[i] = Host /\ \A x \in Host : x # i => liveset'[x] = liveset[x]
  BY DEF form_new_liveset, sfvars, lmvars, scvars
<1>2. ~ lm[i][i].request /\ ~ Proposing(i) /\ ~ accepted[i]
  BY <1>1 DEF UsersOnline
<1>3. LivesetCoversUp' /\ DeadNotAccepted'
  BY <1>1 DEF LivesetCoversUp, DeadNotAccepted
<1>4. UsersOnline'
  <2>1. liveset'[i] # {}
    BY <1>1
  <2>2. ASSUME NEW x \in Host, x # i, lm'[x][x].request \/ Proposing(x)' \/ accepted'[x]
        PROVE  liveset'[x] # {}
    <3>1. liveset[x] # {}
      BY <1>1, <2>2 DEF UsersOnline, Proposing
    <3> QED  BY <1>1, <2>2, <3>1
  <2> QED  BY <2>1, <2>2 DEF UsersOnline
<1>5. RequestChain'
  <2>1. \A a, k \in Host : Chain(a, k) => Chain(a, k)'
    BY <1>1 DEF Chain
  <2> QED  BY <1>1, <1>2, <2>1 DEF RequestChain
<1>6. ASSUME NEW x \in Host, up[x] PROVE CallerState(x)'
  <2>1. CallerState(x)
    BY <1>6 DEF CallerStates
  <2>2. CASE x # i
    BY <1>1, <2>1, <2>2 DEF CallerState, Proposing, Withdrawn, is_locked, is_online
  <2>3. CASE x = i
    BY <1>1, <1>2, <2>1, <2>3 DEF CallerState, Proposing
  <2> QED  BY <2>2, <2>3
<1>7. CallerStates'
  BY <1>1, <1>6 DEF CallerStates
<1> QED  BY <1>3, <1>4, <1>5, <1>7 DEF Protocol

LEMMA DropProtocol ==
  ASSUME LockInv, NEW i \in Host, FaultHandlerDrop(i)
  PROVE  Protocol'
<1> USE DEF LockInv, TypeOK
<1>1. PICK gone \in SUBSET Down(i) : gone # {} /\ liveset' = [liveset EXCEPT ![i] = @ \ gone]
  BY DEF FaultHandlerDrop
<1>2. /\ UNCHANGED <<lm, statefile, section, up, scpc, accepted, pending_request, cancel_request>>
      /\ up[i] /\ \A x \in Host : liveset'[x] \subseteq liveset[x]
      /\ \A x \in Host : x # i => liveset'[x] = liveset[x]
      /\ \A y \in Host : up[y] /\ y \in liveset[i] => y \in liveset'[i]
      /\ liveset[i] # {}
  BY <1>1 DEF FaultHandlerDrop, Down, sfvars, lmvars, scvars
<1>3. i \in liveset[i] /\ i \in liveset'[i]
  BY <1>2 DEF LivesetCoversUp
<1>4. LivesetCoversUp' /\ DeadNotAccepted'
  BY <1>2 DEF LivesetCoversUp, DeadNotAccepted
<1>5. UsersOnline'
  BY <1>2, <1>3 DEF UsersOnline, Proposing
<1>6. RequestChain'
  BY <1>2 DEF RequestChain, Chain
<1>7. ASSUME NEW x \in Host, up[x] PROVE CallerState(x)'
  <2>1. CallerState(x)
    BY <1>7 DEF CallerStates
  <2>2. Withdrawn(x) => Withdrawn(x)'
    BY <1>2 DEF Withdrawn
  <2>3. is_locked(x, x) => is_locked(x, x)'
    BY <1>2, <1>3 DEF is_locked, is_online
  <2> QED  BY <1>2, <2>1, <2>2, <2>3 DEF CallerState, Proposing
<1>8. CallerStates'
  BY <1>2, <1>7 DEF CallerStates
<1> QED  BY <1>4, <1>5, <1>6, <1>8 DEF Protocol

LEMMA CrashProtocol ==
  ASSUME LockInv, NEW i \in Host, Crash(i)
  PROVE  Protocol'
<1> USE DEF LockInv, TypeOK
<1>1. /\ UNCHANGED <<lm, statefile, section, liveset, scpc, pending_request, cancel_request>>
      /\ ~ up'[i] /\ ~ accepted'[i]
      /\ \A x \in Host : x # i => up'[x] = up[x] /\ accepted'[x] = accepted[x]
  BY DEF Crash, sfvars, lmvars
<1>2. LivesetCoversUp' /\ DeadNotAccepted' /\ UsersOnline' /\ RequestChain'
  BY <1>1 DEF LivesetCoversUp, DeadNotAccepted, UsersOnline, Proposing, RequestChain, Chain
<1>3. ASSUME NEW x \in Host, up'[x] PROVE CallerState(x)'
  <2>1. x # i /\ CallerState(x)
    BY <1>1, <1>3 DEF CallerStates
  <2> QED  BY <1>1, <2>1 DEF CallerState, Proposing, Withdrawn, is_locked, is_online
<1>4. CallerStates'
  BY <1>3 DEF CallerStates
<1> QED  BY <1>2, <1>4 DEF Protocol

LEMMA NextInv == LockInv /\ Patient /\ [Next]_vars => LockInv'
<1> SUFFICES ASSUME LockInv, Patient, [Next]_vars PROVE LockInv'
  OBVIOUS
<1>0. TypeOK' /\ GrantDiscipline'
  BY NextType, NextDiscipline DEF LockInv
<1>1. ASSUME NEW i \in Host, SfThread(i) PROVE Protocol'
  <2>1. ASSUME SfSkipWrite(i) PROVE Protocol'
    BY <2>1, IdleProtocol DEF SfSkipWrite, lmvars, scvars, smvars
  <2>2. ASSUME write_hostspecific(i) PROVE Protocol'
    BY <2>2, WriteProtocol DEF write_hostspecific, lmvars, scvars, smvars
  <2> QED  BY <1>1, <2>1, <2>2, ReadProtocol, PublishProtocol DEF SfThread
<1>2. ASSUME NEW i \in Host, SfError(i) PROVE Protocol'
  BY <1>2, IdleProtocol, WriteProtocol
  DEF SfError, write_hostspecific_failed, readsf_failed, LoseAccess, scvars, smvars
<1>3. ASSUME NEW i \in Host, ScThread(i) PROVE Protocol'
  BY <1>3, RequestProtocol, CheckProtocol, WokenProtocol, CancelProtocol DEF ScThread
<1>4. ASSUME NEW i \in Host, SmThread(i) PROVE Protocol'
  BY <1>4, FormProtocol, DropProtocol DEF SmThread
<1>5. ASSUME UNCHANGED vars PROVE Protocol'
  BY <1>5, IdleProtocol DEF vars, sfvars, lmvars, scvars, smvars
<1>6. Protocol'
  BY <1>1, <1>2, <1>3, <1>4, <1>5, PassProtocol, ProposeProtocol, CancelProtocol, CrashProtocol DEF Next
<1> QED  BY <1>0, <1>6 DEF LockInv, Protocol

(* The inductive invariant of the lock holds in every reachable state of a *)
(* pool whose toolstacks are patient.                                      *)
THEOREM LockInvariant == ASSUME Patient PROVE Spec => []LockInv
<1>1. Init => LockInv
  BY InitType, InitDiscipline, InitProtocol DEF LockInv, Protocol
<1>2. LockInv /\ [Next]_vars => LockInv'
  BY NextInv
<1> QED  BY <1>1, <1>2, PTL DEF Spec

(* Two holders would both be granted by the other one, but the one of      *)
(* lower priority granted only after it saw the other one's request.       *)
LEMMA HoldersExclude == LockInv => LockExclusive
<1> USE DEF LockInv, TypeOK
<1>1. ASSUME LockInv, NEW a \in Host, NEW b \in Host, a < b, Holds(a), Holds(b) PROVE FALSE
  <2>1. a \in liveset[a] /\ b \in liveset[a] /\ a \in liveset[b]
    BY <1>1 DEF Holds, is_locked, is_online, LivesetCoversUp
  <2>2. a \in lm[a][b].grant /\ b \in lm[b][a].grant /\ a # b
    BY <1>1, <2>1 DEF Holds, is_locked, Host
  <2>3. Chain(a, b)
    BY <1>1, <2>1, <2>2 DEF Holds, RequestChain
  <2>4. lm[b][a].request
    BY <2>2, <2>3 DEF Chain
  <2> QED  BY <1>1, <2>2, <2>4 DEF GrantDiscipline
<1>2. \A a, b \in Host : a = b \/ a < b \/ b < a
  BY ConstAssumption DEF Host
<1> QED  BY <1>1, <1>2 DEF LockExclusive

(* With patient toolstacks at most one running host holds the lock, for    *)
(* any number of hosts, cancellations, crashes and State-File errors.      *)
THEOREM LockIsExclusive == ASSUME Patient PROVE Spec => []LockExclusive
  BY LockInvariant, HoldersExclude, PTL

(* With patient toolstacks at most one running host takes itself for the   *)
(* master.                                                                 *)
THEOREM MasterIsExclusive == ASSUME Patient PROVE Spec => []MasterExclusive
<1>1. LockInv => MasterExclusive
  <2>1. ASSUME LockInv, NEW a \in Host, accepted[a] PROVE Holds(a)
    BY <2>1 DEF LockInv, CallerStates, CallerState, DeadNotAccepted, Holds
  <2> QED  BY <2>1, HoldersExclude DEF MasterExclusive, LockExclusive
<1> QED  BY <1>1, LockInvariant, PTL

(* With patient toolstacks a holder keeps the lock until it cancels its    *)
(* request or dies.                                                        *)
THEOREM LockIsStable == ASSUME Patient PROVE Spec => LockStable
<1>1. ASSUME LockInv, [Next]_vars, NEW a \in Host, Holds(a), ~ cancel_request[a], up'[a]
      PROVE  Holds(a)'
  <2> USE <1>1 DEF LockInv, TypeOK
  <2>1. /\ up[a] /\ lm[a][a].request /\ a \in liveset[a] /\ is_locked(a, a)
        /\ \A k \in liveset[a] : k \in Host /\ a \in lm[a][k].grant
    BY DEF Holds, is_locked, is_online
  <2>2. ASSUME NEW i \in Host, SfPublish(i) PROVE Holds(a)'
    <3>1. ASSUME NEW k \in liveset[a] PROVE a \in lm'[a][k].grant
      <4>1. k # a => a \in section[a][k].grant
        BY <2>1, <3>1 DEF RequestChain, Chain
      <4>2. lm'[a][k] = lm[a][k] \/ (k # a /\ lm'[a][k] = section[a][k])
        BY <2>1, <2>2, <3>1, PublishFields
      <4> QED  BY <2>1, <3>1, <4>1, <4>2
    <3>2. lm'[a][a] = lm[a][a] /\ liveset' = liveset
      BY <2>2, PublishFields DEF SfPublish, smvars
    <3> QED  BY <2>1, <3>1, <3>2 DEF Holds, is_locked, is_online
  <2>3. ASSUME NEW i \in Host, lock_mgr(i) PROVE Holds(a)'
    <3>1. liveset' = liveset /\ \A k \in Host \ {a} : lm'[a][k] = lm[a][k]
      BY <2>3, PassFields DEF lock_mgr, smvars
    <3>2. lm'[a][a].request /\ a \in lm'[a][a].grant
      <4>1. CASE i # a
        BY <2>1, <2>3, <4>1, PassFields
      <4>2. CASE i = a
        <5>1. PassRequest(a) /\ a \in PassGrant(a)
          BY <2>1 DEF PassRequest, PassGrant, Requesters
        <5> QED  BY <2>3, <4>2, <5>1, PassFields
      <4> QED  BY <4>1, <4>2
    <3>3. \A k \in liveset[a] : a \in lm'[a][k].grant
      BY <2>1, <3>1, <3>2
    <3> QED  BY <2>1, <3>1, <3>2, <3>3 DEF Holds, is_locked, is_online
  <2>4. ASSUME NEW i \in Host, FaultHandlerDrop(i) PROVE Holds(a)'
    <3>1. /\ UNCHANGED lm /\ liveset'[a] \subseteq liveset[a]
          /\ a \in liveset'[a]
      BY <2>1, <2>4 DEF FaultHandlerDrop, Down
    <3> QED  BY <2>1, <3>1 DEF Holds, is_locked, is_online
  <2>5. ASSUME NEW i \in Host, form_new_liveset(i) PROVE Holds(a)'
    BY <2>1, <2>5 DEF form_new_liveset, Holds, is_locked, is_online
  <2>6. CASE UNCHANGED <<lm, liveset>>
    BY <2>1, <2>6 DEF Holds, is_locked, is_online
  <2> QED
    BY <2>2, <2>3, <2>4, <2>5, <2>6
    DEF Next, SfThread, SfError, ScThread, SmThread, write_hostspecific, write_hostspecific_failed,
        readsf_failed, LoseAccess, SfSkipWrite, SfRead, ProposeMaster, LockRequest, LockCheck,
        LockWoken, LockLeave, CancelMaster, CancelAcknowledged, Crash, vars, smvars
<1>2. LockInv /\ [Next]_vars =>
         [\A i \in Host : Holds(i) => Holds(i)' \/ cancel_request[i] \/ ~ up'[i]]_vars
  BY <1>1
<1> QED  BY <1>2, LockInvariant, PTL DEF Spec, LockStable

(***************************************************************************)
(* The refinement: every step is a call, an answer or the end of one host  *)
(* in MasterService, or changes nothing a toolstack can see.               *)
(***************************************************************************)
masterOf == {i \in Host : accepted[i]}
callOf == [i \in Host |-> CallOf(i)]
runningOf == {i \in Host : up[i]}

LEMMA ServiceInit == Init => Service!Init
  BY DEF Init, Service!Init, CallOf

(* A call of host i that leaves the other hosts alone. *)
LEMMA CallFrame ==
  ASSUME TypeOK, TypeOK', NEW i \in Host, UNCHANGED up,
         \A x \in Host \ {i} : scpc'[x] = scpc[x] /\ accepted'[x] = accepted[x]
  PROVE  /\ callOf' = [callOf EXCEPT ![i] = CallOf(i)']
         /\ callOf[i] = CallOf(i)
         /\ accepted'[i] = accepted[i] => masterOf' = masterOf
         /\ ~ accepted'[i] => masterOf' = masterOf \ {i}
         /\ runningOf' = runningOf
<1>1. \A x \in Host \ {i} : CallOf(x)' = CallOf(x)
  BY DEF CallOf
<1>2. callOf' = [callOf EXCEPT ![i] = CallOf(i)'] /\ callOf[i] = CallOf(i)
  BY <1>1 DEF callOf
<1> QED  BY <1>2 DEF masterOf, runningOf, TypeOK

(* The answer to a call that waited. *)
LEMMA LeaveIsAnswer ==
  ASSUME LockInv, LockInv', NEW i \in Host, NEW mine \in BOOLEAN, LockLeave(i, mine),
         up[i], scpc[i] \in {"check", "wait"}
  PROVE  i \in runningOf /\ Service!Call(i)
<1> USE DEF LockInv
<1>1. /\ scpc'[i] = "idle" /\ accepted'[i] = mine /\ UNCHANGED up
      /\ \A x \in Host \ {i} : scpc'[x] = scpc[x] /\ accepted'[x] = accepted[x]
  BY DEF LockLeave, Return, smvars, TypeOK
<1>2. CallOf(i) = "propose" /\ CallOf(i)' = "none"
  BY <1>1 DEF CallOf
<1>3. MasterExclusive'
  <2>1. \A a \in Host : accepted'[a] => Holds(a)'
    BY DEF CallerStates, CallerState, DeadNotAccepted, Holds
  <2>2. LockExclusive'
    BY HoldersExclude, PTL
  <2> QED  BY <2>1, <2>2 DEF MasterExclusive, LockExclusive
<1>4. ASSUME mine PROVE masterOf \subseteq {i} /\ masterOf' = {i}
  <2>1. \A x \in Host : accepted'[x] <=> x = i
    BY ONLY <1>1, <1>3, <1>4, i \in Host DEF MasterExclusive
  <2>2. \A x \in Host : accepted[x] => x = i
    BY ONLY <1>1, <2>1, i \in Host
  <2> QED  BY ONLY <2>1, <2>2, i \in Host DEF masterOf
<1> QED
  BY <1>1, <1>2, <1>4, CallFrame
  DEF Service!Call, Service!ProposeReturns, Service!Answer, runningOf, masterOf, callOf

(* An answer at once: who is told TRUE had the role before. *)
LEMMA ProposeIsCall ==
  ASSUME LockInv, LockInv', Patient, NEW i \in Host, ProposeMaster(i)
  PROVE  i \in runningOf /\ Service!Call(i)
<1> USE DEF LockInv
<1>1. /\ scpc[i] = "idle" /\ up[i] /\ UNCHANGED <<lm, up>>
      /\ \A x \in Host \ {i} : scpc'[x] = scpc[x] /\ accepted'[x] = accepted[x]
      /\ Settled(i) \/ accepted[i]
  BY DEF ProposeMaster, Return, smvars, TypeOK
<1>2. CallOf(i) = "none" /\ i \in runningOf
  BY <1>1 DEF CallOf, runningOf
<1>3. CASE Return(i, get_lock_node_is(i, i))
  <2>1. scpc'[i] = "idle"
    BY <1>3 DEF Return, TypeOK
  <2>2. accepted'[i] => lm'[i][i].request /\ up'[i]
    BY <1>1 DEF CallerStates, CallerState, DeadNotAccepted
  <2>3. accepted'[i] => accepted[i]
    BY <1>1, <2>2 DEF Settled, Withdrawn
  <2>4. CallOf(i)' = "none" /\ (accepted'[i] = accepted[i] \/ ~ accepted'[i])
    BY <2>1, <2>3 DEF CallOf, TypeOK
  <2>5. UNCHANGED callOf
    BY <1>1, <1>2, <2>4, CallFrame DEF callOf
  <2> QED
    BY <1>1, <1>2, <2>4, <2>5, CallFrame
    DEF Service!Call, Service!ProposeAtOnce, runningOf, masterOf, callOf
<1>4. CASE scpc' = [scpc EXCEPT ![i] = "request"] /\ UNCHANGED accepted
  <2>1. CallOf(i)' = "propose" /\ accepted'[i] = accepted[i]
    BY <1>4 DEF CallOf, TypeOK
  <2> QED
    BY <1>1, <1>2, <2>1, CallFrame
    DEF Service!Call, Service!Propose, runningOf, masterOf, callOf
<1> QED  BY <1>3, <1>4 DEF ProposeMaster

LEMMA CancelIsCall ==
  ASSUME TypeOK, TypeOK', NEW i \in Host, CancelMaster(i) \/ CancelAcknowledged(i)
  PROVE  i \in runningOf /\ Service!Call(i)
<1>1. /\ up[i] /\ UNCHANGED up
      /\ \A x \in Host \ {i} : scpc'[x] = scpc[x] /\ accepted'[x] = accepted[x]
  BY DEF CancelMaster, CancelAcknowledged, smvars, TypeOK
<1>2. CASE CancelMaster(i)
  <2>1. CallOf(i) = "none" /\ CallOf(i)' = "cancel" /\ ~ accepted'[i]
    BY <1>2 DEF CancelMaster, CallOf, TypeOK
  <2> QED
    BY <1>1, <2>1, CallFrame DEF Service!Call, Service!Cancel, runningOf, masterOf, callOf
<1>3. CASE CancelAcknowledged(i)
  <2>1. CallOf(i) = "cancel" /\ CallOf(i)' = "none" /\ accepted'[i] = accepted[i]
    BY <1>3 DEF CancelAcknowledged, CallOf, TypeOK
  <2> QED
    BY <1>1, <2>1, CallFrame DEF Service!Call, Service!CancelReturns, runningOf, masterOf, callOf
<1> QED  BY <1>2, <1>3

(* The end of a host. *)
LEMMA CrashIsStop ==
  ASSUME TypeOK, NEW i \in Host, Crash(i)
  PROVE  i \in runningOf /\ Service!Stop(i)
<1>1. UNCHANGED scpc /\ up[i]
  BY DEF Crash
<1>2. masterOf' = masterOf \ {i} /\ runningOf' = runningOf \ {i} /\ i \in runningOf
  BY DEF Crash, TypeOK, masterOf, runningOf
<1> QED  BY <1>1, <1>2 DEF Service!Stop, CallOf, masterOf, runningOf

(* A step inside a call, or of another thread, shows a toolstack nothing. *)
LEMMA HiddenStep ==
  ASSUME UNCHANGED <<accepted, up>>, \A x \in Host : CallOf(x)' = CallOf(x)
  PROVE  UNCHANGED Service!vars
  BY DEF Service!vars

LEMMA WaitHidden ==
  ASSUME TypeOK, NEW i \in Host, scpc[i] \in {"request", "check"}, UNCHANGED <<accepted, up>>,
         \E pc \in {"check", "wait"} : scpc' = [scpc EXCEPT ![i] = pc]
  PROVE  UNCHANGED Service!vars
<1>1. \A x \in Host : CallOf(x)' = CallOf(x)
  BY DEF CallOf, TypeOK
<1> QED  BY <1>1, HiddenStep

LEMMA ServiceNext ==
  LockInv /\ LockInv' /\ Patient /\ [Next]_vars => [Service!Next]_(Service!vars)
<1> SUFFICES ASSUME LockInv, LockInv', Patient, [Next]_vars
             PROVE  Service!Next \/ UNCHANGED Service!vars
  OBVIOUS
<1>1. ASSUME NEW i \in Host, i \in runningOf, Service!Call(i) \/ Service!Stop(i)
      PROVE  Service!Next
  BY <1>1 DEF Service!Next, runningOf
<1>2. ASSUME NEW i \in Host, ScThread(i) PROVE Service!Next \/ UNCHANGED Service!vars
  <2>1. CASE LockRequest(i)
    BY <2>1, WaitHidden DEF LockRequest, smvars, LockInv
  <2>2. CASE LockCheck(i)
    <3>1. ASSUME LockLeave(i, get_lock_node_is(i, i)) PROVE Service!Next
      BY <1>1, <2>2, <3>1, LeaveIsAnswer, LockNodeBoolean DEF LockCheck
    <3>2. ASSUME scpc' = [scpc EXCEPT ![i] = "wait"], UNCHANGED <<accepted, smvars>>
          PROVE  UNCHANGED Service!vars
      BY <2>2, <3>2, WaitHidden DEF LockCheck, smvars, LockInv
    <3> QED  BY <2>2, <3>1, <3>2 DEF LockCheck
  <2>3. CASE LockWoken(i)
    <3>1. ASSUME NEW mine \in BOOLEAN, LockLeave(i, mine) PROVE Service!Next
      BY <1>1, <2>3, <3>1, LeaveIsAnswer DEF LockWoken
    <3> QED  BY <2>3, <3>1, LockNodeBoolean DEF LockWoken
  <2>4. CASE CancelAcknowledged(i)
    BY <1>1, <2>4, CancelIsCall DEF LockInv
  <2> QED  BY <1>2, <2>1, <2>2, <2>3, <2>4 DEF ScThread
<1>3. ASSUME UNCHANGED <<scpc, accepted, up>> PROVE UNCHANGED Service!vars
  BY <1>3, HiddenStep DEF CallOf
<1>4. ASSUME NEW i \in Host, SfThread(i) \/ SfError(i) \/ lock_mgr(i) \/ SmThread(i)
      PROVE  UNCHANGED <<scpc, accepted, up>>
  BY <1>4
  DEF SfThread, SfError, SmThread, write_hostspecific, write_hostspecific_failed, readsf_failed,
      LoseAccess, SfSkipWrite, SfRead, SfPublish, lock_mgr, form_new_liveset, FaultHandlerDrop,
      scvars, smvars
<1>5. ASSUME UNCHANGED vars PROVE UNCHANGED <<scpc, accepted, up>>
  BY <1>5 DEF vars, scvars, smvars
<1>6. ASSUME NEW i \in Host, ProposeMaster(i) \/ CancelMaster(i) \/ Crash(i) PROVE Service!Next
  BY <1>1, <1>6, ProposeIsCall, CancelIsCall, CrashIsStop DEF LockInv
<1> QED  BY <1>2, <1>3, <1>4, <1>5, <1>6 DEF Next

(* With patient toolstacks the lock manager implements the role of a       *)
(* single master, for every number of hosts and whatever fails: no stale   *)
(* section, dead host or lost access gives it to a second host or takes it *)
(* from the one that has it.                                               *)
THEOREM LockImplementsService == ASSUME Patient PROVE Spec => ImplementsService
<1>1. LockInv /\ LockInv' /\ [Next]_vars => [Service!Next]_(Service!vars)
  BY ServiceNext
<1> QED  BY ServiceInit, <1>1, LockInvariant, PTL DEF Spec, ImplementsService, Service!Spec
=============================================================================
