------------------------- MODULE FaultHandlerProofs -------------------------
(***************************************************************************)
(* Proofs about the phases of the fault handler, for any number of hosts   *)
(* of which any may stop and come back.                                    *)
(***************************************************************************)
EXTENDS FaultHandler, FiniteSetTheorems, TLAPS

-----------------------------------------------------------------------------
(* The ring of the phases *)

RingPhase == {"STARTED", "FHREADY", "FH1", "FH1DONE", "FH2", "FH2DONE", "FH3", "FH3DONE", "FH4", "FH4DONE"}

LEMMA PhaseIs == Phase = RingPhase \cup {"STARTING"}
  BY DEF Phase, Ring, RingPhase

LEMMA NextPhaseAt ==
  ASSUME NEW n \in 1 .. 10
  PROVE  NextPhase(Ring[n]) = Ring[(n % 10) + 1]
<1>1. \A m \in 1 .. 10 : Ring[m] = Ring[n] => m = n
  BY DEF Ring
<1> QED
  BY <1>1 DEF NextPhase

LEMMA NextPhases ==
  /\ NextPhase("STARTED") = "FHREADY" /\ NextPhase("FHREADY") = "FH1"
  /\ NextPhase("FH1") = "FH1DONE" /\ NextPhase("FH1DONE") = "FH2"
  /\ NextPhase("FH2") = "FH2DONE" /\ NextPhase("FH2DONE") = "FH3"
  /\ NextPhase("FH3") = "FH3DONE" /\ NextPhase("FH3DONE") = "FH4"
  /\ NextPhase("FH4") = "FH4DONE" /\ NextPhase("FH4DONE") = "STARTED"
<1>1. /\ Ring[1] = "STARTED" /\ Ring[2] = "FHREADY" /\ Ring[3] = "FH1" /\ Ring[4] = "FH1DONE"
      /\ Ring[5] = "FH2" /\ Ring[6] = "FH2DONE" /\ Ring[7] = "FH3" /\ Ring[8] = "FH3DONE"
      /\ Ring[9] = "FH4" /\ Ring[10] = "FH4DONE"
  BY DEF Ring
<1>2. /\ NextPhase(Ring[1]) = Ring[2] /\ NextPhase(Ring[2]) = Ring[3] /\ NextPhase(Ring[3]) = Ring[4]
      /\ NextPhase(Ring[4]) = Ring[5] /\ NextPhase(Ring[5]) = Ring[6] /\ NextPhase(Ring[6]) = Ring[7]
      /\ NextPhase(Ring[7]) = Ring[8] /\ NextPhase(Ring[8]) = Ring[9] /\ NextPhase(Ring[9]) = Ring[10]
  BY NextPhaseAt
<1>3. NextPhase(Ring[10]) = Ring[1]
  BY NextPhaseAt
<1> QED
  BY <1>1, <1>2, <1>3

(* All that matters of the ring here: it has more than two phases. *)
LEMMA RingFacts ==
  ASSUME NEW p \in RingPhase
  PROVE  /\ NextPhase(p) \in RingPhase /\ NextPhase(p) # p /\ NextPhase(NextPhase(p)) # p
         /\ \A q \in RingPhase : NextPhase(q) = NextPhase(p) => q = p
  BY NextPhases DEF RingPhase

-----------------------------------------------------------------------------
(* Types *)

LEMMA ReportType == ASSUME TypeOK, NEW j \in Host PROVE Report(j) \in Reports
  BY DEF TypeOK, Report, Reports

LEMMA InitType == Init => TypeOK
<1> SUFFICES ASSUME Init PROVE TypeOK
  OBVIOUS
<1>1. /\ phase \in [Host -> Phase]
      /\ hbdomain \in [Host -> SUBSET Host]
      /\ sfdomain \in [Host -> SUBSET Host]
  BY PhaseIs DEF Init, RingPhase
<1>2. NoReport \in Reports /\ \A j \in Host : Report(j) \in Reports
  BY <1>1, PhaseIs DEF Report, Reports, NoReport
<1>3. hbview \in [Host -> [Host -> Reports]]
  BY <1>2 DEF Init
<1>4. NoCopy \in [hb : SUBSET Host, sf : SUBSET Host, wins : BOOLEAN]
  BY DEF NoCopy
<1>5. liveset \in [Host -> SUBSET Host]
  BY FaultAssumption DEF Init
<1> QED
  BY <1>1, <1>3, <1>4, <1>5 DEF Init, TypeOK

LEMMA StopType ==
  ASSUME TypeOK, NEW k \in Host, Stop(k)
  PROVE  TypeOK'
<1>1. NoReport \in Reports
  BY PhaseIs DEF Reports, NoReport
<1>2. NoCopy \in [hb : SUBSET Host, sf : SUBSET Host, wins : BOOLEAN]
  BY DEF NoCopy
<1>3. hbview' \in [Host -> [Host -> Reports]] /\ sfview' \in [Host -> [Host -> Reports]]
  BY <1>1 DEF TypeOK, Stop
<1>4. stable' \in [Host -> [hb : SUBSET Host, sf : SUBSET Host, wins : BOOLEAN]]
  BY <1>2 DEF TypeOK, Stop
<1>5. /\ need_fh' \in [Host -> BOOLEAN] /\ join_block' \in [Host -> BOOLEAN] /\ agreed' \in [Host -> BOOLEAN]
  BY DEF TypeOK, Stop
<1> QED
  BY <1>3, <1>4, <1>5 DEF TypeOK, Stop, domains

LEMMA TypeStep ==
  ASSUME TypeOK, [Next]_vars
  PROVE  TypeOK'
<1> USE FaultAssumption DEF TypeOK, domains, smvars, fhvars, views, calls
<1>1. ASSUME NEW i \in Host, wait_fh_event(i) PROVE TypeOK'
  <2>1. phase' \in [Host -> Phase]
    BY <1>1, PhaseIs DEF wait_fh_event, RingPhase
  <2> QED
    BY <1>1, <2>1 DEF wait_fh_event
<1>2. ASSUME NEW i \in Host, Advance(i) PROVE TypeOK'
  <2>1. phase' = [phase EXCEPT ![i] = NextPhase(phase[i])] /\ phase[i] \in RingPhase
    BY <1>2 DEF Advance, InHandler, RingPhase
  <2>2. phase' \in [Host -> Phase]
    BY <2>1, RingFacts, PhaseIs
  <2> QED
    BY <1>2, <2>2 DEF Advance
<1>3. ASSUME NEW i \in Host, Agree(i) PROVE TypeOK'
  BY <1>3 DEF Agree, InHandler
<1>4. ASSUME NEW i \in Host, Snapshot(i) PROVE TypeOK'
  <2>1. phase' \in [Host -> Phase]
    BY <1>4, PhaseIs DEF Snapshot, RingPhase
  <2>2. Wins(i) \in BOOLEAN
    BY Zenon DEF Wins
  <2>3. stable' \in [Host -> [hb : SUBSET Host, sf : SUBSET Host, wins : BOOLEAN]]
    BY <1>4, <2>2 DEF Snapshot
  <2>4. agreed' \in [Host -> BOOLEAN]
    BY <1>4 DEF Snapshot
  <2> QED
    BY <1>4, <2>1, <2>3, <2>4 DEF Snapshot
<1>5. ASSUME NEW i \in Host, Survive(i) PROVE TypeOK'
  <2>1. phase' \in [Host -> Phase]
    BY <1>5, PhaseIs DEF Survive, RingPhase
  <2>2. NoCopy \in [hb : SUBSET Host, sf : SUBSET Host, wins : BOOLEAN]
    BY DEF NoCopy
  <2>3. stable[i].hb \in SUBSET Host /\ stable[i].sf \in SUBSET Host
    OBVIOUS
  <2>4. /\ proposed' \in [Host -> SUBSET Host] /\ hbdomain' \in [Host -> SUBSET Host]
        /\ sfdomain' \in [Host -> SUBSET Host]
    BY <1>5 DEF Survive
  <2>5. /\ last_hbdomain' \in [Host -> SUBSET Host] /\ last_sfdomain' \in [Host -> SUBSET Host]
        /\ stable' \in [Host -> [hb : SUBSET Host, sf : SUBSET Host, wins : BOOLEAN]]
    BY <1>5, <2>2, <2>3 DEF Survive
  <2> QED
    BY <1>5, <2>1, <2>4, <2>5 DEF Survive
<1>6. ASSUME NEW i \in Host, self_fence(i) PROVE TypeOK'
  BY <1>6, StopType DEF self_fence, Crash
<1>7. ASSUME NEW i \in Host, UpdateLiveset(i) PROVE TypeOK'
  <2>1. phase' \in [Host -> Phase]
    BY <1>7, PhaseIs DEF UpdateLiveset, RingPhase
  <2> QED
    BY <1>7, <2>1 DEF UpdateLiveset
<1>8. ASSUME NEW i \in Host, EndFaultHandler(i) PROVE TypeOK'
  BY <1>8 DEF EndFaultHandler, InHandler
<1>9. ASSUME NEW i \in Host, update_hbdomain(i) PROVE TypeOK'
  BY <1>9 DEF update_hbdomain
<1>10. ASSUME NEW i \in Host, HbStartFh(i) PROVE TypeOK'
  <2>1. need_fh' \in [Host -> BOOLEAN]
    BY <1>10 DEF HbStartFh, start_fh
  <2>2. /\ last_hbdomain' \in [Host -> SUBSET Host] /\ last_sfdomain' \in [Host -> SUBSET Host]
    BY <1>10 DEF HbStartFh, start_fh
  <2> QED
    BY <1>10, <2>1, <2>2 DEF HbStartFh
<1>11. ASSUME NEW i \in Host, update_sfdomain(i) PROVE TypeOK'
  BY <1>11 DEF update_sfdomain
<1>12. ASSUME NEW i \in Host, SfStartFh(i) PROVE TypeOK'
  <2>1. need_fh' \in [Host -> BOOLEAN]
    BY <1>12 DEF SfStartFh, start_fh
  <2>2. /\ last_hbdomain' \in [Host -> SUBSET Host] /\ last_sfdomain' \in [Host -> SUBSET Host]
    BY <1>12 DEF SfStartFh, start_fh
  <2> QED
    BY <1>12, <2>1, <2>2 DEF SfStartFh
<1>13. ASSUME NEW i \in Host, update_hbdomain_join(i) PROVE TypeOK'
  BY <1>13 DEF update_hbdomain_join
<1>14. ASSUME NEW i \in Host, update_sfdomain_join(i) PROVE TypeOK'
  BY <1>14 DEF update_sfdomain_join
<1>15. ASSUME NEW i \in Host, readsf(i) PROVE TypeOK'
  <2>1. \A j \in Host : Report(j) \in Reports
    BY ReportType
  <2>2. sfview' \in [Host -> [Host -> Reports]]
    BY <1>15, <2>1 DEF readsf
  <2> QED
    BY <1>15, <2>2 DEF readsf
<1>16. ASSUME NEW i \in Host, Crash(i) PROVE TypeOK'
  BY <1>16, StopType DEF self_fence, Crash
<1>17. ASSUME NEW i \in Host, Restart(i) PROVE TypeOK'
  <2>1. phase' \in [Host -> Phase]
    BY <1>17, PhaseIs DEF Restart, RingPhase
  <2> QED
    BY <1>17, <2>1 DEF Restart
<1>18. ASSUME NEW i \in Host, NEW j \in Host, HbReceive(i, j) PROVE TypeOK'
  <2>1. hbview' \in [Host -> [Host -> Reports]]
    BY <1>18, ReportType DEF HbReceive
  <2> QED
    BY <1>18, <2>1 DEF HbReceive
<1>19. CASE UNCHANGED vars
  BY <1>19 DEF vars
<1> HIDE DEF TypeOK
<1> QED
  BY <1>1, <1>2, <1>3, <1>4, <1>5, <1>6, <1>7, <1>8, <1>9, <1>10, <1>11, <1>12, <1>13, <1>14,
     <1>15, <1>16, <1>17, <1>18, <1>19
  DEF Next, Quiet, HbThread, WorkerThread, Joining, SmThread

-----------------------------------------------------------------------------
(* The hosts stay together *)

(* Running hosts count each other in, on both media, in the liveset and in *)
(* the copies the survival rule decides on.                                *)
Counted ==
    \A i, j \in Host : Up(i) /\ Up(j) =>
        /\ j \in liveset[i] /\ j \in proposed[i] /\ j \in hbdomain[i] /\ j \in sfdomain[i]
        /\ phase[i] \in {"FH2DONE", "FH3"} => j \in stable[i].hb /\ j \in stable[i].sf

Phases ==
    \A i \in Host : Up(i) =>
        /\ phase[i] \in RingPhase
        /\ agreed[i] => phase[i] = "FH2"
        /\ ~ join_block[i] => phase[i] = "STARTED"

LEMMA UpShrinks ==
  ASSUME TypeOK, [Next]_vars, NEW x \in Host, Up(x)'
  PROVE  Up(x)
<1> USE DEF TypeOK, Up, domains, smvars, fhvars, views, calls
<1>1. ASSUME mode' = mode PROVE Up(x)
  BY <1>1
<1>2. ASSUME NEW k \in Host, Stop(k) PROVE Up(x)
  BY <1>2 DEF Stop
<1>3. ASSUME NEW k \in Host, Restart(k) PROVE Up(x)
  BY <1>3 DEF Restart
<1>4. mode' = mode \/ (\E k \in Host : Stop(k)) \/ \E k \in Host : Restart(k)
  BY DEF Next, Quiet, HbThread, WorkerThread, Joining, SmThread, vars, wait_fh_event, Advance, Agree,
     Snapshot, Survive, self_fence, UpdateLiveset, EndFaultHandler, update_hbdomain, HbStartFh,
     update_sfdomain, SfStartFh, update_hbdomain_join, update_sfdomain_join, readsf, Crash, HbReceive
<1> QED
  BY <1>1, <1>2, <1>3, <1>4

LEMMA CountedStep ==
  ASSUME TypeOK, Counted, [Next]_vars
  PROVE  Counted'
<1> USE FaultAssumption DEF TypeOK, Up, domains, smvars, fhvars, views, calls, Counted
<1>1. ASSUME NEW i \in Host, wait_fh_event(i) PROVE Counted'
  BY <1>1 DEF wait_fh_event
<1>2. ASSUME NEW i \in Host, Advance(i) PROVE Counted'
  <2>1. phase[i] \in {"FH2DONE", "FH3"} \/ ~ phase'[i] \in {"FH2DONE", "FH3"}
    BY <1>2, NextPhases DEF Advance, InHandler
  <2> QED
    BY <1>2, <2>1 DEF Advance
<1>3. ASSUME NEW i \in Host, Agree(i) PROVE Counted'
  BY <1>3 DEF Agree, InHandler
<1>4. ASSUME NEW i \in Host, Snapshot(i) PROVE Counted'
  <2>1. stable'[i].hb = hbdomain[i] /\ stable'[i].sf = sfdomain[i]
    BY <1>4 DEF Snapshot
  <2>2. \A x \in Host : x # i => stable'[x] = stable[x] /\ phase'[x] = phase[x]
    BY <1>4 DEF Snapshot
  <2>3. /\ mode' = mode
        /\ liveset' = liveset
        /\ proposed' = proposed
        /\ hbdomain' = hbdomain
        /\ sfdomain' = sfdomain
    BY <1>4 DEF Snapshot
  <2> QED
    BY <2>1, <2>2, <2>3
<1>5. ASSUME NEW i \in Host, Survive(i) PROVE Counted'
  <2>1. phase[i] = "FH3" /\ phase'[i] = "FH3DONE"
    BY <1>5 DEF Survive, InHandler
  <2>2. /\ proposed'[i] = proposed[i] \cap stable[i].hb \cap stable[i].sf \cap liveset[i]
        /\ hbdomain'[i] = hbdomain[i] \cap stable[i].hb \cap stable[i].sf \cap liveset[i]
        /\ sfdomain'[i] = sfdomain[i] \cap stable[i].hb \cap stable[i].sf \cap liveset[i]
    BY <1>5 DEF Survive
  <2>3. \A x \in Host : x # i => /\ stable'[x] = stable[x] /\ phase'[x] = phase[x] /\ proposed'[x] = proposed[x]
                                 /\ hbdomain'[x] = hbdomain[x] /\ sfdomain'[x] = sfdomain[x]
    BY <1>5 DEF Survive
  <2>4. mode' = mode /\ liveset' = liveset
    BY <1>5 DEF Survive
  <2>5. ASSUME NEW j \in Host, Up(i), Up(j)
        PROVE  j \in liveset'[i] /\ j \in proposed'[i] /\ j \in hbdomain'[i] /\ j \in sfdomain'[i]
    BY <2>1, <2>2, <2>4, <2>5
  <2> QED
    BY <2>1, <2>3, <2>4, <2>5
<1>6. ASSUME NEW i \in Host, self_fence(i) PROVE Counted'
  BY <1>6 DEF self_fence, InHandler, Stop
<1>7. ASSUME NEW i \in Host, UpdateLiveset(i) PROVE Counted'
  BY <1>7 DEF UpdateLiveset, InHandler
<1>8. ASSUME NEW i \in Host, EndFaultHandler(i) PROVE Counted'
  BY <1>8 DEF EndFaultHandler, InHandler
<1>9. ASSUME NEW i \in Host, update_hbdomain(i) PROVE Counted'
  <2>1. PICK gone \in SUBSET {k \in hbdomain[i] : Silent(i, k)} : hbdomain' = [hbdomain EXCEPT ![i] = @ \ gone]
    BY <1>9 DEF update_hbdomain
  <2>2. \A j \in gone : ~ Up(j)
    BY <2>1 DEF Silent
  <2>3. \A x, j \in Host : Up(j) /\ j \in hbdomain[x] => j \in hbdomain'[x]
    BY <2>1, <2>2
  <2>4. UNCHANGED <<mode, sfdomain, liveset, proposed, phase, stable>>
    BY <1>9 DEF update_hbdomain
  <2> QED
    BY <2>3, <2>4
<1>10. ASSUME NEW i \in Host, HbStartFh(i) PROVE Counted'
  BY <1>10 DEF HbStartFh, start_fh
<1>11. ASSUME NEW i \in Host, update_sfdomain(i) PROVE Counted'
  <2>1. PICK gone \in SUBSET {k \in sfdomain[i] : Silent(i, k)} : sfdomain' = [sfdomain EXCEPT ![i] = @ \ gone]
    BY <1>11 DEF update_sfdomain
  <2>2. \A j \in gone : ~ Up(j)
    BY <2>1 DEF Silent
  <2>3. \A x, j \in Host : Up(j) /\ j \in sfdomain[x] => j \in sfdomain'[x]
    BY <2>1, <2>2
  <2>4. UNCHANGED <<mode, hbdomain, liveset, proposed, phase, stable>>
    BY <1>11 DEF update_sfdomain
  <2> QED
    BY <2>3, <2>4
<1>12. ASSUME NEW i \in Host, SfStartFh(i) PROVE Counted'
  BY <1>12 DEF SfStartFh, start_fh
<1>13. ASSUME NEW i \in Host, update_hbdomain_join(i) PROVE Counted'
  BY <1>13 DEF update_hbdomain_join
<1>14. ASSUME NEW i \in Host, update_sfdomain_join(i) PROVE Counted'
  BY <1>14 DEF update_sfdomain_join
<1>15. ASSUME NEW i \in Host, readsf(i) PROVE Counted'
  BY <1>15 DEF readsf
<1>16. ASSUME NEW i \in Host, Crash(i) PROVE Counted'
  BY <1>16 DEF Crash, Stop
<1>17. ASSUME NEW i \in Host, Restart(i) PROVE Counted'
  BY <1>17 DEF Restart
<1>18. ASSUME NEW i \in Host, NEW j \in Host, HbReceive(i, j) PROVE Counted'
  BY <1>18 DEF HbReceive
<1>19. CASE UNCHANGED vars
  BY <1>19 DEF vars
<1> HIDE DEF Counted
<1> QED
  BY <1>1, <1>2, <1>3, <1>4, <1>5, <1>6, <1>7, <1>8, <1>9, <1>10, <1>11, <1>12, <1>13, <1>14,
     <1>15, <1>16, <1>17, <1>18, <1>19
  DEF Next, Quiet, HbThread, WorkerThread, Joining, SmThread

LEMMA PhasesStep ==
  ASSUME TypeOK, Phases, [Next]_vars
  PROVE  Phases'
<1> USE FaultAssumption DEF TypeOK, Up, domains, smvars, fhvars, views, calls, Phases
<1>1. ASSUME NEW i \in Host, wait_fh_event(i) PROVE Phases'
  BY <1>1 DEF wait_fh_event, InHandler, RingPhase
<1>2. ASSUME NEW i \in Host, Advance(i) PROVE Phases'
  <2>1. phase'[i] \in RingPhase /\ phase[i] # "FH2" /\ join_block[i]
    BY <1>2, RingFacts DEF Advance, InHandler, RingPhase
  <2> QED
    BY <1>2, <2>1 DEF Advance
<1>3. ASSUME NEW i \in Host, Agree(i) PROVE Phases'
  BY <1>3 DEF Agree, InHandler
<1>4. ASSUME NEW i \in Host, Snapshot(i) PROVE Phases'
  BY <1>4 DEF Snapshot, InHandler, RingPhase
<1>5. ASSUME NEW i \in Host, Survive(i) PROVE Phases'
  BY <1>5 DEF Survive, InHandler, RingPhase
<1>6. ASSUME NEW i \in Host, self_fence(i) PROVE Phases'
  BY <1>6 DEF self_fence, InHandler, Stop
<1>7. ASSUME NEW i \in Host, UpdateLiveset(i) PROVE Phases'
  BY <1>7 DEF UpdateLiveset, InHandler, RingPhase
<1>8. ASSUME NEW i \in Host, EndFaultHandler(i) PROVE Phases'
  BY <1>8 DEF EndFaultHandler, InHandler
<1>9. ASSUME NEW i \in Host, update_hbdomain(i) PROVE Phases'
  BY <1>9 DEF update_hbdomain
<1>10. ASSUME NEW i \in Host, HbStartFh(i) PROVE Phases'
  BY <1>10 DEF HbStartFh, start_fh
<1>11. ASSUME NEW i \in Host, update_sfdomain(i) PROVE Phases'
  BY <1>11 DEF update_sfdomain
<1>12. ASSUME NEW i \in Host, SfStartFh(i) PROVE Phases'
  BY <1>12 DEF SfStartFh, start_fh
<1>13. ASSUME NEW i \in Host, update_hbdomain_join(i) PROVE Phases'
  BY <1>13 DEF update_hbdomain_join
<1>14. ASSUME NEW i \in Host, update_sfdomain_join(i) PROVE Phases'
  BY <1>14 DEF update_sfdomain_join
<1>15. ASSUME NEW i \in Host, readsf(i) PROVE Phases'
  BY <1>15 DEF readsf
<1>16. ASSUME NEW i \in Host, Crash(i) PROVE Phases'
  BY <1>16 DEF Crash, Stop
<1>17. ASSUME NEW i \in Host, Restart(i) PROVE Phases'
  BY <1>17 DEF Restart
<1>18. ASSUME NEW i \in Host, NEW j \in Host, HbReceive(i, j) PROVE Phases'
  BY <1>18 DEF HbReceive
<1>19. CASE UNCHANGED vars
  BY <1>19 DEF vars
<1> HIDE DEF Phases
<1> QED
  BY <1>1, <1>2, <1>3, <1>4, <1>5, <1>6, <1>7, <1>8, <1>9, <1>10, <1>11, <1>12, <1>13, <1>14,
     <1>15, <1>16, <1>17, <1>18, <1>19
  DEF Next, Quiet, HbThread, WorkerThread, Joining, SmThread

Seen(i, j) == hbview[i][j].phase
Here(p) == {p, NextPhase(p)}

(* Two hosts in phases a and b, the first with a report in phase v of the  *)
(* second and the second with one in phase u of the first.  A host that is *)
(* ahead left its phase on a report of the other one in that phase, and    *)
(* the other one has not been heard in a later one.                        *)
Pair(a, b, v, u) ==
    /\ v \in RingPhase /\ u \in RingPhase
    /\ \/ b = a /\ a \in Here(v) /\ a \in Here(u)
       \/ b = NextPhase(a) /\ u = a /\ (v = b \/ a \in Here(v))
       \/ a = NextPhase(b) /\ v = b /\ (u = a \/ b \in Here(u))

(* A host that has passed the rendezvous of its phase and not yet left the *)
(* phase, because it waits for a fault or has yet to copy its view, still  *)
(* sees everybody in the phase or the next one.                            *)
Passed(i) == agreed[i] \/ ~ join_block[i]

Close ==
    \A i, j \in Host : Up(i) /\ Up(j) /\ i # j =>
        /\ Pair(phase[i], phase[j], Seen(i, j), Seen(j, i))
        /\ Passed(i) => Seen(i, j) \in Here(phase[i])

LEMMA PairSwap ==
  ASSUME NEW a, NEW b, NEW v, NEW u, Pair(a, b, v, u)
  PROVE  Pair(b, a, u, v)
  BY DEF Pair

LEMMA PairHere ==
  ASSUME NEW a \in RingPhase, NEW b \in RingPhase, NEW v, NEW u, Pair(a, b, v, u), v \in Here(a)
  PROVE  b \in Here(a)
  BY RingFacts DEF Pair, Here

LEMMA PairMove ==
  ASSUME NEW a \in RingPhase, NEW b \in RingPhase, NEW v, NEW u, Pair(a, b, v, u), v \in Here(a)
  PROVE  Pair(NextPhase(a), b, v, u)
<1> USE DEF Pair, Here
<1>1. CASE b = a /\ a \in Here(v) /\ a \in Here(u)
  BY <1>1, RingFacts
<1>2. CASE b = NextPhase(a) /\ u = a /\ (v = b \/ a \in Here(v))
  BY <1>2, RingFacts
<1>3. CASE a = NextPhase(b) /\ v = b /\ (u = a \/ b \in Here(u))
  BY <1>3, RingFacts
<1> QED
  BY <1>1, <1>2, <1>3

LEMMA PairSee ==
  ASSUME NEW a \in RingPhase, NEW b \in RingPhase, NEW v, NEW u, Pair(a, b, v, u)
  PROVE  Pair(a, b, b, u) /\ (v \in Here(a) => b \in Here(a))
<1>1. Pair(a, b, b, u)
  BY DEF Pair, Here
<1> QED
  BY <1>1, PairHere

(* A step of the state manager thread of i from its phase to the next one. *)
Moves(i) ==
    /\ phase' = [phase EXCEPT ![i] = NextPhase(phase[i])]
    /\ hbview' = hbview
    /\ \A j \in Host : Up(j) /\ j # i => Seen(i, j) \in Here(phase[i])
    /\ agreed'[i] = FALSE /\ join_block'[i] = TRUE
    /\ \A x \in Host : x # i => agreed'[x] = agreed[x] /\ join_block'[x] = join_block[x]

LEMMA MovesClose ==
  ASSUME TypeOK, Phases, Close, NEW m \in Host, Up(m), Moves(m), \A x \in Host : Up(x)' => Up(x)
  PROVE  Close'
<1> SUFFICES ASSUME NEW i \in Host, NEW j \in Host, Up(i), Up(j), i # j
             PROVE  /\ Pair(phase'[i], phase'[j], Seen(i, j), Seen(j, i))
                    /\ Passed(i)' => Seen(i, j) \in Here(phase'[i])
  BY DEF Close, Moves, Seen
<1> USE DEF Moves
<1>1. phase[i] \in RingPhase /\ phase[j] \in RingPhase
  BY DEF Phases
<1>2. Pair(phase[i], phase[j], Seen(i, j), Seen(j, i)) /\ (Passed(i) => Seen(i, j) \in Here(phase[i]))
  BY DEF Close
<1>3. CASE m = i
  <2>1. phase'[i] = NextPhase(phase[i]) /\ phase'[j] = phase[j] /\ ~ Passed(i)'
    BY <1>3 DEF TypeOK, Passed
  <2>2. Seen(i, j) \in Here(phase[i])
    BY <1>3
  <2> QED
    BY <1>1, <1>2, <2>1, <2>2, PairMove
<1>4. CASE m = j
  <2>1. phase'[j] = NextPhase(phase[j]) /\ phase'[i] = phase[i] /\ (Passed(i)' => Passed(i))
    BY <1>4 DEF TypeOK, Passed
  <2>2. Seen(j, i) \in Here(phase[j])
    BY <1>4
  <2>3. Pair(phase[j], phase[i], Seen(j, i), Seen(i, j))
    BY <1>2, PairSwap
  <2>4. Pair(NextPhase(phase[j]), phase[i], Seen(j, i), Seen(i, j))
    BY <1>1, <2>2, <2>3, PairMove
  <2> QED
    BY <1>2, <2>1, <2>4, PairSwap
<1>5. CASE m # i /\ m # j
  BY <1>2, <1>5 DEF TypeOK, Passed
<1> QED
  BY <1>3, <1>4, <1>5

(* What a rendezvous lets through. *)
LEMMA RendezvousSees ==
  ASSUME Counted, NEW i \in Host, Up(i), rendezvous_wait(i)
  PROVE  \A j \in Host : Up(j) /\ j # i => Seen(i, j) \in Here(phase[i])
  BY DEF Counted, rendezvous_wait, Seen, Here

LEMMA SamePhases ==
  ASSUME Close, phase' = phase, hbview' = hbview, agreed' = agreed, join_block' = join_block,
         \A x \in Host : Up(x)' => Up(x)
  PROVE  Close'
  BY DEF Close, Seen, Passed

LEMMA CloseStep ==
  ASSUME TypeOK, Counted, Phases, Close, [Next]_vars
  PROVE  Close'
<1>0. \A x \in Host : Up(x)' => Up(x)
  BY UpShrinks
<1> USE <1>0 DEF TypeOK, domains, smvars, fhvars, views, calls
<1>1. ASSUME NEW i \in Host, wait_fh_event(i) PROVE Close'
  <2>1. Passed(i) /\ Up(i) /\ phase[i] = "STARTED"
    BY <1>1 DEF wait_fh_event, InHandler, Passed, Phases
  <2>2. \A j \in Host : Up(j) /\ j # i => Seen(i, j) \in Here(phase[i])
    BY <2>1 DEF Close
  <2>3. phase' = [phase EXCEPT ![i] = NextPhase(phase[i])]
    BY <1>1, <2>1, NextPhases DEF wait_fh_event
  <2>4. agreed'[i] = FALSE /\ join_block'[i] = TRUE
    BY <1>1, <2>1 DEF wait_fh_event, InHandler, Phases
  <2>5. /\ hbview' = hbview
        /\ \A x \in Host : x # i => agreed'[x] = agreed[x] /\ join_block'[x] = join_block[x]
    BY <1>1 DEF wait_fh_event
  <2>6. Moves(i)
    BY <2>2, <2>3, <2>4, <2>5 DEF Moves
  <2> QED
    BY <2>1, <2>6, MovesClose
<1>2. ASSUME NEW i \in Host, Advance(i) PROVE Close'
  <2>1. Up(i) /\ rendezvous_wait(i) /\ join_block[i] /\ phase[i] # "FH2"
    BY <1>2 DEF Advance, InHandler
  <2>2. \A j \in Host : Up(j) /\ j # i => Seen(i, j) \in Here(phase[i])
    BY <2>1, RendezvousSees
  <2>3. phase' = [phase EXCEPT ![i] = NextPhase(phase[i])]
    BY <1>2, NextPhases DEF Advance, InHandler
  <2>4. agreed'[i] = FALSE /\ join_block'[i] = TRUE
    BY <1>2, <2>1 DEF Advance, Phases
  <2>5. /\ hbview' = hbview
        /\ \A x \in Host : x # i => agreed'[x] = agreed[x] /\ join_block'[x] = join_block[x]
    BY <1>2 DEF Advance
  <2>6. Moves(i)
    BY <2>2, <2>3, <2>4, <2>5 DEF Moves
  <2> QED
    BY <2>1, <2>6, MovesClose
<1>3. ASSUME NEW i \in Host, Agree(i) PROVE Close'
  <2>1. Up(i) /\ rendezvous_wait(i)
    BY <1>3 DEF Agree, InHandler
  <2>2. \A j \in Host : Up(j) /\ j # i => Seen(i, j) \in Here(phase[i])
    BY <2>1, RendezvousSees
  <2>3. \A x \in Host : x # i => agreed'[x] = agreed[x] /\ join_block'[x] = join_block[x]
    BY <1>3 DEF Agree
  <2>4. phase' = phase /\ hbview' = hbview
    BY <1>3 DEF Agree
  <2> QED
    BY <2>2, <2>3, <2>4 DEF Close, Seen, Passed
<1>4. ASSUME NEW i \in Host, Snapshot(i) PROVE Close'
  <2>1. Passed(i) /\ Up(i) /\ phase[i] = "FH2"
    BY <1>4 DEF Snapshot, InHandler, Passed, Phases
  <2>2. \A j \in Host : Up(j) /\ j # i => Seen(i, j) \in Here(phase[i])
    BY <2>1 DEF Close
  <2>3. phase' = [phase EXCEPT ![i] = NextPhase(phase[i])]
    BY <1>4, <2>1, NextPhases DEF Snapshot
  <2>4. agreed'[i] = FALSE /\ join_block'[i] = TRUE
    BY <1>4, <2>1 DEF Snapshot, InHandler, Phases
  <2>5. /\ hbview' = hbview
        /\ \A x \in Host : x # i => agreed'[x] = agreed[x] /\ join_block'[x] = join_block[x]
    BY <1>4 DEF Snapshot
  <2>6. Moves(i)
    BY <2>2, <2>3, <2>4, <2>5 DEF Moves
  <2> QED
    BY <2>1, <2>6, MovesClose
<1>5. ASSUME NEW i \in Host, Survive(i) PROVE Close'
  <2>1. Up(i) /\ rendezvous_wait(i) /\ join_block[i] /\ phase[i] # "FH2"
    BY <1>5 DEF Survive, InHandler
  <2>2. \A j \in Host : Up(j) /\ j # i => Seen(i, j) \in Here(phase[i])
    BY <2>1, RendezvousSees
  <2>3. phase' = [phase EXCEPT ![i] = NextPhase(phase[i])]
    BY <1>5, NextPhases DEF Survive, InHandler
  <2>4. agreed'[i] = FALSE /\ join_block'[i] = TRUE
    BY <1>5, <2>1 DEF Survive, Phases
  <2>5. /\ hbview' = hbview
        /\ \A x \in Host : x # i => agreed'[x] = agreed[x] /\ join_block'[x] = join_block[x]
    BY <1>5 DEF Survive
  <2>6. Moves(i)
    BY <2>2, <2>3, <2>4, <2>5 DEF Moves
  <2> QED
    BY <2>1, <2>6, MovesClose
<1>6. ASSUME NEW i \in Host, self_fence(i) PROVE Close'
  <2>1. Stop(i)
    BY <1>6 DEF self_fence
  <2>2. /\ ~ Up(i)' /\ phase' = phase
        /\ \A x \in Host : x # i => /\ hbview'[x] = hbview[x] /\ agreed'[x] = agreed[x]
                                       /\ join_block'[x] = join_block[x]
    BY <2>1 DEF Stop, Up, TypeOK
  <2> QED
    BY <2>2 DEF Close, Seen, Passed
<1>7. ASSUME NEW i \in Host, UpdateLiveset(i) PROVE Close'
  <2>1. Up(i) /\ rendezvous_wait(i) /\ join_block[i] /\ phase[i] # "FH2"
    BY <1>7 DEF UpdateLiveset, InHandler
  <2>2. \A j \in Host : Up(j) /\ j # i => Seen(i, j) \in Here(phase[i])
    BY <2>1, RendezvousSees
  <2>3. phase' = [phase EXCEPT ![i] = NextPhase(phase[i])]
    BY <1>7, NextPhases DEF UpdateLiveset, InHandler
  <2>4. agreed'[i] = FALSE /\ join_block'[i] = TRUE
    BY <1>7, <2>1 DEF UpdateLiveset, Phases
  <2>5. /\ hbview' = hbview
        /\ \A x \in Host : x # i => agreed'[x] = agreed[x] /\ join_block'[x] = join_block[x]
    BY <1>7 DEF UpdateLiveset
  <2>6. Moves(i)
    BY <2>2, <2>3, <2>4, <2>5 DEF Moves
  <2> QED
    BY <2>1, <2>6, MovesClose
<1>8. ASSUME NEW i \in Host, EndFaultHandler(i) PROVE Close'
  <2>1. Up(i) /\ rendezvous_wait(i)
    BY <1>8 DEF EndFaultHandler, InHandler
  <2>2. \A j \in Host : Up(j) /\ j # i => Seen(i, j) \in Here(phase[i])
    BY <2>1, RendezvousSees
  <2>3. \A x \in Host : x # i => agreed'[x] = agreed[x] /\ join_block'[x] = join_block[x]
    BY <1>8 DEF EndFaultHandler
  <2>4. phase' = phase /\ hbview' = hbview
    BY <1>8 DEF EndFaultHandler
  <2> QED
    BY <2>2, <2>3, <2>4 DEF Close, Seen, Passed
<1>9. ASSUME NEW i \in Host, update_hbdomain(i) PROVE Close'
  BY <1>9, SamePhases DEF update_hbdomain
<1>10. ASSUME NEW i \in Host, HbStartFh(i) PROVE Close'
  BY <1>10, SamePhases DEF HbStartFh, start_fh
<1>11. ASSUME NEW i \in Host, update_sfdomain(i) PROVE Close'
  BY <1>11, SamePhases DEF update_sfdomain
<1>12. ASSUME NEW i \in Host, SfStartFh(i) PROVE Close'
  BY <1>12, SamePhases DEF SfStartFh, start_fh
<1>13. ASSUME NEW i \in Host, update_hbdomain_join(i) PROVE Close'
  BY <1>13, SamePhases DEF update_hbdomain_join
<1>14. ASSUME NEW i \in Host, update_sfdomain_join(i) PROVE Close'
  BY <1>14, SamePhases DEF update_sfdomain_join
<1>15. ASSUME NEW i \in Host, readsf(i) PROVE Close'
  BY <1>15, SamePhases DEF readsf
<1>16. ASSUME NEW i \in Host, Crash(i) PROVE Close'
  <2>1. Stop(i)
    BY <1>16 DEF Crash
  <2>2. /\ ~ Up(i)' /\ phase' = phase
        /\ \A x \in Host : x # i => /\ hbview'[x] = hbview[x] /\ agreed'[x] = agreed[x]
                                       /\ join_block'[x] = join_block[x]
    BY <2>1 DEF Stop, Up, TypeOK
  <2> QED
    BY <2>2 DEF Close, Seen, Passed
<1>17. ASSUME NEW i \in Host, Restart(i) PROVE Close'
  <2>1. ~ Up(i)' /\ \A x \in Host : x # i => phase'[x] = phase[x]
    BY <1>17 DEF Restart, Up
  <2>2. hbview' = hbview /\ agreed' = agreed /\ join_block' = join_block
    BY <1>17 DEF Restart
  <2> QED
    BY <2>1, <2>2 DEF Close, Seen, Passed
<1>18. ASSUME NEW i \in Host, NEW j \in Host, HbReceive(i, j) PROVE Close'
  <2>1. /\ Up(i) /\ Up(j) /\ i # j /\ phase' = phase /\ agreed' = agreed /\ join_block' = join_block
        /\ mode' = mode
    BY <1>18 DEF HbReceive
  <2>2. Seen(i, j)' = phase[j]
    BY <1>18 DEF HbReceive, Report, Seen
  <2>3. \A x, y \in Host : x # i \/ y # j => Seen(x, y)' = Seen(x, y)
    BY <1>18 DEF HbReceive, Seen
  <2>4. phase[i] \in RingPhase /\ phase[j] \in RingPhase
    BY <2>1 DEF Phases
  <2>5. Pair(phase[i], phase[j], Seen(i, j), Seen(j, i)) /\ (Passed(i) => Seen(i, j) \in Here(phase[i]))
    BY <2>1 DEF Close
  <2>6. /\ Pair(phase[i], phase[j], Seen(i, j)', Seen(j, i)')
        /\ Passed(i) => Seen(i, j)' \in Here(phase[i])
    BY <2>1, <2>2, <2>3, <2>4, <2>5, PairSee
  <2>7. Pair(phase[j], phase[i], Seen(j, i)', Seen(i, j)')
    BY <2>6, PairSwap
  <2>8. ASSUME NEW x \in Host, NEW y \in Host, Up(x), Up(y), x # y
        PROVE  /\ Pair(phase[x], phase[y], Seen(x, y)', Seen(y, x)')
               /\ Passed(x) => Seen(x, y)' \in Here(phase[x])
    BY <2>1, <2>3, <2>6, <2>7, <2>8 DEF Close
  <2> QED
    BY <2>1, <2>8 DEF Close, Passed, Up
<1>19. CASE UNCHANGED vars
  BY <1>19, SamePhases DEF vars
<1> HIDE DEF Close
<1> QED
  BY <1>1, <1>2, <1>3, <1>4, <1>5, <1>6, <1>7, <1>8, <1>9, <1>10, <1>11, <1>12, <1>13, <1>14,
     <1>15, <1>16, <1>17, <1>18, <1>19
  DEF Next, Quiet, HbThread, WorkerThread, Joining, SmThread

-----------------------------------------------------------------------------
(* A single loss *)

(* As long as every host runs no fault is handled. *)
Undisturbed ==
    (\A i \in Host : Up(i)) =>
        \A i \in Host : /\ phase[i] = "STARTED" /\ ~ need_fh[i] /\ ~ join_block[i]
                        /\ hbcall[i] = "none" /\ sfcall[i] = "none"
                        /\ last_hbdomain[i] = Host /\ last_sfdomain[i] = Host

(* k is the one host that does not run. *)
Single(k) == ~ Up(k) /\ \A x \in Host : x # k => Up(x)

Lost(k, i) == k \notin hbdomain[i] \/ k \notin sfdomain[i]

(* The phases of a round before the view is copied. *)
Round == {"FHREADY", "FH1", "FH1DONE", "FH2"}

(* j lost k before the round began: whoever sees it in the round sees that *)
(* it lost k.                                                              *)
Origin(k, j) ==
    /\ j # k /\ Lost(k, j)
    /\ \A i \in Host : i # k /\ i # j /\ Seen(i, j) \in Round \cup {"FH2DONE"} =>
            k \notin hbview[i][j].hb \/ k \notin hbview[i][j].sf

Asked(i) == phase[i] = "STARTED" /\ (need_fh[i] \/ hbcall[i] = "force")

(* A round among hosts that have k in the liveset has such an origin. *)
Caused(k) ==
    \A i \in Host : i # k /\ k \in liveset[i] /\ (phase[i] \in Round \/ Asked(i)) =>
        \E j \in Host : Origin(k, j)

(* The round takes k out, step by step. *)
Removing(k) ==
    \A i \in Host : i # k /\ k \in liveset[i] =>
        /\ agreed[i] => Lost(k, i)
        /\ phase[i] \in {"FH2DONE", "FH3"} => k \notin stable[i].hb \/ k \notin stable[i].sf
        /\ phase[i] \in {"FH3DONE", "FH4"} => k \notin proposed[i]
        /\ phase[i] # "FH4DONE" /\ (phase[i] = "STARTED" => ~ join_block[i])

(* All hosts take k out of the liveset in the same round. *)
Together(k) ==
    \A i, j \in Host : i # k /\ j # k /\ k \in liveset[i] /\ k \notin liveset[j] =>
        phase[i] = "FH4" /\ phase[j] = "FH4DONE"

(* Until a round is asked for, the loss of k is still to be compared with  *)
(* the domains of the last comparison, and somebody is about to do that.   *)
Noticed(k) ==
    \A i \in Host : i # k /\ k \in liveset[i] /\ phase[i] = "STARTED" /\ ~ need_fh[i] =>
        /\ k \in last_hbdomain[i] /\ k \in last_sfdomain[i]
        /\ k \notin hbdomain[i] => hbcall[i] # "none"
        /\ k \notin sfdomain[i] => sfcall[i] # "none"

Handling(k) == Caused(k) /\ Removing(k) /\ Together(k) /\ Noticed(k)
Handled == \A k \in Host : Single(k) => Handling(k)

LEMMA HereBoth ==
  ASSUME Counted, Phases, Close, NEW x \in Host, NEW y \in Host, Up(x), Up(y), x # y, rendezvous_wait(x)
  PROVE  Seen(x, y) \in Here(phase[x]) /\ phase[y] \in Here(phase[x])
<1>1. Seen(x, y) \in Here(phase[x])
  BY RendezvousSees
<1>2. /\ Pair(phase[x], phase[y], Seen(x, y), Seen(y, x))
      /\ phase[x] \in RingPhase
      /\ phase[y] \in RingPhase
  BY DEF Close, Phases
<1> QED
  BY <1>1, <1>2, PairHere

LEMMA StopSingle ==
  ASSUME TypeOK, NEW k \in Host, NEW x \in Host, Single(k)', Stop(x)
  PROVE  x = k
  BY DEF TypeOK, Stop, Single, Up

LEMMA UndisturbedStep ==
  ASSUME TypeOK, Counted, Undisturbed, [Next]_vars
  PROVE  Undisturbed'
<1> USE DEF TypeOK, domains, smvars, fhvars, views, calls, Undisturbed
<1>1. ASSUME NEW i \in Host, wait_fh_event(i) PROVE Undisturbed'
  <2>1. mode' = mode
    BY <1>1 DEF wait_fh_event
  <2>2. ~ \A x \in Host : Up(x)
    BY <1>1 DEF wait_fh_event
  <2> QED
    BY <2>1, <2>2 DEF Up
<1>2. ASSUME NEW i \in Host, Advance(i) PROVE Undisturbed'
  <2>1. mode' = mode
    BY <1>2 DEF Advance
  <2>2. ~ \A x \in Host : Up(x)
    BY <1>2 DEF Advance, InHandler
  <2> QED
    BY <2>1, <2>2 DEF Up
<1>3. ASSUME NEW i \in Host, Agree(i) PROVE Undisturbed'
  <2>1. mode' = mode
    BY <1>3 DEF Agree
  <2>2. ~ \A x \in Host : Up(x)
    BY <1>3 DEF Agree, InHandler
  <2> QED
    BY <2>1, <2>2 DEF Up
<1>4. ASSUME NEW i \in Host, Snapshot(i) PROVE Undisturbed'
  <2>1. mode' = mode
    BY <1>4 DEF Snapshot
  <2>2. ~ \A x \in Host : Up(x)
    BY <1>4 DEF Snapshot, InHandler
  <2> QED
    BY <2>1, <2>2 DEF Up
<1>5. ASSUME NEW i \in Host, Survive(i) PROVE Undisturbed'
  <2>1. mode' = mode
    BY <1>5 DEF Survive
  <2>2. ~ \A x \in Host : Up(x)
    BY <1>5 DEF Survive, InHandler
  <2> QED
    BY <2>1, <2>2 DEF Up
<1>6. ASSUME NEW i \in Host, self_fence(i) PROVE Undisturbed'
  BY <1>6 DEF self_fence, Stop, Up
<1>7. ASSUME NEW i \in Host, UpdateLiveset(i) PROVE Undisturbed'
  <2>1. mode' = mode
    BY <1>7 DEF UpdateLiveset
  <2>2. ~ \A x \in Host : Up(x)
    BY <1>7 DEF UpdateLiveset, InHandler
  <2> QED
    BY <2>1, <2>2 DEF Up
<1>8. ASSUME NEW i \in Host, EndFaultHandler(i) PROVE Undisturbed'
  <2>1. mode' = mode
    BY <1>8 DEF EndFaultHandler
  <2>2. ~ \A x \in Host : Up(x)
    BY <1>8 DEF EndFaultHandler, InHandler
  <2> QED
    BY <2>1, <2>2 DEF Up
<1>9. ASSUME NEW i \in Host, update_hbdomain(i) PROVE Undisturbed'
  <2>1. PICK gone \in SUBSET {k \in hbdomain[i] : Silent(i, k)} : gone # {}
    BY <1>9 DEF update_hbdomain
  <2>2. PICK x : x \in gone
    BY <2>1
  <2>3. x \in Host /\ ~ Up(x)
    BY <2>1, <2>2 DEF Silent, Up
  <2> QED
    BY <2>3, UpShrinks
<1>10. ASSUME NEW i \in Host, HbStartFh(i) PROVE Undisturbed'
  <2>1. mode' = mode
    BY <1>10 DEF HbStartFh
  <2>2. ~ \A x \in Host : Up(x)
    BY <1>10 DEF HbStartFh
  <2> QED
    BY <2>1, <2>2 DEF Up
<1>11. ASSUME NEW i \in Host, update_sfdomain(i) PROVE Undisturbed'
  <2>1. PICK gone \in SUBSET {k \in sfdomain[i] : Silent(i, k)} : gone # {}
    BY <1>11 DEF update_sfdomain
  <2>2. PICK x : x \in gone
    BY <2>1
  <2>3. x \in Host /\ ~ Up(x)
    BY <2>1, <2>2 DEF Silent, Up
  <2> QED
    BY <2>3, UpShrinks
<1>12. ASSUME NEW i \in Host, SfStartFh(i) PROVE Undisturbed'
  <2>1. mode' = mode
    BY <1>12 DEF SfStartFh
  <2>2. ~ \A x \in Host : Up(x)
    BY <1>12 DEF SfStartFh
  <2> QED
    BY <2>1, <2>2 DEF Up
<1>13. ASSUME NEW i \in Host, update_hbdomain_join(i) PROVE Undisturbed'
  <2>1. ~ \A x \in Host : Up(x)
    BY <1>13 DEF update_hbdomain_join, Up
  <2> QED
    BY <2>1, UpShrinks
<1>14. ASSUME NEW i \in Host, update_sfdomain_join(i) PROVE Undisturbed'
  <2>1. ~ \A x \in Host : Up(x)
    BY <1>14 DEF update_sfdomain_join, Up
  <2> QED
    BY <2>1, UpShrinks
<1>15. ASSUME NEW i \in Host, readsf(i) PROVE Undisturbed'
  BY <1>15 DEF readsf, Up
<1>16. ASSUME NEW i \in Host, Crash(i) PROVE Undisturbed'
  BY <1>16 DEF Crash, Stop, Up
<1>17. ASSUME NEW i \in Host, Restart(i) PROVE Undisturbed'
  BY <1>17 DEF Restart, Up
<1>18. ASSUME NEW i \in Host, NEW j \in Host, HbReceive(i, j) PROVE Undisturbed'
  <2>1. UNCHANGED <<mode, phase, need_fh, join_block, sfcall, last_hbdomain, last_sfdomain>>
    BY <1>18 DEF HbReceive
  <2>2. (\A x \in Host : Up(x)) => hbcall' = hbcall
    BY <1>18 DEF HbReceive
  <2> QED
    BY <2>1, <2>2 DEF Up
<1>19. CASE UNCHANGED vars
  BY <1>19 DEF vars, Up
<1> HIDE DEF Undisturbed
<1> QED
  BY <1>1, <1>2, <1>3, <1>4, <1>5, <1>6, <1>7, <1>8, <1>9, <1>10, <1>11, <1>12, <1>13, <1>14,
     <1>15, <1>16, <1>17, <1>18, <1>19
  DEF Next, Quiet, HbThread, WorkerThread, Joining, SmThread

LEMMA TogetherStep ==
  ASSUME TypeOK, Counted, Phases, Close, NEW k \in Host, Single(k), Single(k)', Handling(k), [Next]_vars
  PROVE  Together(k)'
<1>0. (\A x \in Host : x # k => Up(x)) /\ ~ Up(k)
  BY DEF Single
<1> USE DEF TypeOK, domains, smvars, fhvars, views, calls
<1>1. ASSUME NEW i \in Host, wait_fh_event(i) PROVE Together(k)'
  <2>1. liveset' = liveset /\ phase[i] = "STARTED" /\ \A x \in Host : x # i => phase'[x] = phase[x]
    BY <1>1, <1>0 DEF wait_fh_event, InHandler, Phases
  <2> QED
    BY <2>1 DEF Handling, Together
<1>2. ASSUME NEW i \in Host, Advance(i) PROVE Together(k)'
  <2>1. /\ i # k /\ liveset' = liveset /\ rendezvous_wait(i) /\ Up(i) /\ phase[i] # "FH4"
        /\ \A x \in Host : x # i => phase'[x] = phase[x]
    BY <1>2, <1>0 DEF Advance, InHandler
  <2>2. \A x \in Host : x # k /\ x # i => phase[x] \in Here(phase[i])
    BY <1>0, <2>1, HereBoth
  <2>3. phase[i] = "FH4DONE" => \A x \in Host : x # k /\ x # i => phase[x] # "FH4"
    BY <2>2, NextPhases DEF Here
  <2> QED
    BY <2>1, <2>3 DEF Handling, Together
<1>3. ASSUME NEW i \in Host, Agree(i) \/ EndFaultHandler(i) \/ update_hbdomain(i) \/
                             HbStartFh(i) \/ update_sfdomain(i) \/ SfStartFh(i) \/
                             update_hbdomain_join(i) \/ update_sfdomain_join(i) \/ readsf(i)
      PROVE  Together(k)'
  <2>1. UNCHANGED <<phase, liveset>>
    BY <1>3 DEF Agree, EndFaultHandler, update_hbdomain, HbStartFh, update_sfdomain, SfStartFh,
       update_hbdomain_join, update_sfdomain_join, readsf
  <2> QED
    BY <2>1 DEF Handling, Together
<1>4. ASSUME NEW i \in Host, Snapshot(i) PROVE Together(k)'
  <2>1. liveset' = liveset /\ phase[i] = "FH2" /\ \A x \in Host : x # i => phase'[x] = phase[x]
    BY <1>4, <1>0 DEF Snapshot, InHandler, Phases
  <2> QED
    BY <2>1 DEF Handling, Together
<1>5. ASSUME NEW i \in Host, Survive(i) PROVE Together(k)'
  <2>1. liveset' = liveset /\ phase[i] = "FH3" /\ \A x \in Host : x # i => phase'[x] = phase[x]
    BY <1>5, <1>0 DEF Survive, InHandler, Phases
  <2> QED
    BY <2>1 DEF Handling, Together
<1>6. ASSUME NEW i \in Host, self_fence(i) PROVE Together(k)'
  <2>1. Stop(i) /\ i = k
    BY <1>6, StopSingle DEF self_fence
  <2>2. phase' = phase /\ \A x \in Host : x # k => liveset'[x] = liveset[x]
    BY <2>1 DEF Stop
  <2> QED
    BY <2>2 DEF Handling, Together
<1>7. ASSUME NEW i \in Host, UpdateLiveset(i) PROVE Together(k)'
  <2>1. /\ i # k /\ rendezvous_wait(i) /\ Up(i) /\ phase[i] = "FH4" /\ phase'[i] = "FH4DONE"
        /\ liveset'[i] = liveset[i] \cap proposed[i]
        /\ \A x \in Host : x # i => phase'[x] = phase[x] /\ liveset'[x] = liveset[x]
    BY <1>7, <1>0 DEF UpdateLiveset, InHandler
  <2>2. k \notin liveset'[i]
    BY <2>1 DEF Handling, Removing
  <2>3. \A x \in Host : x # k /\ x # i => phase[x] \in Here(phase[i])
    BY <1>0, <2>1, HereBoth
  <2>4. \A x \in Host : x # k /\ x # i /\ k \in liveset[x] => phase[x] = "FH4"
    BY <2>1, <2>3, NextPhases DEF Handling, Removing, Here
  <2>5. ASSUME NEW x \in Host, NEW y \in Host, x # k, y # k, k \in liveset'[x], k \notin liveset'[y]
        PROVE  phase'[x] = "FH4" /\ phase'[y] = "FH4DONE"
    <3>1. x # i /\ k \in liveset[x]
      BY <2>1, <2>2, <2>5
    <3>2. CASE y = i
      BY <2>1, <2>4, <2>5, <3>1, <3>2
    <3>3. CASE y # i
      BY <2>1, <2>5, <3>1, <3>3 DEF Handling, Together
    <3> QED
      BY <3>2, <3>3
  <2> QED
    BY <2>5 DEF Together
<1>8. ASSUME NEW i \in Host, Crash(i) PROVE Together(k)'
  <2>1. Stop(i) /\ i = k
    BY <1>8, StopSingle DEF Crash
  <2>2. phase' = phase /\ \A x \in Host : x # k => liveset'[x] = liveset[x]
    BY <2>1 DEF Stop
  <2> QED
    BY <2>2 DEF Handling, Together
<1>9. ASSUME NEW i \in Host, Restart(i) PROVE Together(k)'
  <2>1. i = k /\ liveset' = liveset
    BY <1>9, <1>0 DEF Restart, Up
  <2>2. \A x \in Host : x # k => phase'[x] = phase[x]
    BY <1>9, <2>1 DEF Restart
  <2> QED
    BY <2>1, <2>2 DEF Handling, Together
<1>10. ASSUME NEW i \in Host, NEW j \in Host, HbReceive(i, j) PROVE Together(k)'
  <2>1. UNCHANGED <<phase, liveset>>
    BY <1>10 DEF HbReceive
  <2> QED
    BY <2>1 DEF Handling, Together
<1>11. CASE UNCHANGED vars
  BY <1>11 DEF vars, Handling, Together
<1> HIDE DEF Together
<1> QED
  BY <1>1, <1>2, <1>3, <1>4, <1>5, <1>6, <1>7, <1>8, <1>9, <1>10, <1>11
  DEF Next, Quiet, HbThread, WorkerThread, Joining, SmThread

LEMMA RemovingStep ==
  ASSUME TypeOK, Counted, Phases, Close, NEW k \in Host, Single(k), Single(k)', Handling(k), [Next]_vars
  PROVE  Removing(k)'
<1>0. (\A x \in Host : x # k => Up(x)) /\ ~ Up(k)
  BY DEF Single
<1> USE DEF TypeOK, domains, smvars, fhvars, views, calls
<1>1. ASSUME NEW i \in Host, wait_fh_event(i) PROVE Removing(k)'
  <2>1. UNCHANGED <<liveset, agreed, hbdomain, sfdomain, stable, proposed>> /\ phase'[i] = "FHREADY"
    BY <1>1 DEF wait_fh_event
  <2>2. \A x \in Host : x # i => phase'[x] = phase[x] /\ join_block'[x] = join_block[x]
    BY <1>1 DEF wait_fh_event
  <2> QED
    BY <2>1, <2>2 DEF Handling, Removing, Lost
<1>2. ASSUME NEW i \in Host, Advance(i) PROVE Removing(k)'
  <2>1. /\ UNCHANGED <<liveset, agreed, hbdomain, sfdomain, stable, proposed, join_block>>
        /\ phase[i] \in {"FHREADY", "FH1", "FH1DONE", "FH2DONE", "FH3DONE", "FH4DONE"}
        /\ phase'[i] = NextPhase(phase[i])
    BY <1>2 DEF Advance, InHandler
  <2>2. \A x \in Host : x # i => phase'[x] = phase[x]
    BY <1>2 DEF Advance
  <2>3. \/ phase[i] = "FH4DONE"
        \/ phase'[i] \in {"FH1", "FH1DONE", "FH2"}
        \/ phase[i] = "FH2DONE" /\ phase'[i] = "FH3"
        \/ phase[i] = "FH3DONE" /\ phase'[i] = "FH4"
    BY <2>1, NextPhases
  <2> QED
    BY <2>1, <2>2, <2>3 DEF Handling, Removing, Lost
<1>3. ASSUME NEW i \in Host, Agree(i) PROVE Removing(k)'
  <2>1. /\ UNCHANGED <<liveset, phase, hbdomain, sfdomain, stable, proposed, join_block>>
        /\ \A x \in Host : x # i => agreed'[x] = agreed[x]
    BY <1>3 DEF Agree
  <2>2. i # k /\ Up(i) /\ phase[i] = "FH2" /\ rendezvous_wait(i) /\ Consistent(i)
    BY <1>3, <1>0 DEF Agree, InHandler
  <2>3. ASSUME k \in liveset[i] PROVE Lost(k, i)
    <3>1. PICK j \in Host : Origin(k, j)
      BY <2>2, <2>3 DEF Handling, Caused, Round
    <3>2. CASE j = i
      BY <3>1, <3>2 DEF Origin
    <3>3. CASE j # i
      <4>1. Up(j) /\ j \in liveset[i] /\ j \in hbdomain[i]
        BY <1>0, <2>2, <3>1 DEF Origin, Counted
      <4>2. Seen(i, j) \in {"FH2", "FH2DONE"}
        BY <2>2, <3>3, <4>1, HereBoth, NextPhases DEF Here
      <4>3. k \notin hbview[i][j].hb \/ k \notin hbview[i][j].sf
        BY <2>2, <3>1, <3>3, <4>2 DEF Origin, Round
      <4>4. /\ hbdomain[i] \cap liveset[i] = hbview[i][j].hb \cap liveset[i]
            /\ sfdomain[i] \cap liveset[i] = hbview[i][j].sf \cap liveset[i]
        BY <2>2, <3>3, <4>1 DEF Consistent
      <4> QED
        BY <2>3, <4>3, <4>4 DEF Lost
    <3> QED
      BY <3>2, <3>3
  <2> QED
    BY <2>1, <2>3 DEF Handling, Removing, Lost
<1>4. ASSUME NEW i \in Host, Snapshot(i) PROVE Removing(k)'
  <2>1. /\ UNCHANGED <<liveset, hbdomain, sfdomain, proposed, join_block>>
        /\ \A x \in Host : x # i => agreed'[x] = agreed[x] /\ phase'[x] = phase[x] /\ stable'[x] = stable[x]
    BY <1>4 DEF Snapshot
  <2>2. /\ i # k /\ agreed[i] /\ phase'[i] = "FH2DONE" /\ ~ agreed'[i]
        /\ stable'[i].hb = hbdomain[i] /\ stable'[i].sf = sfdomain[i]
    BY <1>4, <1>0 DEF Snapshot, InHandler
  <2> QED
    BY <2>1, <2>2 DEF Handling, Removing, Lost
<1>5. ASSUME NEW i \in Host, Survive(i) PROVE Removing(k)'
  <2>1. /\ UNCHANGED <<liveset, agreed, join_block>>
        /\ \A x \in Host : x # i => /\ phase'[x] = phase[x] /\ stable'[x] = stable[x] /\ proposed'[x] = proposed[x]
                                    /\ hbdomain'[x] = hbdomain[x] /\ sfdomain'[x] = sfdomain[x]
    BY <1>5 DEF Survive
  <2>2. i # k /\ phase[i] = "FH3" /\ phase'[i] = "FH3DONE" /\ ~ agreed[i]
    BY <1>5, <1>0 DEF Survive, InHandler, Phases
  <2>3. k \notin stable[i].hb \/ k \notin stable[i].sf => k \notin proposed'[i]
    BY <1>5 DEF Survive
  <2> QED
    BY <2>1, <2>2, <2>3 DEF Handling, Removing, Lost
<1>6. ASSUME NEW i \in Host, self_fence(i) PROVE Removing(k)'
  <2>1. Stop(i) /\ i = k
    BY <1>6, StopSingle DEF self_fence
  <2>2. /\ UNCHANGED <<phase, hbdomain, sfdomain>>
        /\ \A x \in Host : x # k => /\ liveset'[x] = liveset[x] /\ agreed'[x] = agreed[x] /\ stable'[x] = stable[x]
                                       /\ proposed'[x] = proposed[x] /\ join_block'[x] = join_block[x]
    BY <2>1 DEF Stop
  <2> QED
    BY <2>2 DEF Handling, Removing, Lost
<1>7. ASSUME NEW i \in Host, UpdateLiveset(i) PROVE Removing(k)'
  <2>1. /\ UNCHANGED <<agreed, hbdomain, sfdomain, stable, proposed, join_block>>
        /\ \A x \in Host : x # i => phase'[x] = phase[x] /\ liveset'[x] = liveset[x]
    BY <1>7 DEF UpdateLiveset
  <2>2. i # k /\ phase[i] = "FH4" /\ liveset'[i] = liveset[i] \cap proposed[i]
    BY <1>7, <1>0 DEF UpdateLiveset, InHandler
  <2>3. k \notin liveset'[i]
    BY <2>2 DEF Handling, Removing
  <2> QED
    BY <2>1, <2>3 DEF Handling, Removing, Lost
<1>8. ASSUME NEW i \in Host, EndFaultHandler(i) PROVE Removing(k)'
  <2>1. /\ UNCHANGED <<liveset, agreed, hbdomain, sfdomain, phase, stable, proposed>>
        /\ ~ join_block'[i] /\ \A x \in Host : x # i => join_block'[x] = join_block[x]
    BY <1>8 DEF EndFaultHandler
  <2> QED
    BY <2>1 DEF Handling, Removing, Lost
<1>9. ASSUME NEW i \in Host, update_hbdomain(i) PROVE Removing(k)'
  <2>1. UNCHANGED <<liveset, agreed, sfdomain, phase, stable, proposed, join_block>>
    BY <1>9 DEF update_hbdomain
  <2>2. \A x \in Host : k \notin hbdomain[x] => k \notin hbdomain'[x]
    BY <1>9 DEF update_hbdomain
  <2> QED
    BY <2>1, <2>2 DEF Handling, Removing, Lost
<1>10. ASSUME NEW i \in Host, HbStartFh(i) \/ SfStartFh(i) \/ readsf(i)
       PROVE  Removing(k)'
  <2>1. UNCHANGED <<liveset, agreed, hbdomain, sfdomain, phase, stable, proposed, join_block>>
    BY <1>10 DEF HbStartFh, SfStartFh, readsf
  <2> QED
    BY <2>1 DEF Handling, Removing, Lost
<1>11. ASSUME NEW i \in Host, update_sfdomain(i) PROVE Removing(k)'
  <2>1. UNCHANGED <<liveset, agreed, hbdomain, phase, stable, proposed, join_block>>
    BY <1>11 DEF update_sfdomain
  <2>2. \A x \in Host : k \notin sfdomain[x] => k \notin sfdomain'[x]
    BY <1>11 DEF update_sfdomain
  <2> QED
    BY <2>1, <2>2 DEF Handling, Removing, Lost
<1>12. ASSUME NEW i \in Host, update_hbdomain_join(i) PROVE Removing(k)'
  <2>1. UNCHANGED <<liveset, agreed, sfdomain, phase, stable, proposed, join_block>>
    BY <1>12 DEF update_hbdomain_join
  <2>2. \A x \in Host : k \in liveset[x] /\ k \notin hbdomain[x] => k \notin hbdomain'[x]
    BY <1>12 DEF update_hbdomain_join
  <2> QED
    BY <2>1, <2>2 DEF Handling, Removing, Lost
<1>13. ASSUME NEW i \in Host, update_sfdomain_join(i) PROVE Removing(k)'
  <2>1. UNCHANGED <<liveset, agreed, hbdomain, phase, stable, proposed, join_block>>
    BY <1>13 DEF update_sfdomain_join
  <2>2. \A x \in Host : k \in liveset[x] /\ k \notin sfdomain[x] => k \notin sfdomain'[x]
    BY <1>13 DEF update_sfdomain_join
  <2> QED
    BY <2>1, <2>2 DEF Handling, Removing, Lost
<1>14. ASSUME NEW i \in Host, Crash(i) PROVE Removing(k)'
  <2>1. Stop(i) /\ i = k
    BY <1>14, StopSingle DEF Crash
  <2>2. /\ UNCHANGED <<phase, hbdomain, sfdomain>>
        /\ \A x \in Host : x # k => /\ liveset'[x] = liveset[x] /\ agreed'[x] = agreed[x] /\ stable'[x] = stable[x]
                                       /\ proposed'[x] = proposed[x] /\ join_block'[x] = join_block[x]
    BY <2>1 DEF Stop
  <2> QED
    BY <2>2 DEF Handling, Removing, Lost
<1>15. ASSUME NEW i \in Host, Restart(i) PROVE Removing(k)'
  <2>1. i = k /\ UNCHANGED <<liveset, agreed, stable, proposed, join_block>>
    BY <1>15, <1>0 DEF Restart, Up
  <2>2. \A x \in Host : x # k => phase'[x] = phase[x] /\ hbdomain'[x] = hbdomain[x] /\ sfdomain'[x] = sfdomain[x]
    BY <1>15, <2>1 DEF Restart
  <2> QED
    BY <2>1, <2>2 DEF Handling, Removing, Lost
<1>16. ASSUME NEW i \in Host, NEW j \in Host, HbReceive(i, j) PROVE Removing(k)'
  <2>1. UNCHANGED <<liveset, agreed, hbdomain, sfdomain, phase, stable, proposed, join_block>>
    BY <1>16 DEF HbReceive
  <2> QED
    BY <2>1 DEF Handling, Removing, Lost
<1>17. CASE UNCHANGED vars
  BY <1>17 DEF vars, Handling, Removing, Lost
<1> HIDE DEF Removing
<1> QED
  BY <1>1, <1>2, <1>3, <1>4, <1>5, <1>6, <1>7, <1>8, <1>9, <1>10, <1>11, <1>12, <1>13, <1>14,
     <1>15, <1>16, <1>17
  DEF Next, Quiet, HbThread, WorkerThread, Joining, SmThread

(* What start_fh() finds lost can only be k. *)
LEMMA DegradedLost ==
  ASSUME TypeOK, Counted, NEW k \in Host, Single(k), NEW i \in Host, i # k,
         \/ Degraded(i, last_hbdomain[i], hbdomain[i])
         \/ Degraded(i, last_sfdomain[i], sfdomain[i])
  PROVE  Lost(k, i)
<1>1. \A x \in Host : x # k => x \in hbdomain[i] /\ x \in sfdomain[i]
  BY DEF Counted, Single
<1>2. CASE Degraded(i, last_hbdomain[i], hbdomain[i])
  BY <1>1, <1>2 DEF Degraded, TypeOK, Lost
<1>3. CASE Degraded(i, last_sfdomain[i], sfdomain[i])
  BY <1>1, <1>3 DEF Degraded, TypeOK, Lost
<1> QED
  BY <1>2, <1>3

LEMMA LostDegraded ==
  ASSUME TypeOK, Counted, NEW k \in Host, Single(k), NEW i \in Host, i # k, k \in liveset[i],
         k \in last_hbdomain[i], k \in last_sfdomain[i], Lost(k, i)
  PROVE  \/ Degraded(i, last_hbdomain[i], hbdomain[i])
         \/ Degraded(i, last_sfdomain[i], sfdomain[i])
<1>1. \A x \in Host : x # k => x \in hbdomain[i] /\ x \in sfdomain[i]
  BY DEF Counted, Single
<1>2. Max({k}) = k
  BY FaultAssumption DEF Max, Host
<1>3. CASE k \notin hbdomain[i]
  <2>1. last_hbdomain[i] \ hbdomain[i] = {k}
    BY <1>1, <1>3 DEF TypeOK
  <2> QED
    BY <1>2, <2>1 DEF Degraded
<1>4. CASE k \notin sfdomain[i]
  <2>1. last_sfdomain[i] \ sfdomain[i] = {k}
    BY <1>1, <1>4 DEF TypeOK
  <2> QED
    BY <1>2, <2>1 DEF Degraded
<1> QED
  BY <1>3, <1>4 DEF Lost

(* A host that has lost k and is in no round is not seen in one. *)
LEMMA OriginFound ==
  ASSUME TypeOK, Phases, Close, NEW k \in Host, Single(k), NEW j \in Host, j # k, Lost(k, j), phase[j] = "STARTED"
  PROVE  Origin(k, j)
<1>1. ASSUME NEW i \in Host, i # k, i # j
      PROVE  Seen(i, j) \notin Round \cup {"FH2DONE"}
  <2>1. Pair(phase[i], phase[j], Seen(i, j), Seen(j, i)) /\ phase[i] \in RingPhase
    BY <1>1 DEF Close, Phases, Single
  <2>2. Seen(i, j) \in RingPhase /\ Seen(j, i) \in RingPhase
    BY <2>1 DEF Pair
  <2>3. \/ "STARTED" \in Here(Seen(i, j))
        \/ "STARTED" = NextPhase(phase[i]) /\ (Seen(i, j) = "STARTED" \/ phase[i] \in Here(Seen(i, j)))
    BY <2>1 DEF Pair, Here
  <2>4. CASE "STARTED" \in Here(Seen(i, j))
    BY <2>2, <2>4, NextPhases DEF Here, RingPhase, Round
  <2>5. CASE "STARTED" = NextPhase(phase[i]) /\ (Seen(i, j) = "STARTED" \/ phase[i] \in Here(Seen(i, j)))
    <3>1. phase[i] = "FH4DONE"
      BY <2>1, <2>5, NextPhases DEF RingPhase
    <3> QED
      BY <2>2, <2>5, <3>1, NextPhases DEF Here, RingPhase, Round
  <2> QED
    BY <2>3, <2>4, <2>5
<1> QED
  BY <1>1 DEF Origin


LEMMA OriginKept ==
  ASSUME TypeOK, NEW k \in Host, Single(k), Single(k)', NEW o \in Host, Origin(k, o), k \in liveset[o], [Next]_vars
  PROVE  Origin(k, o)'
<1>0. (\A x \in Host : x # k => Up(x)) /\ ~ Up(k)
  BY DEF Single
<1> USE DEF TypeOK, domains, smvars, fhvars, views, calls
<1>1. ASSUME NEW i \in Host, wait_fh_event(i) \/ Advance(i) \/ Agree(i) \/ Snapshot(i) \/
                             UpdateLiveset(i) \/ EndFaultHandler(i) \/ HbStartFh(i) \/
                             SfStartFh(i) \/ readsf(i)
      PROVE  Origin(k, o)'
  <2>1. UNCHANGED <<hbdomain, sfdomain, hbview>>
    BY <1>1 DEF wait_fh_event, Advance, Agree, Snapshot, UpdateLiveset, EndFaultHandler, HbStartFh,
       SfStartFh, readsf
  <2> QED
    BY <2>1 DEF Origin, Lost, Seen
<1>2. ASSUME NEW i \in Host, Survive(i) PROVE Origin(k, o)'
  <2>1. /\ hbview' = hbview
        /\ (k \notin hbdomain[o] => k \notin hbdomain'[o])
        /\ (k \notin sfdomain[o] => k \notin sfdomain'[o])
    BY <1>2 DEF Survive
  <2> QED
    BY <2>1 DEF Origin, Lost, Seen
<1>3. ASSUME NEW i \in Host, self_fence(i) PROVE Origin(k, o)'
  <2>1. Stop(i) /\ i = k
    BY <1>3, StopSingle DEF self_fence
  <2>2. UNCHANGED <<hbdomain, sfdomain>> /\ \A x \in Host : x # k => hbview'[x] = hbview[x]
    BY <2>1 DEF Stop
  <2> QED
    BY <2>2 DEF Origin, Lost, Seen
<1>4. ASSUME NEW i \in Host, update_hbdomain(i) PROVE Origin(k, o)'
  <2>1. UNCHANGED <<sfdomain, hbview>> /\ (k \notin hbdomain[o] => k \notin hbdomain'[o])
    BY <1>4 DEF update_hbdomain
  <2> QED
    BY <2>1 DEF Origin, Lost, Seen
<1>5. ASSUME NEW i \in Host, update_sfdomain(i) PROVE Origin(k, o)'
  <2>1. UNCHANGED <<hbdomain, hbview>> /\ (k \notin sfdomain[o] => k \notin sfdomain'[o])
    BY <1>5 DEF update_sfdomain
  <2> QED
    BY <2>1 DEF Origin, Lost, Seen
<1>6. ASSUME NEW i \in Host, update_hbdomain_join(i) PROVE Origin(k, o)'
  <2>1. UNCHANGED <<sfdomain, hbview>> /\ (k \notin hbdomain[o] => k \notin hbdomain'[o])
    BY <1>6 DEF update_hbdomain_join
  <2> QED
    BY <2>1 DEF Origin, Lost, Seen
<1>7. ASSUME NEW i \in Host, update_sfdomain_join(i) PROVE Origin(k, o)'
  <2>1. UNCHANGED <<hbdomain, hbview>> /\ (k \notin sfdomain[o] => k \notin sfdomain'[o])
    BY <1>7 DEF update_sfdomain_join
  <2> QED
    BY <2>1 DEF Origin, Lost, Seen
<1>8. ASSUME NEW i \in Host, Crash(i) PROVE Origin(k, o)'
  <2>1. Stop(i) /\ i = k
    BY <1>8, StopSingle DEF Crash
  <2>2. UNCHANGED <<hbdomain, sfdomain>> /\ \A x \in Host : x # k => hbview'[x] = hbview[x]
    BY <2>1 DEF Stop
  <2> QED
    BY <2>2 DEF Origin, Lost, Seen
<1>9. ASSUME NEW i \in Host, Restart(i) PROVE Origin(k, o)'
  <2>1. i = k /\ hbview' = hbview
    BY <1>9, <1>0 DEF Restart, Up
  <2>2. \A x \in Host : x # k => hbdomain'[x] = hbdomain[x] /\ sfdomain'[x] = sfdomain[x]
    BY <1>9, <2>1 DEF Restart
  <2> QED
    BY <2>1, <2>2 DEF Origin, Lost, Seen
<1>10. ASSUME NEW i \in Host, NEW j \in Host, HbReceive(i, j) PROVE Origin(k, o)'
  <2>1. UNCHANGED <<hbdomain, sfdomain>>
    BY <1>10 DEF HbReceive
  <2>2. \A x, y \in Host : x # i \/ y # j => hbview'[x][y] = hbview[x][y]
    BY <1>10 DEF HbReceive
  <2>3. hbview'[i][j].hb = hbdomain[j] /\ hbview'[i][j].sf = sfdomain[j]
    BY <1>10 DEF HbReceive, Report
  <2>4. ASSUME NEW x \in Host, x # k, x # o, Seen(x, o)' \in Round \cup {"FH2DONE"}
        PROVE  k \notin hbview'[x][o].hb \/ k \notin hbview'[x][o].sf
    <3>1. CASE x = i /\ o = j
      BY <2>3, <3>1 DEF Origin, Lost
    <3>2. CASE x # i \/ o # j
      BY <2>2, <2>4, <3>2 DEF Origin, Seen
    <3> QED
      BY <3>1, <3>2
  <2> QED
    BY <2>1, <2>4 DEF Origin, Lost
<1>11. CASE UNCHANGED vars
  BY <1>11 DEF vars, Origin, Lost, Seen
<1> HIDE DEF Origin
<1> QED
  BY <1>1, <1>2, <1>3, <1>4, <1>5, <1>6, <1>7, <1>8, <1>9, <1>10, <1>11
  DEF Next, Quiet, HbThread, WorkerThread, Joining, SmThread

LEMMA CauseFound ==
  ASSUME TypeOK, Counted, Phases, Close, NEW k \in Host, Single(k), Single(k)', Handling(k),
         NEW h \in Host, h # k, k \in liveset[h], phase'[h] \in Round \/ Asked(h)', [Next]_vars
  PROVE  \E o \in Host : Origin(k, o)
<1>0. (\A x \in Host : x # k => Up(x)) /\ ~ Up(k)
  BY DEF Single
<1> USE DEF TypeOK, domains, smvars, fhvars, views, calls
<1>1. ASSUME NEW i \in Host, wait_fh_event(i) PROVE \E o \in Host : Origin(k, o)
  <2>1. UNCHANGED <<liveset, hbcall>> /\ need_fh[i] /\ Up(i) /\ ~ join_block[i]
    BY <1>1 DEF wait_fh_event
  <2>2. h # i => phase'[h] = phase[h] /\ need_fh'[h] = need_fh[h]
    BY <1>1 DEF wait_fh_event
  <2>3. phase[i] = "STARTED"
    BY <2>1 DEF Phases
  <2> QED
    BY <2>1, <2>2, <2>3 DEF Handling, Caused, Asked
<1>2. ASSUME NEW i \in Host, Advance(i) PROVE \E o \in Host : Origin(k, o)
  <2>1. UNCHANGED <<liveset, need_fh, hbcall>> /\ (h # i => phase'[h] = phase[h])
    BY <1>2 DEF Advance
  <2>2. /\ phase[i] \in {"FHREADY", "FH1", "FH1DONE", "FH2DONE", "FH3DONE", "FH4DONE"}
        /\ phase'[i] = NextPhase(phase[i])
    BY <1>2 DEF Advance, InHandler
  <2>3. h = i => phase[i] # "FH4DONE"
    BY DEF Handling, Removing
  <2>4. h = i => phase'[i] # "STARTED" /\ (phase'[i] \in Round => phase[i] \in Round)
    BY <2>2, <2>3, NextPhases DEF Round
  <2> QED
    BY <2>1, <2>4 DEF Handling, Caused, Asked
<1>3. ASSUME NEW i \in Host, Agree(i) \/ EndFaultHandler(i) \/ update_sfdomain(i) \/
                             update_sfdomain_join(i) \/ readsf(i)
      PROVE  \E o \in Host : Origin(k, o)
  <2>1. UNCHANGED <<liveset, phase, need_fh, hbcall>>
    BY <1>3 DEF Agree, EndFaultHandler, update_sfdomain, update_sfdomain_join, readsf
  <2> QED
    BY <2>1 DEF Handling, Caused, Asked
<1>4. ASSUME NEW i \in Host, Snapshot(i) PROVE \E o \in Host : Origin(k, o)
  <2>1. /\ UNCHANGED <<liveset, need_fh, hbcall>>
        /\ (h # i => phase'[h] = phase[h])
        /\ phase'[i] = "FH2DONE"
    BY <1>4 DEF Snapshot
  <2> QED
    BY <2>1 DEF Handling, Caused, Asked, Round
<1>5. ASSUME NEW i \in Host, Survive(i) PROVE \E o \in Host : Origin(k, o)
  <2>1. /\ UNCHANGED <<liveset, need_fh, hbcall>>
        /\ (h # i => phase'[h] = phase[h])
        /\ phase'[i] = "FH3DONE"
    BY <1>5 DEF Survive
  <2> QED
    BY <2>1 DEF Handling, Caused, Asked, Round
<1>6. ASSUME NEW i \in Host, self_fence(i) PROVE \E o \in Host : Origin(k, o)
  <2>1. Stop(i) /\ i = k
    BY <1>6, StopSingle DEF self_fence
  <2>2. /\ phase'[h] = phase[h]
        /\ need_fh'[h] = need_fh[h]
        /\ hbcall'[h] = hbcall[h]
        /\ liveset'[h] = liveset[h]
    BY <2>1 DEF Stop
  <2> QED
    BY <2>2 DEF Handling, Caused, Asked
<1>7. ASSUME NEW i \in Host, UpdateLiveset(i) PROVE \E o \in Host : Origin(k, o)
  <2>1. /\ UNCHANGED <<need_fh, hbcall>>
        /\ (h # i => phase'[h] = phase[h] /\ liveset'[h] = liveset[h])
        /\ phase'[i] = "FH4DONE"
    BY <1>7 DEF UpdateLiveset
  <2> QED
    BY <2>1 DEF Handling, Caused, Asked, Round
<1>8. ASSUME NEW i \in Host, update_hbdomain(i) PROVE \E o \in Host : Origin(k, o)
  <2>1. UNCHANGED <<liveset, phase, need_fh>> /\ (hbcall'[h] = "force" => hbcall[h] = "force")
    BY <1>8 DEF update_hbdomain
  <2> QED
    BY <2>1 DEF Handling, Caused, Asked
<1>9. ASSUME NEW i \in Host, HbStartFh(i) PROVE \E o \in Host : Origin(k, o)
  <2>1. UNCHANGED <<liveset, phase>> /\ (hbcall'[h] = "force" => hbcall[h] = "force")
    BY <1>9 DEF HbStartFh
  <2>2. \/ need_fh'[h] = need_fh[h]
        \/ h = i /\ Degraded(i, last_hbdomain[i], hbdomain[i])
        \/ h = i /\ Degraded(i, last_sfdomain[i], sfdomain[i])
        \/ h = i /\ hbcall[i] = "force" /\ phase[i] = "STARTED"
    BY <1>9 DEF HbStartFh, start_fh
  <2>3. CASE need_fh'[h] = need_fh[h] \/ hbcall[h] = "force" \/ phase[h] # "STARTED"
    BY <2>1, <2>3 DEF Handling, Caused, Asked
  <2>4. CASE /\ h = i /\ phase[h] = "STARTED"
             /\ \/ Degraded(i, last_hbdomain[i], hbdomain[i])
                \/ Degraded(i, last_sfdomain[i], sfdomain[i])
    BY <2>4, DegradedLost, OriginFound
  <2> QED
    BY <2>2, <2>3, <2>4
<1>10. ASSUME NEW i \in Host, SfStartFh(i) PROVE \E o \in Host : Origin(k, o)
  <2>1. UNCHANGED <<liveset, phase>> /\ (hbcall'[h] = "force" => hbcall[h] = "force")
    BY <1>10 DEF SfStartFh
  <2>2. \/ need_fh'[h] = need_fh[h]
        \/ h = i /\ Degraded(i, last_hbdomain[i], hbdomain[i])
        \/ h = i /\ Degraded(i, last_sfdomain[i], sfdomain[i])
        \/ h = i /\ hbcall[i] = "force" /\ phase[i] = "STARTED"
    BY <1>10 DEF SfStartFh, start_fh
  <2>3. CASE need_fh'[h] = need_fh[h] \/ hbcall[h] = "force" \/ phase[h] # "STARTED"
    BY <2>1, <2>3 DEF Handling, Caused, Asked
  <2>4. CASE /\ h = i /\ phase[h] = "STARTED"
             /\ \/ Degraded(i, last_hbdomain[i], hbdomain[i])
                \/ Degraded(i, last_sfdomain[i], sfdomain[i])
    BY <2>4, DegradedLost, OriginFound
  <2> QED
    BY <2>2, <2>3, <2>4
<1>11. ASSUME NEW i \in Host, update_hbdomain_join(i) PROVE \E o \in Host : Origin(k, o)
  <2>1. UNCHANGED <<liveset, phase, need_fh>> /\ (hbcall'[h] = "force" => hbcall[h] = "force")
    BY <1>11 DEF update_hbdomain_join
  <2> QED
    BY <2>1 DEF Handling, Caused, Asked
<1>12. ASSUME NEW i \in Host, Crash(i) PROVE \E o \in Host : Origin(k, o)
  <2>1. Stop(i) /\ i = k
    BY <1>12, StopSingle DEF Crash
  <2>2. /\ phase'[h] = phase[h]
        /\ need_fh'[h] = need_fh[h]
        /\ hbcall'[h] = hbcall[h]
        /\ liveset'[h] = liveset[h]
    BY <2>1 DEF Stop
  <2> QED
    BY <2>2 DEF Handling, Caused, Asked
<1>13. ASSUME NEW i \in Host, Restart(i) PROVE \E o \in Host : Origin(k, o)
  <2>1. i = k /\ UNCHANGED <<liveset, need_fh, hbcall>>
    BY <1>13, <1>0 DEF Restart, Up
  <2>2. phase'[h] = phase[h]
    BY <1>13, <2>1 DEF Restart
  <2> QED
    BY <2>1, <2>2 DEF Handling, Caused, Asked
<1>14. ASSUME NEW i \in Host, NEW j \in Host, HbReceive(i, j) PROVE \E o \in Host : Origin(k, o)
  <2>1. UNCHANGED <<liveset, phase, need_fh>> /\ (h # i => hbcall'[h] = hbcall[h])
    BY <1>14 DEF HbReceive
  <2>2. i # k /\ j # k /\ (hbcall'[i] = "force" => phase[j] = "FHREADY")
    BY <1>14, <1>0 DEF HbReceive
  <2>3. CASE h = i /\ hbcall'[i] = "force" /\ phase[h] = "STARTED"
    <3>1. k \in liveset[j]
      BY <2>1, <2>2, <2>3 DEF Handling, Together
    <3> QED
      BY <2>2, <2>3, <3>1 DEF Handling, Caused, Round
  <2>4. CASE ~ (h = i /\ hbcall'[i] = "force" /\ phase[h] = "STARTED")
    BY <2>1, <2>4 DEF Handling, Caused, Asked
  <2> QED
    BY <2>3, <2>4
<1>15. CASE UNCHANGED vars
  BY <1>15 DEF vars, Handling, Caused, Asked
<1> QED
  BY <1>1, <1>2, <1>3, <1>4, <1>5, <1>6, <1>7, <1>8, <1>9, <1>10, <1>11, <1>12, <1>13, <1>14,
     <1>15
  DEF Next, Quiet, HbThread, WorkerThread, Joining, SmThread

(* The liveset of a host only shrinks. *)
LEMMA LivesetShrinks ==
  ASSUME TypeOK, [Next]_vars, NEW x \in Host
  PROVE  liveset'[x] \subseteq liveset[x]
<1> USE DEF TypeOK, domains, smvars, fhvars, views, calls
<1>1. ASSUME liveset' = liveset PROVE liveset'[x] \subseteq liveset[x]
  BY <1>1
<1>2. ASSUME NEW k \in Host, Stop(k) PROVE liveset'[x] \subseteq liveset[x]
  BY <1>2 DEF Stop
<1>3. ASSUME NEW k \in Host, UpdateLiveset(k) PROVE liveset'[x] \subseteq liveset[x]
  BY <1>3 DEF UpdateLiveset
<1>4. liveset' = liveset \/ (\E k \in Host : Stop(k)) \/ \E k \in Host : UpdateLiveset(k)
  BY DEF Next, Quiet, HbThread, WorkerThread, Joining, SmThread, vars, wait_fh_event, Advance, Agree,
     Snapshot, Survive, self_fence, EndFaultHandler, update_hbdomain, HbStartFh,
     update_sfdomain, SfStartFh, update_hbdomain_join, update_sfdomain_join, readsf, Crash, Restart, HbReceive
<1> QED
  BY <1>1, <1>2, <1>3, <1>4

LEMMA PhaseFromFH4 ==
  ASSUME TypeOK, Phases, NEW h \in Host, Up(h), phase[h] = "FH4", [Next]_vars
  PROVE  phase'[h] \in {"FH4", "FH4DONE"}
<1> USE DEF TypeOK, domains, smvars, fhvars, views, calls
<1>1. ASSUME NEW i \in Host, wait_fh_event(i) PROVE phase'[h] \in {"FH4", "FH4DONE"}
  <2>1. i # h
    BY <1>1 DEF wait_fh_event, Phases
  <2> QED
    BY <1>1, <2>1 DEF wait_fh_event
<1>2. ASSUME NEW i \in Host, Advance(i) PROVE phase'[h] \in {"FH4", "FH4DONE"}
  <2>1. i # h /\ phase' = [phase EXCEPT ![i] = NextPhase(phase[i])]
    BY <1>2 DEF Advance, InHandler
  <2> QED
    BY <2>1
<1>3. ASSUME NEW i \in Host, Agree(i) PROVE phase'[h] \in {"FH4", "FH4DONE"}
  BY <1>3 DEF Agree, InHandler
<1>4. ASSUME NEW i \in Host, Snapshot(i) PROVE phase'[h] \in {"FH4", "FH4DONE"}
  BY <1>4 DEF Snapshot, InHandler
<1>5. ASSUME NEW i \in Host, Survive(i) PROVE phase'[h] \in {"FH4", "FH4DONE"}
  BY <1>5 DEF Survive, InHandler
<1>6. ASSUME NEW i \in Host, self_fence(i) PROVE phase'[h] \in {"FH4", "FH4DONE"}
  BY <1>6 DEF self_fence, InHandler, Stop
<1>7. ASSUME NEW i \in Host, UpdateLiveset(i) PROVE phase'[h] \in {"FH4", "FH4DONE"}
  BY <1>7 DEF UpdateLiveset, InHandler
<1>8. ASSUME NEW i \in Host, EndFaultHandler(i) PROVE phase'[h] \in {"FH4", "FH4DONE"}
  BY <1>8 DEF EndFaultHandler, InHandler
<1>9. ASSUME NEW i \in Host, update_hbdomain(i) PROVE phase'[h] \in {"FH4", "FH4DONE"}
  BY <1>9 DEF update_hbdomain
<1>10. ASSUME NEW i \in Host, HbStartFh(i) PROVE phase'[h] \in {"FH4", "FH4DONE"}
  BY <1>10 DEF HbStartFh, start_fh
<1>11. ASSUME NEW i \in Host, update_sfdomain(i) PROVE phase'[h] \in {"FH4", "FH4DONE"}
  BY <1>11 DEF update_sfdomain
<1>12. ASSUME NEW i \in Host, SfStartFh(i) PROVE phase'[h] \in {"FH4", "FH4DONE"}
  BY <1>12 DEF SfStartFh, start_fh
<1>13. ASSUME NEW i \in Host, update_hbdomain_join(i) PROVE phase'[h] \in {"FH4", "FH4DONE"}
  BY <1>13 DEF update_hbdomain_join
<1>14. ASSUME NEW i \in Host, update_sfdomain_join(i) PROVE phase'[h] \in {"FH4", "FH4DONE"}
  BY <1>14 DEF update_sfdomain_join
<1>15. ASSUME NEW i \in Host, readsf(i) PROVE phase'[h] \in {"FH4", "FH4DONE"}
  BY <1>15 DEF readsf
<1>16. ASSUME NEW i \in Host, Crash(i) PROVE phase'[h] \in {"FH4", "FH4DONE"}
  BY <1>16 DEF Crash, Stop
<1>17. ASSUME NEW i \in Host, Restart(i) PROVE phase'[h] \in {"FH4", "FH4DONE"}
  BY <1>17 DEF Restart, Up
<1>18. ASSUME NEW i \in Host, NEW j \in Host, HbReceive(i, j) PROVE phase'[h] \in {"FH4", "FH4DONE"}
  BY <1>18 DEF HbReceive
<1>19. CASE UNCHANGED vars
  BY <1>19 DEF vars
<1> QED
  BY <1>1, <1>2, <1>3, <1>4, <1>5, <1>6, <1>7, <1>8, <1>9, <1>10, <1>11, <1>12, <1>13, <1>14,
     <1>15, <1>16, <1>17, <1>18, <1>19
  DEF Next, Quiet, HbThread, WorkerThread, Joining, SmThread
LEMMA CausedStep ==
  ASSUME TypeOK, Counted, Phases, Close, NEW k \in Host, Single(k), Single(k)', Handling(k), [Next]_vars
  PROVE  Caused(k)'
<1> SUFFICES ASSUME NEW h \in Host, h # k, k \in liveset'[h], phase'[h] \in Round \/ Asked(h)'
             PROVE  \E o \in Host : Origin(k, o)'
  BY DEF Caused, Round
<1>1. k \in liveset[h]
  BY LivesetShrinks
<1>2. PICK o \in Host : Origin(k, o)
  BY <1>1, CauseFound
<1>3. CASE k \in liveset[o]
  BY <1>2, <1>3, OriginKept
<1>4. CASE k \notin liveset[o]
  <2>1. phase[h] = "FH4"
    BY <1>1, <1>2, <1>4 DEF Handling, Together, Origin
  <2>2. phase'[h] \in {"FH4", "FH4DONE"}
    BY <2>1, PhaseFromFH4 DEF Single
  <2> QED
    BY <2>2 DEF Round, Asked
<1> QED
  BY <1>3, <1>4

LEMMA NoticedStep ==
  ASSUME TypeOK, Counted, Phases, Close, NEW k \in Host, Single(k), Single(k)', Handling(k), [Next]_vars
  PROVE  Noticed(k)'
<1>0. (\A x \in Host : x # k => Up(x)) /\ ~ Up(k)
  BY DEF Single
<1> USE DEF TypeOK, domains, smvars, fhvars, views, calls
<1>1. ASSUME NEW i \in Host, wait_fh_event(i) PROVE Noticed(k)'
  <2>1. /\ UNCHANGED <<liveset, hbdomain, sfdomain, hbcall, sfcall, last_hbdomain, last_sfdomain>>
        /\ phase'[i] = "FHREADY"
    BY <1>1 DEF wait_fh_event
  <2>2. \A x \in Host : x # i => phase'[x] = phase[x] /\ need_fh'[x] = need_fh[x]
    BY <1>1 DEF wait_fh_event
  <2> QED
    BY <2>1, <2>2 DEF Handling, Noticed
<1>2. ASSUME NEW i \in Host, Advance(i) PROVE Noticed(k)'
  <2>1. /\ i # k
        /\ UNCHANGED <<liveset, need_fh, hbdomain, sfdomain, hbcall, sfcall, last_hbdomain, last_sfdomain>>
        /\ \A x \in Host : x # i => phase'[x] = phase[x]
    BY <1>2, <1>0 DEF Advance, InHandler
  <2>2. /\ phase[i] \in {"FHREADY", "FH1", "FH1DONE", "FH2DONE", "FH3DONE", "FH4DONE"}
        /\ phase'[i] = NextPhase(phase[i])
    BY <1>2 DEF Advance, InHandler
  <2>3. k \in liveset[i] => phase'[i] # "STARTED"
    BY <2>1, <2>2, NextPhases DEF Handling, Removing
  <2> QED
    BY <2>1, <2>3 DEF Handling, Noticed
<1>3. ASSUME NEW i \in Host, Agree(i) \/ EndFaultHandler(i) \/ readsf(i)
      PROVE  Noticed(k)'
  <2>1. UNCHANGED <<liveset, phase, need_fh, hbdomain, sfdomain, hbcall, sfcall, last_hbdomain, last_sfdomain>>
    BY <1>3 DEF Agree, EndFaultHandler, readsf
  <2> QED
    BY <2>1 DEF Handling, Noticed
<1>4. ASSUME NEW i \in Host, Snapshot(i) PROVE Noticed(k)'
  <2>1. /\ UNCHANGED <<liveset, need_fh, hbdomain, sfdomain, hbcall, sfcall, last_hbdomain, last_sfdomain>>
        /\ phase'[i] = "FH2DONE"
    BY <1>4 DEF Snapshot
  <2>2. \A x \in Host : x # i => phase'[x] = phase[x]
    BY <1>4 DEF Snapshot
  <2> QED
    BY <2>1, <2>2 DEF Handling, Noticed
<1>5. ASSUME NEW i \in Host, Survive(i) PROVE Noticed(k)'
  <2>1. UNCHANGED <<liveset, need_fh, hbcall, sfcall>> /\ phase'[i] = "FH3DONE"
    BY <1>5 DEF Survive
  <2>2. \A x \in Host : x # i => /\ phase'[x] = phase[x] /\ hbdomain'[x] = hbdomain[x] /\ sfdomain'[x] = sfdomain[x]
                                  /\ last_hbdomain'[x] = last_hbdomain[x] /\ last_sfdomain'[x] = last_sfdomain[x]
    BY <1>5 DEF Survive
  <2> QED
    BY <2>1, <2>2 DEF Handling, Noticed
<1>6. ASSUME NEW i \in Host, self_fence(i) PROVE Noticed(k)'
  <2>1. Stop(i) /\ i = k
    BY <1>6, StopSingle DEF self_fence
  <2>2. /\ UNCHANGED <<phase, hbdomain, sfdomain>>
        /\ \A x \in Host : x # k => /\ liveset'[x] = liveset[x] /\ need_fh'[x] = need_fh[x] /\ hbcall'[x] = hbcall[x]
                                       /\ sfcall'[x] = sfcall[x] /\ last_hbdomain'[x] = last_hbdomain[x]
                                       /\ last_sfdomain'[x] = last_sfdomain[x]
    BY <2>1 DEF Stop
  <2> QED
    BY <2>2 DEF Handling, Noticed
<1>7. ASSUME NEW i \in Host, UpdateLiveset(i) PROVE Noticed(k)'
  <2>1. /\ UNCHANGED <<need_fh, hbdomain, sfdomain, hbcall, sfcall, last_hbdomain, last_sfdomain>>
        /\ phase'[i] = "FH4DONE"
    BY <1>7 DEF UpdateLiveset
  <2>2. \A x \in Host : x # i => phase'[x] = phase[x] /\ liveset'[x] = liveset[x]
    BY <1>7 DEF UpdateLiveset
  <2> QED
    BY <2>1, <2>2 DEF Handling, Noticed
<1>8. ASSUME NEW i \in Host, update_hbdomain(i) PROVE Noticed(k)'
  <2>1. /\ UNCHANGED <<liveset, phase, need_fh, sfdomain, sfcall, last_hbdomain, last_sfdomain>>
        /\ hbcall'[i] = "changed"
    BY <1>8 DEF update_hbdomain
  <2>2. \A x \in Host : x # i => hbdomain'[x] = hbdomain[x] /\ hbcall'[x] = hbcall[x]
    BY <1>8 DEF update_hbdomain
  <2> QED
    BY <2>1, <2>2 DEF Handling, Noticed
<1>9. ASSUME NEW i \in Host, HbStartFh(i) PROVE Noticed(k)'
  <2>1. /\ i # k /\ UNCHANGED <<liveset, phase, hbdomain, sfdomain, sfcall>>
        /\ last_hbdomain'[i] = hbdomain[i] /\ last_sfdomain'[i] = sfdomain[i]
    BY <1>9, <1>0 DEF HbStartFh, start_fh
  <2>2. \A x \in Host : x # i => /\ hbcall'[x] = hbcall[x] /\ need_fh'[x] = need_fh[x]
                                  /\ last_hbdomain'[x] = last_hbdomain[x] /\ last_sfdomain'[x] = last_sfdomain[x]
    BY <1>9 DEF HbStartFh, start_fh
  <2>3. phase[i] = "STARTED" /\ ~ need_fh'[i] =>
            /\ ~ need_fh[i] /\ ~ Degraded(i, last_hbdomain[i], hbdomain[i])
            /\ ~ Degraded(i, last_sfdomain[i], sfdomain[i])
    BY <1>9 DEF HbStartFh, start_fh, Covering
  <2>4. k \in liveset[i] /\ phase[i] = "STARTED" /\ ~ need_fh'[i] => k \in hbdomain[i] /\ k \in sfdomain[i]
    BY <2>1, <2>3, LostDegraded DEF Handling, Noticed, Lost
  <2> QED
    BY <2>1, <2>2, <2>4 DEF Handling, Noticed
<1>10. ASSUME NEW i \in Host, update_sfdomain(i) PROVE Noticed(k)'
  <2>1. /\ UNCHANGED <<liveset, phase, need_fh, hbdomain, hbcall, last_hbdomain, last_sfdomain>>
        /\ sfcall'[i] = "changed"
    BY <1>10 DEF update_sfdomain
  <2>2. \A x \in Host : x # i => sfdomain'[x] = sfdomain[x] /\ sfcall'[x] = sfcall[x]
    BY <1>10 DEF update_sfdomain
  <2> QED
    BY <2>1, <2>2 DEF Handling, Noticed
<1>11. ASSUME NEW i \in Host, SfStartFh(i) PROVE Noticed(k)'
  <2>1. /\ i # k /\ UNCHANGED <<liveset, phase, hbdomain, sfdomain, hbcall>>
        /\ last_hbdomain'[i] = hbdomain[i] /\ last_sfdomain'[i] = sfdomain[i]
    BY <1>11, <1>0 DEF SfStartFh, start_fh
  <2>2. \A x \in Host : x # i => /\ sfcall'[x] = sfcall[x] /\ need_fh'[x] = need_fh[x]
                                  /\ last_hbdomain'[x] = last_hbdomain[x] /\ last_sfdomain'[x] = last_sfdomain[x]
    BY <1>11 DEF SfStartFh, start_fh
  <2>3. phase[i] = "STARTED" /\ ~ need_fh'[i] =>
            /\ ~ need_fh[i] /\ ~ Degraded(i, last_hbdomain[i], hbdomain[i])
            /\ ~ Degraded(i, last_sfdomain[i], sfdomain[i])
    BY <1>11 DEF SfStartFh, start_fh, Covering
  <2>4. k \in liveset[i] /\ phase[i] = "STARTED" /\ ~ need_fh'[i] => k \in hbdomain[i] /\ k \in sfdomain[i]
    BY <2>1, <2>3, LostDegraded DEF Handling, Noticed, Lost
  <2> QED
    BY <2>1, <2>2, <2>4 DEF Handling, Noticed
<1>12. ASSUME NEW i \in Host, update_hbdomain_join(i) PROVE Noticed(k)'
  <2>1. /\ UNCHANGED <<liveset, phase, need_fh, sfdomain, sfcall, last_hbdomain, last_sfdomain>>
        /\ hbcall'[i] = "changed"
    BY <1>12 DEF update_hbdomain_join
  <2>2. \A x \in Host : x # i => hbdomain'[x] = hbdomain[x] /\ hbcall'[x] = hbcall[x]
    BY <1>12 DEF update_hbdomain_join
  <2> QED
    BY <2>1, <2>2 DEF Handling, Noticed
<1>13. ASSUME NEW i \in Host, update_sfdomain_join(i) PROVE Noticed(k)'
  <2>1. /\ UNCHANGED <<liveset, phase, need_fh, hbdomain, hbcall, last_hbdomain, last_sfdomain>>
        /\ sfcall'[i] = "changed"
    BY <1>13 DEF update_sfdomain_join
  <2>2. \A x \in Host : x # i => sfdomain'[x] = sfdomain[x] /\ sfcall'[x] = sfcall[x]
    BY <1>13 DEF update_sfdomain_join
  <2> QED
    BY <2>1, <2>2 DEF Handling, Noticed
<1>14. ASSUME NEW i \in Host, Crash(i) PROVE Noticed(k)'
  <2>1. Stop(i) /\ i = k
    BY <1>14, StopSingle DEF Crash
  <2>2. /\ UNCHANGED <<phase, hbdomain, sfdomain>>
        /\ \A x \in Host : x # k => /\ liveset'[x] = liveset[x] /\ need_fh'[x] = need_fh[x] /\ hbcall'[x] = hbcall[x]
                                       /\ sfcall'[x] = sfcall[x] /\ last_hbdomain'[x] = last_hbdomain[x]
                                       /\ last_sfdomain'[x] = last_sfdomain[x]
    BY <2>1 DEF Stop
  <2> QED
    BY <2>2 DEF Handling, Noticed
<1>15. ASSUME NEW i \in Host, Restart(i) PROVE Noticed(k)'
  <2>1. i = k /\ UNCHANGED <<liveset, need_fh, hbcall, sfcall, last_hbdomain, last_sfdomain>>
    BY <1>15, <1>0 DEF Restart, Up
  <2>2. \A x \in Host : x # k => phase'[x] = phase[x] /\ hbdomain'[x] = hbdomain[x] /\ sfdomain'[x] = sfdomain[x]
    BY <1>15, <2>1 DEF Restart
  <2> QED
    BY <2>1, <2>2 DEF Handling, Noticed
<1>16. ASSUME NEW i \in Host, NEW j \in Host, HbReceive(i, j) PROVE Noticed(k)'
  <2>1. /\ UNCHANGED <<liveset, phase, need_fh, hbdomain, sfdomain, sfcall, last_hbdomain, last_sfdomain>>
        /\ hbcall[i] = "none"
    BY <1>16 DEF HbReceive
  <2>2. \A x \in Host : x # i => hbcall'[x] = hbcall[x]
    BY <1>16 DEF HbReceive
  <2> QED
    BY <2>1, <2>2 DEF Handling, Noticed
<1>17. CASE UNCHANGED vars
  BY <1>17 DEF vars, Handling, Noticed
<1> HIDE DEF Noticed
<1> QED
  BY <1>1, <1>2, <1>3, <1>4, <1>5, <1>6, <1>7, <1>8, <1>9, <1>10, <1>11, <1>12, <1>13, <1>14,
     <1>15, <1>16, <1>17
  DEF Next, Quiet, HbThread, WorkerThread, Joining, SmThread

(* The first host that stops finds the others undisturbed. *)
LEMMA FirstLoss ==
  ASSUME TypeOK, Counted, Phases, Undisturbed, [Next]_vars, NEW k \in Host, \A x \in Host : Up(x), Single(k)'
  PROVE  Handling(k)'
<1>1. \A i \in Host : /\ phase[i] = "STARTED" /\ ~ need_fh[i] /\ ~ join_block[i]
                      /\ hbcall[i] = "none" /\ sfcall[i] = "none"
                      /\ last_hbdomain[i] = Host /\ last_sfdomain[i] = Host
  BY DEF Undisturbed
<1>2. mode' # mode
  BY DEF Single, Up
<1>3. PICK c \in Host : Stop(c)
  <2>1. mode' = mode \/ (\E c \in Host : Stop(c)) \/ \E c \in Host : Restart(c)
    BY DEF Next, Quiet, HbThread, WorkerThread, Joining, SmThread, vars, wait_fh_event, Advance, Agree,
       Snapshot, Survive, self_fence, UpdateLiveset, EndFaultHandler, update_hbdomain, HbStartFh,
       update_sfdomain, SfStartFh, update_hbdomain_join, update_sfdomain_join, readsf, Crash, HbReceive
  <2>2. ~ \E c \in Host : Restart(c)
    BY DEF Restart, Up
  <2> QED
    BY <1>2, <2>1, <2>2
<1>4. c = k
  BY <1>3, StopSingle
<1>5. UNCHANGED <<phase, hbdomain, sfdomain>>
  BY <1>3 DEF Stop, domains
<1>6. \A i \in Host : i # k =>
        /\ liveset'[i] = liveset[i] /\ need_fh'[i] = need_fh[i] /\ join_block'[i] = join_block[i]
        /\ agreed'[i] = agreed[i] /\ hbcall'[i] = hbcall[i] /\ sfcall'[i] = sfcall[i]
        /\ last_hbdomain'[i] = last_hbdomain[i] /\ last_sfdomain'[i] = last_sfdomain[i]
  BY <1>3, <1>4 DEF Stop, TypeOK
<1>7. \A i \in Host : k \in liveset[i] /\ k \in hbdomain[i] /\ k \in sfdomain[i] /\ ~ agreed[i]
  BY <1>1 DEF Counted, Phases
<1>8. Caused(k)'
  BY <1>1, <1>5, <1>6 DEF Caused, Asked, Round
<1>9. Removing(k)'
  BY <1>1, <1>5, <1>6, <1>7 DEF Removing
<1>10. Together(k)'
  BY <1>6, <1>7 DEF Together
<1>11. Noticed(k)'
  BY <1>1, <1>5, <1>6, <1>7 DEF Noticed
<1> QED
  BY <1>8, <1>9, <1>10, <1>11 DEF Handling

LEMMA HandledStep ==
  ASSUME TypeOK, Counted, Phases, Close, Undisturbed, Handled, [Next]_vars
  PROVE  Handled'
<1> SUFFICES ASSUME NEW k \in Host, Single(k)'
             PROVE  Handling(k)'
  BY DEF Handled
<1>1. \A x \in Host : x # k => Up(x)
  BY UpShrinks DEF Single
<1>2. CASE Up(k)
  BY <1>1, <1>2, FirstLoss
<1>3. CASE ~ Up(k)
  <2>1. Single(k) /\ Handling(k)
    BY <1>1, <1>3 DEF Single, Handled
  <2>2. Caused(k)'
    BY <2>1, CausedStep
  <2>3. Removing(k)'
    BY <2>1, RemovingStep
  <2>4. Together(k)'
    BY <2>1, TogetherStep
  <2>5. Noticed(k)'
    BY <2>1, NoticedStep
  <2> QED
    BY <2>2, <2>3, <2>4, <2>5 DEF Handling
<1> QED
  BY <1>2, <1>3

-----------------------------------------------------------------------------
(* The theorems *)

FaultInv == TypeOK /\ Counted /\ Phases /\ Close /\ Undisturbed /\ Handled

LEMMA InitInv == Init => FaultInv
<1> SUFFICES ASSUME Init PROVE FaultInv
  OBVIOUS
<1>1. TypeOK
  BY InitType
<1>2. \A i \in Host : /\ Up(i) <=> i \notin Starting
                      /\ i \notin Starting => phase[i] = "STARTED" /\ liveset[i] = Host \ Starting
                      /\ hbdomain[i] = Host /\ sfdomain[i] = Host /\ proposed[i] = liveset[i]
  BY DEF Init, Up
<1>3. \A i \in Host : /\ ~ need_fh[i] /\ ~ join_block[i] /\ ~ agreed[i] /\ hbcall[i] = "none" /\ sfcall[i] = "none"
                      /\ last_hbdomain[i] = Host /\ last_sfdomain[i] = Host
  BY DEF Init
<1>4. Counted
  BY <1>2 DEF Counted
<1>5. Phases
  BY <1>2, <1>3 DEF Phases, RingPhase
<1>6. Close
  <2>1. ASSUME NEW i \in Host, NEW j \in Host, Up(i), Up(j), i # j
        PROVE  Seen(i, j) = "STARTED"
    <3>1. hbview[i][j] = Report(j)
      BY <2>1 DEF Init
    <3> QED
      BY <1>2, <2>1, <3>1 DEF Seen, Report
  <2> QED
    BY <1>2, <2>1 DEF Close, Pair, Here, RingPhase
<1>7. Undisturbed
  BY <1>2, <1>3 DEF Undisturbed
<1>8. Handled
  <2> SUFFICES ASSUME NEW k \in Host, Single(k) PROVE Handling(k)
    BY DEF Handled
  <2>1. \A i \in Host : i # k => k \notin liveset[i]
    BY <1>2 DEF Single
  <2> QED
    BY <2>1 DEF Handling, Caused, Removing, Together, Noticed
<1> QED
  BY <1>1, <1>4, <1>5, <1>6, <1>7, <1>8 DEF FaultInv

LEMMA NextInv ==
  ASSUME FaultInv, [Next]_vars
  PROVE  FaultInv'
<1> USE DEF FaultInv
<1>1. TypeOK'
  BY TypeStep
<1>2. Counted'
  BY CountedStep
<1>3. Phases'
  BY PhasesStep
<1>4. Close'
  BY CloseStep
<1>5. Undisturbed'
  BY UndisturbedStep
<1>6. Handled'
  BY HandledStep
<1> QED
  BY <1>1, <1>2, <1>3, <1>4, <1>5, <1>6

LEMMA InvInStep == FaultInv => InStep
<1> SUFFICES ASSUME FaultInv, NEW i \in Host, NEW j \in Host, Up(i), Up(j)
             PROVE  phase[i] = phase[j] \/ phase[i] = NextPhase(phase[j]) \/ phase[j] = NextPhase(phase[i])
  BY DEF InStep
<1>1. CASE i = j
  BY <1>1
<1>2. CASE i # j
  BY <1>2 DEF FaultInv, Close, Pair
<1> QED
  BY <1>1, <1>2

LEMMA InvLoss == FaultInv => SingleLossHandled
<1> SUFFICES ASSUME FaultInv, Cardinality({k \in Host : ~ Up(k)}) <= 1, NEW i \in Host, Up(i),
                    NEW k \in liveset[i], k \notin hbdomain[i], k \notin sfdomain[i],
                    ~ join_block[i], ~ need_fh[i]
             PROVE  hbcall[i] # "none" \/ sfcall[i] # "none"
  BY DEF SingleLossHandled, NotForgotten
<1>1. k \in Host /\ ~ Up(k)
  BY DEF FaultInv, TypeOK, Counted
<1>2. \A x \in Host : x # k => Up(x)
  <2> SUFFICES ASSUME NEW x \in Host, x # k, ~ Up(x) PROVE FALSE
    OBVIOUS
  <2> DEFINE Down == {y \in Host : ~ Up(y)}
  <2>1. IsFiniteSet(Host)
    BY FaultAssumption, FS_Interval DEF Host
  <2>2. IsFiniteSet(Down)
    BY <2>1, FS_Subset
  <2>3. Cardinality({k, x}) = 2 /\ IsFiniteSet({k, x})
    <3>1. IsFiniteSet({k}) /\ Cardinality({k}) = 1
      BY FS_Singleton
    <3>2. {k} \cup {x} = {k, x} /\ x \notin {k}
      OBVIOUS
    <3>3. IsFiniteSet({k} \cup {x}) /\ Cardinality({k} \cup {x}) = Cardinality({k}) + 1
      BY <3>1, <3>2, FS_AddElement
    <3> QED
      BY <3>1, <3>2, <3>3
  <2>4. Cardinality({k, x}) <= Cardinality(Down)
    BY <1>1, <2>2, FS_Subset
  <2>5. Cardinality(Down) \in Nat
    BY <2>2, FS_CardinalityType
  <2> QED
    BY <2>3, <2>4, <2>5
<1>3. Noticed(k)
  BY <1>1, <1>2 DEF FaultInv, Handled, Handling, Single
<1>4. phase[i] = "STARTED"
  BY DEF FaultInv, Phases
<1> QED
  BY <1>1, <1>3, <1>4 DEF Noticed

LEMMA InvHolds == Spec => []FaultInv
<1>1. FaultInv /\ UNCHANGED vars => FaultInv'
  BY NextInv
<1> QED
  BY InitInv, NextInv, PTL DEF Spec

(* The variables of the daemons keep their types, whatever hosts stop and  *)
(* come back.                                                              *)
THEOREM TypeCorrect == Spec => []TypeOK
<1>1. FaultInv => TypeOK
  BY DEF FaultInv
<1> QED
  BY <1>1, InvHolds, PTL

(* The rendezvous of fault_handler() keep any number of running hosts      *)
(* within one phase of each other, although each goes by reports that may  *)
(* be old, and although it enters a round and copies its view without a    *)
(* rendezvous of its own.                                                  *)
THEOREM HostsInStep == Spec => []InStep
  BY InvHolds, InvInStep, PTL

(* While only one host has been lost, start_fh() never lets that loss pass *)
(* as covered by a round that keeps the host: a round among hosts that     *)
(* have the lost host in their livesets always comes from a host that had  *)
(* noticed the loss before, and takes the lost host out everywhere.        *)
THEOREM LossHandled == Spec => []SingleLossHandled
  BY InvHolds, InvLoss, PTL
=============================================================================
