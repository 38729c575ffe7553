------------------------------ MODULE Survival ------------------------------
(***************************************************************************)
(* Who survives a fault: phases 2 and 3 of the fault handler of the state  *)
(* manager (daemon/sm.c), wait_until_all_hosts_have_consistent_view() and  *)
(* test_Survival_Rule().                                                   *)
(*                                                                         *)
(* A scenario (which hosts are up, which of them exchange heartbeats,      *)
(* which reach the State-File, their weights) is chosen initially and has  *)
(* lasted for the timeouts T1 and T2, so that the domains the hosts        *)
(* publish follow from it.  Every running host then decides on its own,    *)
(* from its copies of the HB and SF objects, whether it survives and with  *)
(* whom; no host asks another one again.                                   *)
(***************************************************************************)
EXTENDS Naturals, Integers, FiniteSets, FiniteSetsExt

CONSTANTS
    N,          \* number of configured hosts
    Weights,    \* the weights a host may have committed
    MaxHostNum  \* MAX_HOST_NUM of the build

Host == 0 .. N - 1

ASSUME SurvivalAssumption ==
    /\ N \in Nat \ {0} /\ MaxHostNum \in Nat /\ N <= MaxHostNum /\ MaxHostNum < 256
    /\ Weights \subseteq Nat

VARIABLES
    up,         \* the hosts that run
    excluded,   \* the hosts that were shut down and excluded
    link,       \* the pairs of running hosts whose heartbeats get through
    sfhosts,    \* the hosts that access the State-File
    weight,     \* weight[j]: what j committed, as in psf->weight
    pc,         \* pc[i]: "view", "merge", "test", "won" or "lost"
    hbdomain,   \* hbdomain[i]: stable_hb.hbdomain
    sfdomain,   \* sfdomain[i]: stable_sf.sfdomain
    raw,        \* raw[i][j]: stable_sf.raw[j].hbdomain
    removedhost,\* removedhost[i]: local of the merge
    SR2,        \* SR2[i]: smvar.SR2
    proposed    \* proposed[i]: psm->proposed_liveset

scenario == <<up, excluded, link, sfhosts, weight>>
decision == <<pc, hbdomain, sfdomain, raw, removedhost, SR2, proposed>>
vars == <<scenario, decision>>

-----------------------------------------------------------------------------
(* The domains of host i in the scenario.  During fault handling a host    *)
(* drops a peer that says it does not hear it (update_hbdomain), so that   *)
(* heartbeat domains are symmetric.                                        *)
HbDomain(i) == {i} \cup {j \in Host : {i, j} \in link}
SfDomain(i) == IF i \in sfhosts THEN sfhosts ELSE {}

(* What host i last heard from j, by heartbeat (phb->raw) and through the  *)
(* State-File (psf->raw).  What it did not hear since the fault is from    *)
(* before the fault, when everybody saw everybody.                         *)
Fresh(i, j) == i \in sfhosts /\ j \in sfhosts
phb_raw_hbdomain(i, j) == IF {i, j} \in link THEN HbDomain(j) ELSE Host
phb_raw_sfdomain(i, j) == IF {i, j} \in link THEN SfDomain(j) ELSE Host
psf_raw_hbdomain(i, j) == IF Fresh(i, j) THEN HbDomain(j) ELSE Host
psf_raw_sfdomain(i, j) == IF Fresh(i, j) THEN SfDomain(j) ELSE Host

(* The pool ran with all hosts before the fault, except the excluded ones. *)
Liveset == Host \ excluded

Init ==
    /\ up \in (SUBSET Host) \ {{}}
    /\ excluded \in SUBSET (Host \ up)
    /\ link \in SUBSET {e \in SUBSET up : Cardinality(e) = 2}
    /\ sfhosts \in SUBSET up
    /\ weight \in [Host -> Weights]
    /\ pc = [i \in Host |-> IF i \in up THEN "view" ELSE "down"]
    /\ hbdomain = [i \in Host |-> HbDomain(i) \cap Liveset]
    /\ sfdomain = [i \in Host |-> SfDomain(i) \cap Liveset]
    /\ raw = [i \in Host |-> [j \in Host |-> psf_raw_hbdomain(i, j) \cap Liveset]]
    /\ removedhost = [i \in Host |-> {}]
    /\ SR2 \in {[i \in Host |-> b] : b \in BOOLEAN}
    /\ proposed = [i \in Host |-> Liveset]

-----------------------------------------------------------------------------
(* wait_until_all_hosts_have_consistent_view *)

(* Everybody i hears, on either medium, sees what i sees. *)
Consistent(i) ==
    \A j \in Liveset \ {i} :
        /\ j \in hbdomain[i] =>
              /\ hbdomain[i] = phb_raw_hbdomain(i, j) \cap Liveset
              /\ sfdomain[i] = phb_raw_sfdomain(i, j) \cap Liveset
        /\ j \in sfdomain[i] =>
              /\ sfdomain[i] = psf_raw_sfdomain(i, j) \cap Liveset
              /\ hbdomain[i] = psf_raw_hbdomain(i, j) \cap Liveset

ViewConsistent(i) ==
    /\ pc[i] = "view" /\ Consistent(i)
    /\ pc' = [pc EXCEPT ![i] = "test"]
    /\ UNCHANGED <<scenario, hbdomain, sfdomain, raw, removedhost, SR2, proposed>>

(* The domains d with the hosts of gone cleared out, and cleared. *)
Without(d, gone) == [j \in Host |-> IF j \in gone THEN {} ELSE d[j] \ gone]

(* The view is still not consistent when the time is over.  Hosts that say *)
(* they have no State-File lose their place in the SF domain, and hosts    *)
(* out of it are removed.                                                  *)
ViewTimeout(i) ==
    /\ pc[i] = "view" /\ ~ Consistent(i)
    /\ LET lost == {j \in Host \ {i} : \/ psf_raw_sfdomain(i, j) \cap Liveset = {}
                                       \/ phb_raw_sfdomain(i, j) \cap Liveset = {}}
           my_sfdomain == sfdomain[i] \ lost
       IN  /\ sfdomain' = [sfdomain EXCEPT ![i] = my_sfdomain]
           /\ removedhost' = [removedhost EXCEPT ![i] = Host \ my_sfdomain]
           /\ raw' = [raw EXCEPT ![i] =
                 Without([@ EXCEPT ![i] = hbdomain[i]], Host \ my_sfdomain)]
    /\ pc' = [pc EXCEPT ![i] = "merge"]
    /\ UNCHANGED <<scenario, hbdomain, SR2, proposed>>

(* The weights w of the hosts of S, added up from the first host to the    *)
(* last.                                                                   *)
WeightOf(S, w) ==
    LET sum[n \in 0 .. N] ==
          IF n = 0 THEN 0 ELSE sum[n - 1] + (IF n - 1 \in S THEN w[n - 1] ELSE 0)
    IN  sum[N]

get_partition_score(S, w) ==
    WeightOf(S, w) * 65536 + Cardinality(S) * 256 + (IF S = {} THEN 0 ELSE MaxHostNum - Min(S))

(* Mutant: the largest domain is selected. *)
SelectedLargest(i, j) ==
    /\ j \in Host \ removedhost[i]
    /\ \A k \in Host \ removedhost[i] :
          LET sj == get_partition_score(raw[i][j], weight)
              sk == get_partition_score(raw[i][k], weight)
          IN  sj > sk \/ (sj = sk /\ k <= j)

(* The host left with the smallest domain, the last one of equals. *)
Selected(i, j) ==
    /\ j \in Host \ removedhost[i]
    /\ \A k \in Host \ removedhost[i] :
          LET sj == get_partition_score(raw[i][j], weight)
              sk == get_partition_score(raw[i][k], weight)
          IN  sj < sk \/ (sj = sk /\ k <= j)

(* Mutant: the test of the loop looks at the local host's domain only. *)
PerfectForMe(i) == raw[i][i] \cup removedhost[i] = Host \/ i \in removedhost[i]

(* The loop ends when the smallest domain has everybody who is left. *)
Perfect(i) == \A j \in Host : Selected(i, j) => raw[i][j] \cup removedhost[i] = Host

MergeRemove(i) ==
    /\ pc[i] = "merge" /\ ~ Perfect(i)
    /\ \E j \in Host :
          /\ Selected(i, j)
          /\ raw' = [raw EXCEPT ![i] = Without(@, {j})]
          /\ removedhost' = [removedhost EXCEPT ![i] = @ \cup {j}]
    /\ UNCHANGED <<scenario, pc, hbdomain, sfdomain, SR2, proposed>>

MergeDone(i) ==
    /\ pc[i] = "merge" /\ Perfect(i)
    /\ hbdomain' = [hbdomain EXCEPT ![i] = raw[i][i]]
    /\ pc' = [pc EXCEPT ![i] = "test"]
    /\ UNCHANGED <<scenario, sfdomain, raw, removedhost, SR2, proposed>>

-----------------------------------------------------------------------------
(* test_Survival_Rule *)

get_partition_size(sfd, hbd, w) ==
    IF sfd = {} THEN 0 ELSE Cardinality(sfd \cap hbd) + 256 * WeightOf(sfd \cap hbd, w)

partition_size(i, j) ==
    IF j \notin sfdomain[i] THEN 0
    ELSE IF j = i THEN get_partition_size(sfdomain[i], hbdomain[i], weight)
    ELSE get_partition_size(psf_raw_sfdomain(i, j) \cap Liveset, raw[i][j], weight)

(* The first host with the largest partition. *)
WinnerIndex(i, j) ==
    /\ partition_size(i, j) > 0
    /\ \A k \in Host : IF k < j THEN partition_size(i, k) < partition_size(i, j)
                                ELSE partition_size(i, k) <= partition_size(i, j)

(* Mutants: a member of the SF domain of the winner wins; only the winner  *)
(* itself wins.                                                            *)
am_I_in_sfdomain_of_winner(i) ==
    \E j \in Host : WinnerIndex(i, j) /\ (j = i \/ i \in psf_raw_sfdomain(i, j))

am_I_the_winner(i) == WinnerIndex(i, i)

am_I_in_largest_partition(i) ==
    \E j \in Host :
        /\ WinnerIndex(i, j)
        /\ \/ j = i
           \/ /\ i \in psf_raw_sfdomain(i, j) \cap raw[i][j]
              /\ j \in sfdomain[i] \cap hbdomain[i]

(* Survival Rule 2: nobody reaches the State-File, and whoever is not      *)
(* heard is excluded.                                                      *)
SurvivalRule2(i) ==
    \A j \in Host :
        /\ j \in hbdomain[i] => ~ (IF j = i THEN i \in sfhosts ELSE j \in phb_raw_sfdomain(i, j))
        /\ j \notin hbdomain[i] => j \in excluded

(* A winner proposes the hosts of both domains, or of its heartbeat domain *)
(* when the SR2 flag is set (a stale one too: winning by the first rule    *)
(* does not clear it).                                                     *)
Survive(i, sr2) ==
    /\ pc' = [pc EXCEPT ![i] = "won"]
    /\ SR2' = [SR2 EXCEPT ![i] = sr2]
    /\ proposed' = [proposed EXCEPT
          ![i] = @ \cap hbdomain[i] \cap (IF sr2 THEN Host ELSE sfdomain[i])]

(* Mutant: there is no comparison of partitions. *)
FirstRuleContained(i) == sfdomain[i] \subseteq hbdomain[i] /\ sfdomain[i] # {}

FirstRule(i) ==
    \/ sfdomain[i] \subseteq hbdomain[i] /\ sfdomain[i] # {}
    \/ am_I_in_largest_partition(i)

WinByFirstRule(i) ==
    /\ pc[i] = "test" /\ FirstRule(i)
    /\ Survive(i, SR2[i])
    /\ UNCHANGED <<scenario, hbdomain, sfdomain, raw, removedhost>>

WinBySecondRule(i) ==
    /\ pc[i] = "test" /\ ~ FirstRule(i) /\ SurvivalRule2(i)
    /\ Survive(i, TRUE)
    /\ UNCHANGED <<scenario, hbdomain, sfdomain, raw, removedhost>>

(* The loser fences itself. *)
Lose(i) ==
    /\ pc[i] = "test" /\ ~ FirstRule(i) /\ ~ SurvivalRule2(i)
    /\ pc' = [pc EXCEPT ![i] = "lost"]
    /\ SR2' = [SR2 EXCEPT ![i] = FALSE]
    /\ UNCHANGED <<scenario, hbdomain, sfdomain, raw, removedhost, proposed>>

FaultHandler(i) ==
    \/ ViewConsistent(i) \/ ViewTimeout(i) \/ MergeRemove(i) \/ MergeDone(i)
    \/ WinByFirstRule(i) \/ WinBySecondRule(i) \/ Lose(i)

Decided == \A i \in up : pc[i] \in {"won", "lost"}

Next == (\E i \in Host : FaultHandler(i)) \/ (Decided /\ UNCHANGED vars)

Spec == Init /\ [][Next]_vars

-----------------------------------------------------------------------------
(* The values the copies of the objects and the decision can have. *)
TypeOK ==
    /\ up \in SUBSET Host /\ excluded \in SUBSET (Host \ up)
    /\ link \in SUBSET SUBSET up /\ sfhosts \in SUBSET up
    /\ weight \in [Host -> Weights]
    /\ pc \in [Host -> {"view", "merge", "test", "won", "lost", "down"}]
    /\ hbdomain \in [Host -> SUBSET Host] /\ sfdomain \in [Host -> SUBSET Host]
    /\ raw \in [Host -> [Host -> SUBSET Host]]
    /\ removedhost \in [Host -> SUBSET Host]
    /\ SR2 \in [Host -> BOOLEAN] /\ proposed \in [Host -> SUBSET Host]

Won(i) == pc[i] = "won"

(* No split brain: any two hosts that survive propose the same liveset,    *)
(* and are both in it, whatever the partition of the heartbeat network.    *)
NoSplitBrain ==
    \A i, j \in Host : Won(i) /\ Won(j) => proposed[i] = proposed[j] /\ j \in proposed[i]

(* The hosts a survivor keeps are connected: each of them exchanges        *)
(* heartbeats with each other one.                                         *)
SurvivorsConnected ==
    \A i \in Host : Won(i) => \A j, k \in proposed[i] : j = k \/ {j, k} \in link

(* A survivor keeps no host that decides to fence itself. *)
NoLoserKept ==
    \A i, j \in Host : Won(i) /\ pc[j] = "lost" => j \notin proposed[i]

(* The pool outlives every fault that leaves a host with State-File access *)
(* running.                                                                *)
SomeoneSurvives == Decided /\ sfhosts # {} => \E i \in Host : Won(i)

(* The heartbeat network is split into partitions without damage inside. *)
CleanPartition ==
    \A i, j, k \in up : {i, j} \in link /\ {j, k} \in link => i = k \/ {i, k} \in link

(* When the network is split cleanly and every running host reaches the    *)
(* State-File, the partition of the largest weight survives, the larger    *)
(* one of equal weights, and of equals the one with the lowest host.       *)
LargestPartitionSurvives ==
    Decided /\ CleanPartition /\ sfhosts = up =>
        \A i \in up : Won(i) <=>
            \A j \in up : get_partition_score(HbDomain(j), weight)
                         <= get_partition_score(HbDomain(i), weight)
=============================================================================
