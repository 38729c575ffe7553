----------------------------- MODULE JoinProofs -----------------------------
(***************************************************************************)
(* Proofs about the start of hosts, for any number of them and whatever    *)
(* the situation is that they start in.                                    *)
(***************************************************************************)
EXTENDS Join, WellFoundedInduction, TLAPS

-----------------------------------------------------------------------------
(* Places of the SM thread: before it proposes anything, before it is in   *)
(* or asks to be, before it has started.                                   *)
Early == {"off", "down", "copy", "decide", "loop"}
Blank == Early \cup {"booting", "booted"}
Coming == Blank \cup {"join", "asking", "formed"}
Place == Coming \cup {"never", "started", "aborted"}

Copies == [exists : BOOLEAN, hb : SUBSET Host, sf : SUBSET Host, nonstarting : SUBSET Host,
           joining : SUBSET Host, excludedmap : SUBSET Host, pool : {"INIT", "ACTIVE"},
           excluded : BOOLEAN]
Packets == [current : SUBSET Host, proposed : SUBSET Host, joining : BOOLEAN]
Sections == [current : SUBSET Host, starting : BOOLEAN, hbdomain : SUBSET Host]

(* The values of all variables; who starts or is in is configured. *)
JoinTypes ==
  /\ JoinTypeOK
  /\ config \subseteq Host /\ dying \subseteq Host
  /\ copies \in [Host -> Copies]
  /\ hbraw \in [Host -> [Host -> Packets]]
  /\ disk \in [Host -> Sections]
  /\ \A i \in Host : smat[i] # "never" => i \in config

(* A host has no liveset and proposes none before it decides for one. *)
NothingYet ==
  \A i \in Host :
    /\ smat[i] \in Blank \cup {"never"} => current[i] = {}
    /\ smat[i] \in Early \cup {"never"} => proposed[i] = {}

(* It starts without having heard of anybody but itself, ...               *)
HearsStarted ==
  \A i \in Host :
    /\ i \in hbdom[i]
    /\ smat[i] \in Blank => \A j \in hbdom[i] \ {i} : smat[j] \notin {"off", "never"}

(* ... is among those it copied and that want to join, and whom it copied  *)
(* it still hears, or they are gone.                                       *)
CopiesHeard ==
  \A i \in Host :
    /\ smat[i] \in {"decide", "loop", "booting", "booted"} => i \in copies[i].hb \cap copies[i].joining
    /\ smat[i] \in {"decide", "booting", "booted"} =>
         \A j \in copies[i].hb \ {i} :
           smat[j] \notin {"off", "never"} /\ (Running(j) => j \in hbdom[i])

(* Its section shows that it is starting, so that it does not take itself  *)
(* for a host it could join.                                               *)
ShowsStarting ==
  \A i \in Host :
    /\ smat[i] \in Coming \ {"off"} => starting[i]
    /\ smat[i] \in Coming \ {"off", "down"} => disk[i].starting
    /\ smat[i] = "decide" => i \notin copies[i].nonstarting

(* It is in its own liveset as soon as it is in one, and not while it      *)
(* asks.                                                                   *)
InItsOwn ==
  \A i \in Host :
    /\ smat[i] \in {"formed", "started"} => i \in current[i]
    /\ smat[i] \in {"join", "asking"} => i \notin current[i]

(* Nobody that starts has heard a proposal of a host that has made none.   *)
HeardNothingYet ==
  \A i, j \in Host :
    smat[i] \in Coming /\ i # j /\ smat[j] \in Early \cup {"never"} => hbraw[i][j].proposed = {}

(* Who waits for all hosts proposes them all, and what it has heard of     *)
(* those that ask to join others stands.                                   *)
WaitsForAll ==
  /\ \A i \in Host :
       smat[i] \in {"booting", "booted"} => proposed[i] = config /\ copies[i].hb = config
  /\ \A i, j \in Host :
       smat[i] \in Blank /\ i # j /\ smat[j] \in {"join", "asking"} /\ i \in hbraw[i][j].proposed =>
         i \in proposed[j]

(* Who no longer waits for the others is proposed by all of them that are  *)
(* up and have not formed a liveset yet.                                   *)
AllPropose ==
  \A i \in Host : smat[i] = "booted" =>
    \A j \in config : Running(j) /\ smat[j] \notin {"formed", "started"} => i \in proposed[j]

StartInv ==
  /\ JoinTypes /\ NothingYet /\ HearsStarted /\ CopiesHeard /\ ShowsStarting /\ InItsOwn
  /\ HeardNothingYet /\ WaitsForAll /\ AllPropose

-----------------------------------------------------------------------------
(* A host of the liveset stays up. *)
OneStays(s) == s.live \ (s.boots \cup s.dies) # {}

(* Everybody counts this host in, and finds a liveset because of it. *)
Anchor(l) ==
  /\ smat[l] = "started" /\ l \notin dying
  /\ l \in sfdom /\ ~ disk[l].starting /\ ~ starting[l] /\ l \in current[l]
  /\ \A i \in Host :
       /\ current[i] # {} \/ smat[i] \in {"join", "asking"} => l \in current[i]
       /\ disk[i].current # {} => l \in disk[i].current
       /\ smat[i] \in {"decide", "loop"} => copies[i].exists /\ l \in copies[i].nonstarting
       /\ smat[i] \notin {"booting", "booted"}

Anchored == \E l \in Host : Anchor(l)

(* Before a host asks to be in, nobody proposes it but those that still    *)
(* count it in from before it started, and who heard a proposal of the     *)
(* other heard that too.                                                   *)
NotAsked == Early \cup {"join"}

NotYetProposed ==
  \A j \in Host : smat[j] \in NotAsked \cup {"never"} =>
    /\ j \notin proposed[j]
    /\ \A i \in Host \ {j} :
         /\ Running(i) /\ j \in proposed[i] => j \in current[i]
         /\ j \in hbraw[i][j].proposed => j \in hbraw[i][j].current
         /\ j \in hbraw[j][i].proposed => j \in hbraw[j][i].current

(* Hosts that do not hear each other stay unheard of. *)
Unheard ==
  \A i, j \in Host :
    smat[j] \in Coming /\ i # j /\ ~ Linked(j, i) => hbraw[j][i].proposed = {}

(* From then on, what it hears of the others stands. *)
Stands ==
  \A i, j \in Host :
    smat[j] \in {"copy", "decide", "loop", "join", "asking"} /\ i # j /\ Running(i)
      /\ j \in hbraw[j][i].proposed => j \in proposed[i]

StaysInv == StartInv /\ Anchored /\ NotYetProposed /\ Unheard /\ Stands

-----------------------------------------------------------------------------
(* Types *)

LEMMA FirstOf ==
  ASSUME NEW S, S \subseteq Host, S # {}
  PROVE  Min(S) \in S
<1>1. IsWellFoundedOn(OpToRel(<, Nat), Nat)
  BY NatLessThanWellFounded, Zenon
<1>2. S \subseteq Nat
  BY JoinAssumption
<1>3. PICK n \in S : \A m \in S : ~ (<<m, n>> \in OpToRel(<, Nat))
  BY <1>1, <1>2, WFMin, Zenon
<1>4. \A m \in S : ~ (m < n)
  BY <1>2, <1>3, Zenon DEF OpToRel
<1>5. \E m \in S : \A k \in S : m <= k
  BY <1>2, <1>4
<1> QED
  BY <1>5 DEF Min

LEMMA SaidTypes ==
  ASSUME JoinTypes, NEW i \in Host
  PROVE  Packet(i) \in Packets /\ Section(i) \in Sections
BY DEF JoinTypes, JoinTypeOK, Packet, Section, Packets, Sections

LEMMA NoCopiesType == NoCopies \in Copies
BY DEF NoCopies, Copies

LEMMA CopiedType ==
  ASSUME JoinTypes, NEW i \in Host
  PROVE  /\ Copied(i) \in Copies
         /\ Copied(i).hb = hbdom[i] /\ Copied(i).sf = sfdom
         /\ Copied(i).nonstarting = {j \in sfdom : ~ disk[j].starting}
         /\ Copied(i).joining = {j \in hbdom[i] : j = i \/ hbraw[i][j].joining}
         /\ Copied(i).exists <=> Copied(i).nonstarting # {}
         /\ Copied(i).pool = copies[i].pool
<1> USE DEF JoinTypes, JoinTypeOK, Copied, Copies
<1>1. copies[i] \in Copies /\ hbdom[i] \subseteq Host /\ sfdom \subseteq Host /\ excluded \subseteq Host
  OBVIOUS
<1>2. DOMAIN copies[i] = {"exists", "hb", "sf", "nonstarting", "joining", "excludedmap", "pool", "excluded"}
  BY <1>1
<1>3. (\E j \in sfdom : ~ disk[j].starting) \in BOOLEAN
  BY Zenon
<1>4. /\ {j \in sfdom : ~ disk[j].starting} \in SUBSET Host
      /\ {j \in hbdom[i] : IF j = i THEN TRUE ELSE hbraw[i][j].joining} \in SUBSET Host
  BY <1>1
<1>5. Copied(i) \in Copies
  BY <1>1, <1>3, <1>4
<1> QED
  BY <1>1, <1>2, <1>5

LEMMA InitTypes ==
  ASSUME NEW s \in Scenario, StartsFrom(s)
  PROVE  JoinTypes
<1>1. /\ s.config \subseteq Host /\ s.boots \subseteq s.config /\ s.live \subseteq s.config
      /\ s.excluded \subseteq Host /\ s.dies \subseteq Host /\ s.pool \in {"INIT", "ACTIVE"}
  BY JoinAssumption
<1>2. smat \in [Host -> Place] /\ \A i \in Host : smat[i] # "never" => i \in config
  BY <1>1 DEF StartsFrom, Place, Coming, Blank, Early
<1>3. /\ current \in [Host -> SUBSET Host] /\ proposed \in [Host -> SUBSET Host]
      /\ hbdom \in [Host -> SUBSET Host]
  BY <1>1 DEF StartsFrom
<1>4. copies \in [Host -> Copies]
  BY NoCopiesType DEF StartsFrom
<1>5. hbraw \in [Host -> [Host -> Packets]] /\ disk \in [Host -> Sections]
  BY <1>1 DEF StartsFrom, Packets, Sections
<1>6. /\ ctl_join \in [Host -> BOOLEAN] /\ starting \in [Host -> BOOLEAN] /\ due = {}
      /\ config \subseteq Host /\ dying \subseteq Host /\ excluded \subseteq Host /\ sfdom \subseteq Host
      /\ pool \in {"INIT", "ACTIVE"}
  BY <1>1 DEF StartsFrom
<1> QED
  BY <1>2, <1>3, <1>4, <1>5, <1>6 DEF JoinTypes, JoinTypeOK, Place, Coming, Blank, Early

DuePlace == {"down", "copy", "decide", "loop", "booting", "asking"}
Places == smat \in [Host -> Place] /\ due \subseteq {i \in Host : smat[i] \in DuePlace}

LEMMA GoPlaces ==
  ASSUME Places, NEW i \in Host, NEW where \in Place, GoTo(i, where)
  PROVE  Places'
BY DEF Places, GoTo, DuePlace, Place, Coming, Blank, Early

LEMMA AbortPlaces ==
  ASSUME Places, NEW i \in Host, sm_abort(i)
  PROVE  Places'
BY DEF Places, sm_abort, DuePlace, Place, Coming, Blank, Early

LEMMA TypesSplit ==
  JoinTypes <=>
    /\ Places
    /\ pool \in {"INIT", "ACTIVE"} /\ excluded \subseteq Host /\ sfdom \subseteq Host
    /\ current \in [Host -> SUBSET Host] /\ proposed \in [Host -> SUBSET Host]
    /\ ctl_join \in [Host -> BOOLEAN] /\ starting \in [Host -> BOOLEAN]
    /\ hbdom \in [Host -> SUBSET Host]
    /\ config \subseteq Host /\ dying \subseteq Host
    /\ copies \in [Host -> Copies]
    /\ hbraw \in [Host -> [Host -> Packets]]
    /\ disk \in [Host -> Sections]
    /\ \A i \in Host : smat[i] # "never" => i \in config
BY DEF JoinTypes, JoinTypeOK, Places, DuePlace, Place, Coming, Blank, Early

LEMMA TypesNext ==
  /\ Places'
  /\ pool' \in {"INIT", "ACTIVE"} /\ excluded' \subseteq Host /\ sfdom' \subseteq Host
  /\ current' \in [Host -> SUBSET Host] /\ proposed' \in [Host -> SUBSET Host]
  /\ ctl_join' \in [Host -> BOOLEAN] /\ starting' \in [Host -> BOOLEAN]
  /\ hbdom' \in [Host -> SUBSET Host]
  /\ config' \subseteq Host /\ dying' \subseteq Host
  /\ copies' \in [Host -> Copies]
  /\ hbraw' \in [Host -> [Host -> Packets]]
  /\ disk' \in [Host -> Sections]
  /\ (\A i \in Host : smat'[i] # "never" => i \in config')
  => JoinTypes'
BY DEF JoinTypes, JoinTypeOK, Places, DuePlace, Place, Coming, Blank, Early

(* Who has not been there from the start stays out of it. *)
LEMMA GoConfigured ==
  ASSUME JoinTypes, NEW i \in Host, NEW where \in Place,
         smat' = [smat EXCEPT ![i] = where], smat[i] # "never", config' = config
  PROVE  \A j \in Host : smat'[j] # "never" => j \in config'
BY TypesSplit DEF Places

LEMMA FormTypes ==
  ASSUME JoinTypes, NEW i \in Host, smat[i] # "never", NEW S \in SUBSET Host,
         form_new_liveset(i, S), config' = config
  PROVE  /\ current' \in [Host -> SUBSET Host] /\ proposed' \in [Host -> SUBSET Host]
         /\ ctl_join' \in [Host -> BOOLEAN] /\ starting' \in [Host -> BOOLEAN]
         /\ Places' /\ \A j \in Host : smat'[j] # "never" => j \in config'
<1>1. "formed" \in Place
  BY DEF Place, Coming
<1>2. GoTo(i, "formed")
  BY DEF form_new_liveset
<1>3. Places' /\ \A j \in Host : smat'[j] # "never" => j \in config'
  BY <1>1, <1>2, GoPlaces, GoConfigured, TypesSplit DEF GoTo
<1> QED
  BY <1>3, TypesSplit DEF form_new_liveset

LEMMA NewIs ==
  ASSUME JoinTypes, NEW i \in Host, NEW S \in SUBSET Host, am_I_in_new_liveset(i, S)
  PROVE  /\ Min(S) \in S /\ disk[Min(S)].current \subseteq Host
         /\ i \in disk[Min(S)].current
BY FirstOf, TypesSplit DEF am_I_in_new_liveset, Sections

LEMMA TypeStep ==
  ASSUME JoinTypes, [JoinNext]_joinvars
  PROVE  JoinTypes'
<1> USE DEF scene, media, smvars
<1>p. \A p \in {"off", "down", "copy", "decide", "loop", "booting", "booted", "join", "asking",
                "formed", "started", "aborted"} : p \in Place
  BY DEF Place, Coming, Blank, Early
<1>1. ASSUME NEW i \in Host, start(i) PROVE JoinTypes'
  <2>1. Places' /\ \A j \in Host : smat'[j] # "never" => j \in config'
    BY <1>1, <1>p, GoPlaces, GoConfigured, TypesSplit DEF start, GoTo
  <2> QED
    BY <1>1, <2>1, TypesSplit, TypesNext DEF start
<1>2. ASSUME NEW i \in Host, wait_all_hosts_recognize_I_was_down(i) PROVE JoinTypes'
  <2>1. Places' /\ \A j \in Host : smat'[j] # "never" => j \in config'
    BY <1>2, <1>p, GoPlaces, GoConfigured, TypesSplit DEF wait_all_hosts_recognize_I_was_down, GoTo
  <2>2. (i \in excluded) \in BOOLEAN
    OBVIOUS
  <2>3. [NoCopies EXCEPT !.pool = pool, !.excluded = i \in excluded] \in Copies
    BY <2>2, NoCopiesType, TypesSplit DEF Copies
  <2>4. copies' \in [Host -> Copies]
    BY <1>2, <2>3, TypesSplit DEF wait_all_hosts_recognize_I_was_down
  <2>5. ctl_join' \in [Host -> BOOLEAN]
    BY <1>2, TypesSplit DEF wait_all_hosts_recognize_I_was_down
  <2> QED
    BY <1>2, <2>1, <2>4, <2>5, TypesSplit, TypesNext DEF wait_all_hosts_recognize_I_was_down
<1>3. ASSUME NEW i \in Host, sm_abort(i), smat[i] # "never",
             UNCHANGED <<config, parts, pool, excluded, smvars, copies, media>>,
             dying' \subseteq Host
      PROVE  JoinTypes'
  <2>1. Places' /\ \A j \in Host : smat'[j] # "never" => j \in config'
    BY <1>3, <1>p, AbortPlaces, GoConfigured, TypesSplit DEF sm_abort
  <2> QED
    BY <1>3, <2>1, TypesSplit, TypesNext
<1>4. ASSUME NEW i \in Host, criteria_copy(i) PROVE JoinTypes'
  <2>1. Places' /\ \A j \in Host : smat'[j] # "never" => j \in config'
    BY <1>4, <1>p, GoPlaces, GoConfigured, TypesSplit DEF criteria_copy, GoTo
  <2>2. copies' \in [Host -> Copies]
    BY <1>4, CopiedType, TypesSplit DEF criteria_copy
  <2> QED
    BY <1>4, <2>1, <2>2, TypesSplit, TypesNext DEF criteria_copy
<1>5. ASSUME NEW i \in Host, criteria_all_up(i) PROVE JoinTypes'
  <2>1. Places' /\ \A j \in Host : smat'[j] # "never" => j \in config'
    BY <1>5, <1>p, GoPlaces, GoConfigured, TypesSplit DEF criteria_all_up, GoTo
  <2>2. proposed' \in [Host -> SUBSET Host]
    BY <1>5, TypesSplit DEF criteria_all_up, Copies
  <2> QED
    BY <1>5, <2>1, <2>2, TypesSplit, TypesNext DEF criteria_all_up
<1>6. ASSUME NEW i \in Host, wait_until_all_hosts_booted(i) PROVE JoinTypes'
  <2>1. Places' /\ \A j \in Host : smat'[j] # "never" => j \in config'
    BY <1>6, <1>p, GoPlaces, GoConfigured, TypesSplit DEF wait_until_all_hosts_booted, GoTo
  <2> QED
    BY <1>6, <2>1, TypesSplit, TypesNext DEF wait_until_all_hosts_booted
<1>7. ASSUME NEW i \in Host, criteria_loop(i) PROVE JoinTypes'
  <2>1. Places' /\ \A j \in Host : smat'[j] # "never" => j \in config'
    BY <1>7, <1>p, GoPlaces, GoConfigured, TypesSplit DEF criteria_loop, GoTo
  <2> QED
    BY <1>7, <2>1, TypesSplit, TypesNext DEF criteria_loop
<1>8. ASSUME NEW i \in Host, criteria_booted(i) PROVE JoinTypes'
  <2>1. /\ current' \in [Host -> SUBSET Host] /\ proposed' \in [Host -> SUBSET Host]
        /\ ctl_join' \in [Host -> BOOLEAN] /\ starting' \in [Host -> BOOLEAN]
        /\ Places' /\ \A j \in Host : smat'[j] # "never" => j \in config'
    BY <1>8, FormTypes, TypesSplit DEF criteria_booted
  <2> QED
    BY <1>8, <2>1, TypesSplit, TypesNext DEF criteria_booted
<1>9. ASSUME NEW i \in Host, NEW S \in SUBSET Host, smat[i] # "never", form_new_liveset(i, S),
             UNCHANGED <<scene, copies, media>>
      PROVE  JoinTypes'
  <2>1. /\ current' \in [Host -> SUBSET Host] /\ proposed' \in [Host -> SUBSET Host]
        /\ ctl_join' \in [Host -> BOOLEAN] /\ starting' \in [Host -> BOOLEAN]
        /\ Places' /\ \A j \in Host : smat'[j] # "never" => j \in config'
    BY <1>9, FormTypes
  <2> QED
    BY <1>9, <2>1, TypesSplit, TypesNext
<1>10. ASSUME NEW i \in Host, criteria_in_new(i) \/ timeout_exists(i) PROVE JoinTypes'
  <2>1. smat[i] # "never" /\ copies[i].nonstarting \in SUBSET Host /\ dying \subseteq Host
    BY <1>10, TypesSplit DEF criteria_in_new, timeout_exists, WaitedInVain, Copies
  <2>2. CASE am_I_in_new_liveset(i, copies[i].nonstarting)
    BY <1>10, <2>1, <2>2, <1>9, NewIs DEF criteria_in_new, timeout_exists
  <2>3. CASE ~ am_I_in_new_liveset(i, copies[i].nonstarting)
    BY <1>10, <2>1, <2>3, <1>3 DEF criteria_in_new, timeout_exists
  <2> QED
    BY <2>2, <2>3
<1>11. ASSUME NEW i \in Host, timeout_form(i) PROVE JoinTypes'
  <2>1. smat[i] # "never" /\ (copies[i].hb \cap copies[i].joining) \in SUBSET Host
    BY <1>11, TypesSplit DEF timeout_form, WaitedInVain, Copies
  <2> QED
    BY <1>11, <2>1, <1>9 DEF timeout_form
<1>12. ASSUME NEW i \in Host, criteria_join(i) PROVE JoinTypes'
  <2>1. Places' /\ \A j \in Host : smat'[j] # "never" => j \in config'
    BY <1>12, <1>p, GoPlaces, GoConfigured, TypesSplit DEF criteria_join, GoTo
  <2>2. proposed' \in [Host -> SUBSET Host] /\ current' \in [Host -> SUBSET Host]
    BY <1>12, TypesSplit DEF criteria_join, Copies
  <2> QED
    BY <1>12, <2>1, <2>2, TypesSplit, TypesNext DEF criteria_join
<1>13. ASSUME NEW i \in Host, join(i) PROVE JoinTypes'
  <2>1. Places' /\ \A j \in Host : smat'[j] # "never" => j \in config'
    BY <1>13, <1>p, GoPlaces, GoConfigured, TypesSplit DEF join, GoTo
  <2> QED
    BY <1>13, <2>1, TypesSplit, TypesNext DEF join, ClearExcluded
<1>14. ASSUME NEW i \in Host, join_success(i) PROVE JoinTypes'
  <2>1. Places' /\ \A j \in Host : smat'[j] # "never" => j \in config'
    BY <1>14, <1>p, GoPlaces, GoConfigured, TypesSplit DEF join_success, GoTo
  <2> QED
    BY <1>14, <2>1, TypesSplit, TypesNext DEF join_success
<1>15. ASSUME NEW i \in Host, join_timeout(i) PROVE JoinTypes'
  <2>1. Places' /\ \A j \in Host : smat'[j] # "never" => j \in config'
    BY <1>15, <1>p, AbortPlaces, GoConfigured, TypesSplit DEF join_timeout, sm_abort
  <2> QED
    BY <1>15, <2>1, TypesSplit, TypesNext DEF join_timeout
<1>16. ASSUME NEW i \in Host, started(i) PROVE JoinTypes'
  <2>1. Places' /\ \A j \in Host : smat'[j] # "never" => j \in config'
    BY <1>16, <1>p, GoPlaces, GoConfigured, TypesSplit DEF started, GoTo
  <2> QED
    BY <1>16, <2>1, TypesSplit, TypesNext DEF started, ClearExcluded
<1>17. ASSUME NEW i \in Host, process_join_request(i) PROVE JoinTypes'
  <2>1. Accepted(i) \subseteq Host /\ Allowed(i) \subseteq Host
    BY DEF Accepted, Allowed
  <2>2. proposed' \in [Host -> SUBSET Host] /\ current' \in [Host -> SUBSET Host]
    BY <1>17, <2>1, TypesSplit DEF process_join_request
  <2> QED
    BY <1>17, <2>2, TypesSplit, TypesNext DEF process_join_request, Places
<1>18. ASSUME NEW i \in Host, NEW j \in Host, receive_hb(i, j) PROVE JoinTypes'
  <2>1. hbraw' \in [Host -> [Host -> Packets]] /\ hbdom' \in [Host -> SUBSET Host]
    BY <1>18, SaidTypes, TypesSplit DEF receive_hb
  <2> QED
    BY <1>18, <2>1, TypesSplit, TypesNext DEF receive_hb, Places
<1>19. ASSUME NEW i \in Host, NEW j \in Host, silent_hb(i, j) PROVE JoinTypes'
  BY <1>19, TypesSplit, TypesNext DEF silent_hb, Places
<1>20. ASSUME NEW i \in Host, write_hostspecific(i) PROVE JoinTypes'
  <2>1. disk' \in [Host -> Sections] /\ sfdom' \subseteq Host
    BY <1>20, SaidTypes, TypesSplit DEF write_hostspecific
  <2> QED
    BY <1>20, <2>1, TypesSplit, TypesNext DEF write_hostspecific, Places
<1>21. ASSUME NEW i \in Host, silent_sf(i) PROVE JoinTypes'
  BY <1>21, TypesSplit, TypesNext DEF silent_sf, Places
<1>22. ASSUME NEW k \in Host, fault_handler(k) PROVE JoinTypes'
  <2>1. proposed' \in [Host -> SUBSET Host] /\ current' \in [Host -> SUBSET Host]
    BY <1>22, TypesSplit DEF fault_handler
  <2> QED
    BY <1>22, <2>1, TypesSplit, TypesNext DEF fault_handler, Places
<1>23. ASSUME TimePasses PROVE JoinTypes'
  <2>1. Places'
    BY <1>23, TypesSplit DEF TimePasses, Waiting, Places, DuePlace
  <2> QED
    BY <1>23, <2>1, TypesSplit, TypesNext DEF TimePasses
<1>24. ASSUME NEW i \in Host, recognize_timeout(i) \/ criteria_invalid(i) \/ timeout_abort(i) \/ dies(i)
       PROVE  JoinTypes'
  <2>1. /\ sm_abort(i) /\ smat[i] # "never" /\ dying' \subseteq Host
        /\ UNCHANGED <<config, parts, pool, excluded, smvars, copies, media>>
    BY <1>24, TypesSplit DEF recognize_timeout, criteria_invalid, timeout_abort, dies, WaitedInVain
  <2> QED
    BY <2>1, <1>3
<1>25. ASSUME UNCHANGED joinvars PROVE JoinTypes'
  BY <1>25, TypesSplit, TypesNext DEF joinvars, Places
<1> HIDE DEF scene, media, smvars
<1> QED
  BY <1>1, <1>2, <1>4, <1>5, <1>6, <1>7, <1>8, <1>10, <1>11, <1>12, <1>13, <1>14, <1>15, <1>16, <1>17,
     <1>18, <1>19, <1>20, <1>21, <1>22, <1>23, <1>24, <1>25 DEF JoinNext, SmThread, MediaStep

-----------------------------------------------------------------------------
(* The steps, as far as they matter below: who looks and waits, ...        *)
Waits(i) ==
  /\ \/ /\ smat[i] = "off" /\ smat' = [smat EXCEPT ![i] = "down"]
        /\ starting' = [starting EXCEPT ![i] = TRUE] /\ UNCHANGED copies
     \/ /\ smat[i] = "down" /\ smat' = [smat EXCEPT ![i] = "copy"]
        /\ HasListened(i) /\ recognized_down(i)
        /\ \E c \in Copies : c.pool = pool /\ copies' = [copies EXCEPT ![i] = c]
        /\ UNCHANGED starting
     \/ /\ smat[i] \in {"copy", "loop"} /\ smat' = [smat EXCEPT ![i] = "decide"]
        /\ copies' = [copies EXCEPT ![i] = Copied(i)] /\ UNCHANGED starting
     \/ /\ smat[i] = "decide" /\ smat' = [smat EXCEPT ![i] = "loop"]
        /\ copies[i].exists => copies[i].pool = "ACTIVE"
        /\ UNCHANGED <<copies, starting>>
     \/ /\ smat[i] = "booting" /\ smat' = [smat EXCEPT ![i] = "booted"]
        /\ \A j \in hbdom[i] \ {i} : i \in hbraw[i][j].proposed
        /\ UNCHANGED <<copies, starting>>
     \/ /\ smat[i] = "formed" /\ smat' = [smat EXCEPT ![i] = "started"]
        /\ starting' = [starting EXCEPT ![i] = FALSE] /\ UNCHANGED copies
  /\ UNCHANGED <<config, parts, pool, dying, current, proposed, media>>

(* ... who gives up, or crashes, ...                                       *)
GivesUp(i) ==
  /\ smat[i] \notin {"off", "never"} /\ smat' = [smat EXCEPT ![i] = "aborted"]
  /\ \/ UNCHANGED <<proposed, dying>>
     \/ smat[i] = "asking" /\ proposed' = [proposed EXCEPT ![i] = @ \ {i}] /\ UNCHANGED dying
     \/ smat[i] = "started" /\ i \in dying /\ dying' = dying \ {i} /\ UNCHANGED proposed
  /\ smat[i] = "started" => i \in dying
  /\ UNCHANGED <<config, parts, pool, current, starting, copies, media>>

(* ... who takes part in a liveset, ...                                    *)
Forms(i, S) ==
  /\ \/ smat[i] = "booted" /\ S = proposed[i]
     \/ /\ smat[i] \in {"decide", "loop", "booting"} /\ copies[i].exists
        /\ smat[i] = "decide" => copies[i].pool = "ACTIVE"
        /\ am_I_in_new_liveset(i, copies[i].nonstarting)
        /\ S = disk[Min(copies[i].nonstarting)].current
     \/ /\ smat[i] \in {"loop", "booting"} /\ ~ copies[i].exists /\ copies[i].pool = "ACTIVE"
        /\ S = copies[i].hb \cap copies[i].joining
  /\ smat' = [smat EXCEPT ![i] = "formed"]
  /\ current' = [current EXCEPT ![i] = S] /\ proposed' = [proposed EXCEPT ![i] = S]
  /\ smat[i] = "booted" \/ pool' = pool
  /\ UNCHANGED <<config, parts, dying, starting, copies, media>>

(* ... and who proposes one, or asks to be in.                             *)
Proposes(i) ==
  /\ \/ /\ smat[i] = "decide" /\ ~ copies[i].exists /\ copies[i].hb = config
        /\ smat' = [smat EXCEPT ![i] = "booting"]
        /\ proposed' = [proposed EXCEPT ![i] = config] /\ UNCHANGED current
     \/ /\ smat[i] = "decide" /\ copies[i].exists /\ copies[i].pool = "ACTIVE"
        /\ smat' = [smat EXCEPT ![i] = "join"]
        /\ proposed' = [proposed EXCEPT ![i] = copies[i].nonstarting]
        /\ current' = [current EXCEPT ![i] = copies[i].nonstarting]
     \/ /\ smat[i] = "join" /\ smat' = [smat EXCEPT ![i] = "asking"]
        /\ proposed' = [proposed EXCEPT ![i] = @ \cup {i}] /\ UNCHANGED current
     \/ /\ smat[i] = "asking" /\ joined(i) /\ smat' = [smat EXCEPT ![i] = "formed"]
        /\ current' = [current EXCEPT ![i] = @ \cup {i}] /\ UNCHANGED proposed
  /\ UNCHANGED <<config, parts, pool, dying, starting, copies, media>>

(* Their places do not change when others are let in or dropped, or the    *)
(* media go on.                                                            *)
Stay == UNCHANGED <<config, parts, pool, dying, smat, starting, copies>>

LetsIn(i) ==
  /\ Running(i) /\ current[i] # {}
  /\ proposed' = [proposed EXCEPT ![i] = @ \cup Accepted(i)]
  /\ current' = [current EXCEPT ![i] = @ \cup Allowed(i) \cup {j \in Host : IsIn(i, j)}]
  /\ Stay /\ UNCHANGED media

Drops(k) ==
  /\ smat[k] \in {"off", "never", "down", "aborted"}
  /\ \A i \in Host : Member(i) /\ k \in current[i] => i \in Forgotten(k)
  /\ current' = [i \in Host |-> IF i \in Forgotten(k) THEN current[i] \ {k} ELSE current[i]]
  /\ proposed' = [i \in Host |-> IF i \in Forgotten(k) THEN proposed[i] \ {k} ELSE proposed[i]]
  /\ Stay /\ UNCHANGED media

Hears(i, j) ==
  /\ i # j /\ Running(i) /\ Running(j) /\ Linked(i, j) /\ ~ ignored(i, j)
  /\ hbraw' = [hbraw EXCEPT ![i][j] = Packet(j)]
  /\ hbdom' = [hbdom EXCEPT ![i] = @ \cup {j}]
  /\ Stay /\ UNCHANGED <<current, proposed, disk, sfdom>>

Misses(i, j) ==
  /\ Running(i) /\ j \in hbdom[i] \ {i} /\ (~ Running(j) \/ ignored(i, j))
  /\ hbdom' = [hbdom EXCEPT ![i] = @ \ {j}]
  /\ Stay /\ UNCHANGED <<current, proposed, hbraw, disk, sfdom>>

Writes(i) ==
  /\ Running(i)
  /\ disk' = [disk EXCEPT ![i] = Section(i)] /\ sfdom' = sfdom \cup {i}
  /\ Stay /\ UNCHANGED <<current, proposed, hbdom, hbraw>>

Expires(i) ==
  /\ i \in sfdom /\ ~ Running(i) /\ sfdom' = sfdom \ {i}
  /\ Stay /\ UNCHANGED <<current, proposed, hbdom, hbraw, disk>>

Idles == Stay /\ UNCHANGED <<current, proposed, media>>

Step ==
  \/ \E i \in Host : Waits(i) \/ GivesUp(i) \/ Proposes(i) \/ (\E S \in SUBSET Host : Forms(i, S))
  \/ \E i \in Host : LetsIn(i) \/ Drops(i) \/ Writes(i) \/ Expires(i)
  \/ \E i, j \in Host : Hears(i, j) \/ Misses(i, j)
  \/ Idles

LEMMA StepIs ==
  ASSUME JoinTypes, [JoinNext]_joinvars
  PROVE  Step
<1> USE DEF scene, media, smvars, Stay
<1>1. ASSUME NEW i \in Host,
             start(i) \/ wait_all_hosts_recognize_I_was_down(i) \/ criteria_copy(i) \/ criteria_loop(i)
               \/ wait_until_all_hosts_booted(i) \/ started(i)
      PROVE  Waits(i)
  <2>1. CASE start(i)
    BY <2>1 DEF start, GoTo, Waits
  <2>2. CASE wait_all_hosts_recognize_I_was_down(i)
    <3>1. (i \in excluded) \in BOOLEAN
      OBVIOUS
    <3> DEFINE c == [NoCopies EXCEPT !.pool = pool, !.excluded = i \in excluded]
    <3>2. c \in Copies /\ c.pool = pool
      BY <3>1, NoCopiesType, TypesSplit DEF Copies
    <3>3. copies' = [copies EXCEPT ![i] = c]
      BY <2>2 DEF wait_all_hosts_recognize_I_was_down
    <3> HIDE DEF c
    <3> QED
      BY <2>2, <3>2, <3>3 DEF wait_all_hosts_recognize_I_was_down, GoTo, Waits
  <2>3. CASE criteria_copy(i)
    BY <2>3 DEF criteria_copy, GoTo, Waits
  <2>4. CASE criteria_loop(i)
    BY <2>4 DEF criteria_loop, GoTo, Waits
  <2>5. CASE wait_until_all_hosts_booted(i)
    BY <2>5 DEF wait_until_all_hosts_booted, GoTo, Waits
  <2>6. CASE started(i)
    BY <2>6 DEF started, GoTo, Waits
  <2> QED
    BY <1>1, <2>1, <2>2, <2>3, <2>4, <2>5, <2>6
<1>2. ASSUME NEW i \in Host,
             recognize_timeout(i) \/ criteria_invalid(i) \/ timeout_abort(i) \/ dies(i) \/ join_timeout(i)
      PROVE  GivesUp(i)
  <2>1. CASE recognize_timeout(i) \/ criteria_invalid(i) \/ timeout_abort(i)
    BY <2>1 DEF recognize_timeout, criteria_invalid, timeout_abort, WaitedInVain, sm_abort, GivesUp
  <2>2. CASE dies(i)
    BY <2>2 DEF dies, sm_abort, GivesUp
  <2>3. CASE join_timeout(i)
    BY <2>3 DEF join_timeout, sm_abort, GivesUp
  <2> QED
    BY <1>2, <2>1, <2>2, <2>3
<1>3. ASSUME NEW i \in Host, criteria_booted(i) PROVE \E S \in SUBSET Host : Forms(i, S)
  <2>1. Forms(i, proposed[i])
    BY <1>3 DEF criteria_booted, form_new_liveset, GoTo, Forms
  <2> QED
    BY <2>1, TypesSplit
<1>4. ASSUME NEW i \in Host, criteria_in_new(i) PROVE \E S \in SUBSET Host : Forms(i, S)
  <2>1. Forms(i, disk[Min(copies[i].nonstarting)].current)
    BY <1>4 DEF criteria_in_new, form_new_liveset, GoTo, Forms
  <2>2. copies[i].nonstarting \in SUBSET Host
    BY TypesSplit DEF Copies
  <2> QED
    BY <1>4, <2>1, <2>2, NewIs DEF criteria_in_new
<1>5. ASSUME NEW i \in Host, timeout_exists(i) PROVE GivesUp(i) \/ \E S \in SUBSET Host : Forms(i, S)
  <2>1. CASE am_I_in_new_liveset(i, copies[i].nonstarting)
    <3>1. Forms(i, disk[Min(copies[i].nonstarting)].current)
      BY <1>5, <2>1 DEF timeout_exists, WaitedInVain, form_new_liveset, GoTo, Forms
    <3>2. copies[i].nonstarting \in SUBSET Host
      BY TypesSplit DEF Copies
    <3> QED
      BY <2>1, <3>1, <3>2, NewIs
  <2>2. CASE ~ am_I_in_new_liveset(i, copies[i].nonstarting)
    BY <1>5, <2>2 DEF timeout_exists, WaitedInVain, sm_abort, GivesUp
  <2> QED
    BY <2>1, <2>2
<1>6. ASSUME NEW i \in Host, timeout_form(i) PROVE \E S \in SUBSET Host : Forms(i, S)
  <2>1. Forms(i, copies[i].hb \cap copies[i].joining)
    BY <1>6 DEF timeout_form, WaitedInVain, form_new_liveset, GoTo, Forms
  <2>2. (copies[i].hb \cap copies[i].joining) \in SUBSET Host
    BY TypesSplit DEF Copies
  <2> QED
    BY <2>1, <2>2
<1>7. ASSUME NEW i \in Host, criteria_all_up(i) \/ criteria_join(i) \/ join(i) \/ join_success(i)
      PROVE  Proposes(i)
  BY <1>7 DEF criteria_all_up, criteria_join, join, join_success, GoTo, Proposes
<1>8. ASSUME NEW i \in Host, process_join_request(i) PROVE LetsIn(i)
  BY <1>8 DEF process_join_request, LetsIn
<1>9. ASSUME NEW k \in Host, fault_handler(k) PROVE Drops(k)
  BY <1>9 DEF fault_handler, Drops
<1>10. ASSUME NEW i \in Host, NEW j \in Host, receive_hb(i, j) \/ silent_hb(i, j)
       PROVE  Hears(i, j) \/ Misses(i, j)
  BY <1>10 DEF receive_hb, silent_hb, Hears, Misses
<1>11. ASSUME NEW i \in Host, write_hostspecific(i) \/ silent_sf(i) PROVE Writes(i) \/ Expires(i)
  BY <1>11 DEF write_hostspecific, silent_sf, Writes, Expires
<1>12. ASSUME TimePasses \/ UNCHANGED joinvars PROVE Idles
  BY <1>12 DEF TimePasses, joinvars, Idles
<1> HIDE DEF scene, media, smvars, Stay
<1> QED
  BY <1>1, <1>2, <1>3, <1>4, <1>5, <1>6, <1>7, <1>8, <1>9, <1>10, <1>11, <1>12
     DEF JoinNext, SmThread, MediaStep, Step

-----------------------------------------------------------------------------
(* How hosts start *)

LEMMA Values ==
  ASSUME JoinTypes
  PROVE  /\ smat \in [Host -> Place] /\ config \subseteq Host
         /\ current \in [Host -> SUBSET Host] /\ proposed \in [Host -> SUBSET Host]
         /\ starting \in [Host -> BOOLEAN] /\ hbdom \in [Host -> SUBSET Host] /\ sfdom \subseteq Host
         /\ copies \in [Host -> Copies] /\ hbraw \in [Host -> [Host -> Packets]]
         /\ disk \in [Host -> Sections]
         /\ \A i \in Host : smat[i] # "never" => i \in config
BY TypesSplit DEF Places

LEMMA NothingYetStep ==
  ASSUME JoinTypes, NothingYet, Step
  PROVE  NothingYet'
<1> USE Values DEF NothingYet, Blank, Early
<1>1. ASSUME NEW i \in Host, Waits(i) PROVE NothingYet'
  BY <1>1 DEF Waits
<1>2. ASSUME NEW i \in Host, GivesUp(i) PROVE NothingYet'
  BY <1>2 DEF GivesUp
<1>3. ASSUME NEW i \in Host, NEW S \in SUBSET Host, Forms(i, S) PROVE NothingYet'
  BY <1>3 DEF Forms
<1>4. ASSUME NEW i \in Host, Proposes(i) PROVE NothingYet'
  BY <1>4 DEF Proposes
<1>5. ASSUME NEW i \in Host, LetsIn(i) PROVE NothingYet'
  BY <1>5 DEF LetsIn, Stay
<1>6. ASSUME NEW k \in Host, Drops(k) PROVE NothingYet'
  BY <1>6 DEF Drops, Stay, Forgotten, Member
<1>7. ASSUME Stay, UNCHANGED <<current, proposed>> PROVE NothingYet'
  BY <1>7 DEF Stay
<1> QED
  BY <1>1, <1>2, <1>3, <1>4, <1>5, <1>6, <1>7 DEF Step, Hears, Misses, Writes, Expires, Idles

LEMMA HearsStartedStep ==
  ASSUME JoinTypes, HearsStarted, Step
  PROVE  HearsStarted'
<1> USE Values DEF HearsStarted, Running, Blank, Early
<1>1. ASSUME NEW i \in Host, Waits(i) PROVE HearsStarted'
  BY <1>1 DEF Waits, media
<1>2. ASSUME NEW i \in Host, GivesUp(i) PROVE HearsStarted'
  BY <1>2 DEF GivesUp, media
<1>3. ASSUME NEW i \in Host, NEW S \in SUBSET Host, Forms(i, S) PROVE HearsStarted'
  BY <1>3 DEF Forms, media
<1>4. ASSUME NEW i \in Host, Proposes(i) PROVE HearsStarted'
  BY <1>4 DEF Proposes, media
<1>5. ASSUME NEW i \in Host, NEW j \in Host, Hears(i, j) PROVE HearsStarted'
  BY <1>5 DEF Hears, Stay
<1>6. ASSUME NEW i \in Host, NEW j \in Host, Misses(i, j) PROVE HearsStarted'
  BY <1>6 DEF Misses, Stay
<1>7. ASSUME Stay, UNCHANGED hbdom PROVE HearsStarted'
  BY <1>7 DEF Stay
<1> QED
  BY <1>1, <1>2, <1>3, <1>4, <1>5, <1>6, <1>7 DEF Step, LetsIn, Drops, Writes, Expires, Idles, media

LEMMA CopiesHeardStep ==
  ASSUME JoinTypes, NothingYet, HearsStarted, CopiesHeard, Step
  PROVE  CopiesHeard'
<1> USE Values DEF CopiesHeard, Running
<1>1. ASSUME NEW i \in Host, Waits(i) PROVE CopiesHeard'
  <2>1. /\ Copied(i).hb = hbdom[i] /\ i \in Copied(i).joining
        /\ smat[i] \in {"copy", "loop"} => \A j \in hbdom[i] \ {i} : smat[j] \notin {"off", "never"}
    BY CopiedType DEF HearsStarted, Blank, Early
  <2>2. ASSUME smat[i] \in {"copy", "loop"}, smat' = [smat EXCEPT ![i] = "decide"],
               copies' = [copies EXCEPT ![i] = Copied(i)]
        PROVE  CopiesHeard'
    <3>1. hbdom' = hbdom
      BY <1>1 DEF Waits, media
    <3>2. copies'[i].hb = hbdom[i] /\ copies'[i].joining = Copied(i).joining
      BY <2>1, <2>2
    <3>3. \A a \in Host \ {i} : copies'[a] = copies[a] /\ smat'[a] = smat[a]
      BY <2>2
    <3>4. smat'[i] = "decide" /\ i \in hbdom[i] /\ smat[i] \notin {"off", "never", "aborted"}
      BY <2>2 DEF HearsStarted
    <3>5. ASSUME NEW a \in Host PROVE CopiesHeard!(a)'
      <4>1. CASE a = i
        <5>1. \A j \in copies'[a].hb \ {a} : smat'[j] \notin {"off", "never"} /\ j \in hbdom'[a]
          BY <4>1, <2>1, <2>2, <3>1, <3>2, <3>3
        <5>2. a \in copies'[a].hb \cap copies'[a].joining
          BY <4>1, <2>1, <3>2, <3>4
        <5> QED
          BY <5>1, <5>2
      <4>2. CASE a # i
        <5>1. copies'[a] = copies[a] /\ smat'[a] = smat[a] /\ hbdom'[a] = hbdom[a]
          BY <4>2, <3>1, <3>3
        <5>2. ASSUME NEW j \in Host, smat[j] \notin {"off", "never"} /\ (Running(j) => j \in hbdom[a])
              PROVE  smat'[j] \notin {"off", "never"} /\ (Running(j)' => j \in hbdom'[a])
          BY <5>1, <5>2, <3>3, <3>4
        <5>3. copies[a].hb \subseteq Host
          BY DEF Copies
        <5> QED
          BY <5>1, <5>2, <5>3
      <4> QED
        BY <4>1, <4>2
    <3> QED
      BY <3>5
  <2>3. CASE smat[i] \notin {"copy", "loop"}
    <3>1. PICK p \in {"down", "copy", "loop", "booted", "started"} : smat' = [smat EXCEPT ![i] = p]
      BY <1>1, <2>3 DEF Waits
    <3>2. /\ smat'[i] = "down" => smat[i] = "off"
          /\ smat'[i] # "down" => smat[i] \notin {"off", "never", "aborted"}
          /\ smat'[i] = "loop" => smat[i] = "decide"
          /\ smat'[i] = "booted" => smat[i] = "booting"
      BY <1>1, <2>3 DEF Waits
    <3>3. /\ hbdom' = hbdom /\ \A a \in Host \ {i} : copies'[a] = copies[a]
          /\ smat'[i] # "copy" => copies'[i] = copies[i]
      BY <1>1, <2>3 DEF Waits, media
    <3> QED
      BY <3>1, <3>2, <3>3
  <2> QED
    BY <1>1, <2>2, <2>3 DEF Waits
<1>2. ASSUME NEW i \in Host, GivesUp(i) PROVE CopiesHeard'
  BY <1>2 DEF GivesUp, media
<1>3. ASSUME NEW i \in Host, NEW S \in SUBSET Host, Forms(i, S) PROVE CopiesHeard'
  BY <1>3 DEF Forms, media
<1>4. ASSUME NEW i \in Host, Proposes(i) PROVE CopiesHeard'
  <2>1. PICK p \in {"booting", "join", "asking", "formed"} : smat' = [smat EXCEPT ![i] = p]
    BY <1>4 DEF Proposes
  <2>2. smat[i] \notin {"off", "never", "aborted"} /\ (smat'[i] = "booting" => smat[i] = "decide")
    BY <1>4 DEF Proposes
  <2>3. copies' = copies /\ hbdom' = hbdom
    BY <1>4 DEF Proposes, media
  <2> QED
    BY <2>1, <2>2, <2>3
<1>5. ASSUME NEW i \in Host, NEW j \in Host, Hears(i, j) PROVE CopiesHeard'
  BY <1>5 DEF Hears, Stay
<1>6. ASSUME NEW i \in Host, NEW j \in Host, Misses(i, j) PROVE CopiesHeard'
  <2>1. smat[i] \in Blank => ~ Running(j)
    BY <1>6 DEF Misses, ignored, NothingYet
  <2>2. {"decide", "booting", "booted"} \subseteq Blank
    BY DEF Blank, Early
  <2> QED
    BY <1>6, <2>1, <2>2 DEF Misses, Stay
<1>7. ASSUME Stay, UNCHANGED hbdom PROVE CopiesHeard'
  BY <1>7 DEF Stay
<1> QED
  BY <1>1, <1>2, <1>3, <1>4, <1>5, <1>6, <1>7 DEF Step, LetsIn, Drops, Writes, Expires, Idles, media

LEMMA ShowsStartingStep ==
  ASSUME JoinTypes, ShowsStarting, Step
  PROVE  ShowsStarting'
<1> USE Values DEF ShowsStarting, Coming, Blank, Early
<1>1. ASSUME NEW i \in Host, Waits(i) PROVE ShowsStarting'
  <2>1. Copied(i).nonstarting = {j \in sfdom : ~ disk[j].starting}
    BY CopiedType
  <2> QED
    BY <1>1, <2>1 DEF Waits, HasListened, media
<1>2. ASSUME NEW i \in Host, GivesUp(i) PROVE ShowsStarting'
  BY <1>2 DEF GivesUp, media
<1>3. ASSUME NEW i \in Host, NEW S \in SUBSET Host, Forms(i, S) PROVE ShowsStarting'
  BY <1>3 DEF Forms, media
<1>4. ASSUME NEW i \in Host, Proposes(i) PROVE ShowsStarting'
  BY <1>4 DEF Proposes, media
<1>5. ASSUME NEW i \in Host, Writes(i) PROVE ShowsStarting'
  BY <1>5 DEF Writes, Stay, Section
<1>6. ASSUME Stay, UNCHANGED disk PROVE ShowsStarting'
  BY <1>6 DEF Stay
<1> QED
  BY <1>1, <1>2, <1>3, <1>4, <1>5, <1>6 DEF Step, LetsIn, Drops, Hears, Misses, Expires, Idles, media

LEMMA InItsOwnStep ==
  ASSUME JoinTypes, CopiesHeard, ShowsStarting, WaitsForAll, InItsOwn, Step
  PROVE  InItsOwn'
<1> USE Values DEF InItsOwn
<1>1. ASSUME NEW i \in Host, Waits(i) PROVE InItsOwn'
  BY <1>1 DEF Waits
<1>2. ASSUME NEW i \in Host, GivesUp(i) PROVE InItsOwn'
  BY <1>2 DEF GivesUp
<1>3. ASSUME NEW i \in Host, NEW S \in SUBSET Host, Forms(i, S) PROVE InItsOwn'
  <2>1. i \in S
    BY <1>3 DEF Forms, am_I_in_new_liveset, WaitsForAll, CopiesHeard
  <2> QED
    BY <1>3, <2>1 DEF Forms
<1>4. ASSUME NEW i \in Host, Proposes(i) PROVE InItsOwn'
  BY <1>4 DEF Proposes, ShowsStarting
<1>5. ASSUME NEW i \in Host, LetsIn(i) PROVE InItsOwn'
  <2>1. i \notin Allowed(i) /\ ~ IsIn(i, i)
    BY DEF Allowed, Asks, IsIn
  <2> QED
    BY <1>5, <2>1 DEF LetsIn, Stay
<1>6. ASSUME NEW k \in Host, Drops(k) PROVE InItsOwn'
  BY <1>6 DEF Drops, Stay
<1>7. ASSUME Stay, UNCHANGED current PROVE InItsOwn'
  BY <1>7 DEF Stay
<1> QED
  BY <1>1, <1>2, <1>3, <1>4, <1>5, <1>6, <1>7 DEF Step, Hears, Misses, Writes, Expires, Idles

LEMMA HeardNothingYetStep ==
  ASSUME JoinTypes, NothingYet, HeardNothingYet, Step
  PROVE  HeardNothingYet'
<1> USE Values DEF HeardNothingYet, Coming, Blank, Early
<1>1. ASSUME NEW i \in Host, Waits(i) PROVE HeardNothingYet'
  <2>1. PICK p \in {"down", "copy", "decide", "loop", "booted", "started"} : smat' = [smat EXCEPT ![i] = p]
    BY <1>1 DEF Waits
  <2>2. /\ p # "started" => smat[i] \in Coming
        /\ p \in Early => smat[i] \in Early
        /\ hbraw' = hbraw
    BY <1>1, <2>1 DEF Waits, media
  <2>3. \A a \in Host : /\ smat'[a] \in Coming => smat[a] \in Coming
                        /\ smat'[a] \in Early \cup {"never"} => smat[a] \in Early \cup {"never"}
    BY <2>1, <2>2
  <2> QED
    BY <2>2, <2>3
<1>2. ASSUME NEW i \in Host, GivesUp(i) PROVE HeardNothingYet'
  <2>1. \A a \in Host : smat'[a] = smat[a] \/ smat'[a] = "aborted"
    BY <1>2 DEF GivesUp
  <2>2. hbraw' = hbraw
    BY <1>2 DEF GivesUp, media
  <2> QED
    BY <2>1, <2>2
<1>3. ASSUME NEW i \in Host, NEW S \in SUBSET Host, Forms(i, S) PROVE HeardNothingYet'
  <2>1. smat[i] \in Coming /\ \A a \in Host : smat'[a] = IF a = i THEN "formed" ELSE smat[a]
    BY <1>3 DEF Forms
  <2>2. hbraw' = hbraw
    BY <1>3 DEF Forms, media
  <2> QED
    BY <2>1, <2>2
<1>4. ASSUME NEW i \in Host, Proposes(i) PROVE HeardNothingYet'
  <2>1. PICK p \in {"booting", "join", "asking", "formed"} : smat' = [smat EXCEPT ![i] = p]
    BY <1>4 DEF Proposes
  <2>2. smat[i] \in Coming /\ hbraw' = hbraw
    BY <1>4 DEF Proposes, media
  <2>3. \A a \in Host : /\ smat'[a] \in Coming => smat[a] \in Coming
                        /\ smat'[a] \in Early \cup {"never"} => smat[a] \in Early \cup {"never"}
    BY <2>1, <2>2
  <2> QED
    BY <2>2, <2>3
<1>5. ASSUME NEW i \in Host, NEW j \in Host, Hears(i, j) PROVE HeardNothingYet'
  <2>1. smat[j] \in Early => Packet(j).proposed = {}
    BY DEF NothingYet, Packet
  <2>2. smat[j] # "never"
    BY <1>5 DEF Hears, Running
  <2> QED
    BY <1>5, <2>1, <2>2 DEF Hears, Stay
<1>6. ASSUME Stay, UNCHANGED hbraw PROVE HeardNothingYet'
  BY <1>6 DEF Stay
<1> QED
  BY <1>1, <1>2, <1>3, <1>4, <1>5, <1>6 DEF Step, LetsIn, Drops, Misses, Writes, Expires, Idles, media

LEMMA WaitsForAllStep ==
  ASSUME JoinTypes, NothingYet, InItsOwn, HeardNothingYet, WaitsForAll, Step
  PROVE  WaitsForAll'
<1> USE Values DEF WaitsForAll, Blank, Early
<1>1. ASSUME NEW i \in Host, Waits(i) PROVE WaitsForAll'
  <2>1. PICK p \in {"down", "copy", "decide", "loop", "booted", "started"} : smat' = [smat EXCEPT ![i] = p]
    BY <1>1 DEF Waits
  <2>2. /\ p = "booted" => smat[i] = "booting" /\ copies' = copies
        /\ p # "started" => smat[i] \in Blank
        /\ \A a \in Host \ {i} : copies'[a] = copies[a]
        /\ UNCHANGED <<config, proposed, hbraw>>
    BY <1>1, <2>1 DEF Waits, media
  <2>3. \A a \in Host : /\ smat'[a] \in Blank => smat[a] \in Blank
                        /\ smat'[a] \in {"join", "asking"} => smat[a] = smat'[a]
                        /\ smat'[a] \in {"booting", "booted"} =>
                             smat[a] \in {"booting", "booted"} /\ copies'[a] = copies[a]
    BY <2>1, <2>2
  <2> QED
    BY <2>2, <2>3
<1>2. ASSUME NEW i \in Host, GivesUp(i) PROVE WaitsForAll'
  BY <1>2 DEF GivesUp, media
<1>3. ASSUME NEW i \in Host, NEW S \in SUBSET Host, Forms(i, S) PROVE WaitsForAll'
  BY <1>3 DEF Forms, media
<1>4. ASSUME NEW i \in Host, Proposes(i) PROVE WaitsForAll'
  <2>1. PICK p \in {"booting", "join", "asking", "formed"} : smat' = [smat EXCEPT ![i] = p]
    BY <1>4 DEF Proposes
  <2>2. /\ hbraw' = hbraw /\ config' = config /\ copies' = copies
        /\ \A a \in Host \ {i} : smat'[a] = smat[a] /\ proposed'[a] = proposed[a]
    BY <1>4, <2>1 DEF Proposes, media
  <2>3. smat'[i] = "booting" => smat[i] = "decide" /\ proposed'[i] = config /\ copies[i].hb = config
    BY <1>4, <2>1 DEF Proposes
  <2>4. smat'[i] = "join" => smat[i] = "decide"
    BY <1>4, <2>1 DEF Proposes
  <2>5. smat'[i] = "asking" => smat[i] = "join" /\ proposed[i] \subseteq proposed'[i]
    BY <1>4, <2>1 DEF Proposes
  <2>6. smat'[i] = "join" => \A a \in Host \ {i} : smat[a] \in Blank => hbraw[a][i].proposed = {}
    BY <2>4 DEF HeardNothingYet, Coming
  <2>7. ASSUME NEW a \in Host
        PROVE  /\ smat'[a] \in {"booting", "booted"} => proposed'[a] = config' /\ copies'[a].hb = config'
               /\ \A j \in Host : smat'[a] \in Blank /\ a # j /\ smat'[j] \in {"join", "asking"}
                    /\ a \in hbraw'[a][j].proposed => a \in proposed'[j]
    <3>1. CASE a = i
      BY <3>1, <2>1, <2>2, <2>3
    <3>2. CASE a # i
      <4>1. smat'[a] = smat[a] /\ proposed'[a] = proposed[a]
        BY <2>2, <3>2
      <4>2. ASSUME NEW j \in Host \ {a}, smat[a] \in Blank, smat'[j] \in {"join", "asking"},
                   a \in hbraw[a][j].proposed
            PROVE  a \in proposed'[j]
        <5>1. CASE j = i
          BY <4>2, <5>1, <3>2, <2>1, <2>5, <2>6
        <5>2. CASE j # i
          BY <4>2, <5>2, <2>2
        <5> QED
          BY <5>1, <5>2
      <4> QED
        BY <2>2, <4>1, <4>2
    <3> QED
      BY <3>1, <3>2
  <2> QED
    BY <2>7
<1>5. ASSUME NEW i \in Host, LetsIn(i) PROVE WaitsForAll'
  <2>1. smat[i] \notin Blank
    BY <1>5 DEF LetsIn, NothingYet
  <2>2. \A a \in Host : /\ proposed[a] \subseteq proposed'[a]
                        /\ smat[a] \in Blank => proposed'[a] = proposed[a]
    BY <1>5, <2>1 DEF LetsIn
  <2>3. UNCHANGED <<config, smat, copies, hbraw>>
    BY <1>5 DEF LetsIn, Stay, media
  <2> QED
    BY <2>2, <2>3
<1>6. ASSUME NEW k \in Host, Drops(k) PROVE WaitsForAll'
  <2>1. \A i \in Forgotten(k) : smat[i] \notin Blank \cup {"join", "asking"}
    BY DEF Forgotten, Member, InItsOwn, NothingYet
  <2> QED
    BY <1>6, <2>1 DEF Drops, Stay, media
<1>7. ASSUME NEW i \in Host, NEW j \in Host, Hears(i, j) PROVE WaitsForAll'
  BY <1>7 DEF Hears, Packet, Stay
<1>8. ASSUME Stay, UNCHANGED <<proposed, hbraw>> PROVE WaitsForAll'
  BY <1>8 DEF Stay
<1> QED
  BY <1>1, <1>2, <1>3, <1>4, <1>5, <1>6, <1>7, <1>8 DEF Step, Misses, Writes, Expires, Idles, media

LEMMA AllProposeStep ==
  ASSUME JoinTypes, NothingYet, CopiesHeard, InItsOwn, HeardNothingYet, WaitsForAll, AllPropose, Step
  PROVE  AllPropose'
<1> USE Values DEF AllPropose, Running
<1>1. ASSUME NEW i \in Host, Waits(i) PROVE AllPropose'
  <2>1. CASE smat[i] = "booting"
    <3>1. smat' = [smat EXCEPT ![i] = "booted"] /\ proposed' = proposed /\ config' = config
      BY <1>1, <2>1 DEF Waits
    <3>2. ASSUME NEW j \in config \ {i}, Running(j), smat[j] \notin {"formed", "started"}
          PROVE  i \in proposed[j]
      <4>1. i \in hbraw[i][j].proposed
        BY <1>1, <2>1, <3>2 DEF Waits, CopiesHeard, WaitsForAll
      <4>2. smat[j] \notin Early \cup {"never"}
        BY <2>1, <3>2, <4>1 DEF HeardNothingYet, Coming, Blank
      <4>3. smat[j] \in {"booting", "booted"} \/ smat[j] \in {"join", "asking"}
        BY <3>2, <4>2 DEF Place, Coming, Blank
      <4> QED
        BY <2>1, <3>2, <4>1, <4>3 DEF WaitsForAll, Blank
    <3>3. i \in proposed[i]
      BY <2>1 DEF WaitsForAll
    <3>4. \A a \in Host \ {i} : smat'[a] = smat[a]
      BY <3>1
    <3>5. ASSUME NEW a \in Host, smat'[a] = "booted", NEW j \in config, Running(j)',
                 smat'[j] \notin {"formed", "started"}
          PROVE  a \in proposed[j]
      <4>1. Running(j) /\ smat[j] \notin {"formed", "started"}
        BY <2>1, <3>4, <3>5
      <4>2. CASE a = i
        BY <3>2, <3>3, <4>1, <4>2
      <4>3. CASE a # i
        BY <3>4, <3>5, <4>1, <4>3
      <4> QED
        BY <4>2, <4>3
    <3> QED
      BY <3>1, <3>5
  <2>2. CASE smat[i] # "booting"
    <3>1. PICK p \in {"down", "copy", "decide", "loop", "started"} : smat' = [smat EXCEPT ![i] = p]
      BY <1>1, <2>2 DEF Waits
    <3>2. smat'[i] \notin {"down", "started"} => Running(i) /\ smat[i] \notin {"formed", "started"}
      BY <1>1, <2>2 DEF Waits
    <3>3. smat'[i] = "down" => smat[i] = "off"
      BY <1>1, <2>2 DEF Waits
    <3>4. \A a \in Host : smat[a] = "booted" => smat[i] # "off"
      BY DEF CopiesHeard, WaitsForAll
    <3>5. proposed' = proposed /\ config' = config /\ \A a \in Host \ {i} : smat'[a] = smat[a]
      BY <1>1, <3>1 DEF Waits
    <3>6. ASSUME NEW a \in Host, smat'[a] = "booted", NEW j \in config, Running(j)',
                 smat'[j] \notin {"formed", "started"}
          PROVE  a \in proposed[j]
      <4>1. smat[a] = "booted"
        BY <3>1, <3>5, <3>6
      <4>2. Running(j) /\ smat[j] \notin {"formed", "started"}
        BY <3>1, <3>2, <3>3, <3>4, <3>5, <3>6, <4>1
      <4> QED
        BY <4>1, <4>2
    <3> QED
      BY <3>5, <3>6
  <2> QED
    BY <2>1, <2>2
<1>2. ASSUME NEW i \in Host, GivesUp(i) PROVE AllPropose'
  BY <1>2 DEF GivesUp
<1>3. ASSUME NEW i \in Host, NEW S \in SUBSET Host, Forms(i, S) PROVE AllPropose'
  BY <1>3 DEF Forms
<1>4. ASSUME NEW i \in Host, Proposes(i) PROVE AllPropose'
  <2>1. smat[i] = "decide" => \A a \in Host : smat[a] # "booted"
    BY DEF NothingYet, Early
  <2>2. PICK p \in {"booting", "join", "asking", "formed"} : smat' = [smat EXCEPT ![i] = p]
    BY <1>4 DEF Proposes
  <2>3. /\ smat[i] = "decide" \/ proposed[i] \subseteq proposed'[i]
        /\ Running(i) /\ smat[i] \notin {"formed", "started"} /\ config' = config
        /\ \A a \in Host \ {i} : proposed'[a] = proposed[a]
    BY <1>4 DEF Proposes
  <2>4. ASSUME NEW a \in Host, smat'[a] = "booted", NEW j \in config, Running(j)',
               smat'[j] \notin {"formed", "started"}
        PROVE  a \in proposed'[j]
    <3>1. smat[a] = "booted" /\ smat[i] # "decide"
      BY <2>1, <2>2, <2>4
    <3>2. Running(j) /\ smat[j] \notin {"formed", "started"} /\ proposed[j] \subseteq proposed'[j]
      BY <2>2, <2>3, <2>4, <3>1
    <3> QED
      BY <3>1, <3>2
  <2> QED
    BY <2>3, <2>4
<1>5. ASSUME NEW i \in Host, LetsIn(i) PROVE AllPropose'
  BY <1>5 DEF LetsIn, Stay
<1>6. ASSUME NEW k \in Host, Drops(k) PROVE AllPropose'
  <2>1. \A i \in Forgotten(k) : smat[i] \in {"formed", "started"}
    BY DEF Forgotten, Member, InItsOwn, NothingYet, Place, Coming
  <2>2. UNCHANGED <<config, smat>>
    BY <1>6 DEF Drops, Stay
  <2>3. \A a \in Host : smat[a] \notin {"formed", "started"} => proposed'[a] = proposed[a]
    BY <1>6, <2>1 DEF Drops
  <2> QED
    BY <2>2, <2>3
<1>7. ASSUME Stay, UNCHANGED proposed PROVE AllPropose'
  BY <1>7 DEF Stay
<1> QED
  BY <1>1, <1>2, <1>3, <1>4, <1>5, <1>6, <1>7 DEF Step, Hears, Misses, Writes, Expires, Idles

-----------------------------------------------------------------------------
(* The invariant holds initially, and every step keeps it. *)
LEMMA StartInit ==
  ASSUME JoinInit
  PROVE  StartInv
<1>1. PICK s \in Scenario : StartsFrom(s)
  BY DEF JoinInit
<1>2. JoinTypes
  BY <1>1, InitTypes
<1>3. \A i \in Host : /\ smat[i] \in {"off", "never", "started"}
                      /\ smat[i] # "started" => current[i] = {} /\ proposed[i] = {} /\ hbdom[i] = {i}
                           /\ \A j \in Host : hbraw[i][j].proposed = {}
                      /\ smat[i] = "started" => i \in current[i]
                      /\ i \in hbdom[i]
  BY <1>1 DEF StartsFrom
<1>4. NothingYet /\ HearsStarted /\ CopiesHeard /\ ShowsStarting /\ InItsOwn
  BY <1>3 DEF NothingYet, HearsStarted, CopiesHeard, ShowsStarting, InItsOwn, Coming, Blank, Early
<1>5. HeardNothingYet /\ WaitsForAll /\ AllPropose
  BY <1>3 DEF HeardNothingYet, WaitsForAll, AllPropose, Coming, Blank, Early
<1> QED
  BY <1>2, <1>4, <1>5 DEF StartInv

LEMMA StartStep ==
  ASSUME StartInv, [JoinNext]_joinvars
  PROVE  StartInv'
<1>1. Step /\ JoinTypes'
  BY StepIs, TypeStep DEF StartInv
<1> QED
  BY <1>1, NothingYetStep, HearsStartedStep, CopiesHeardStep, ShowsStartingStep, InItsOwnStep,
     HeardNothingYetStep, WaitsForAllStep, AllProposeStep
     DEF StartInv

(* Objects keep their types and threads their places, and only hosts that  *)
(* wait can have waited in vain.                                           *)
THEOREM JoinTypeCorrect == JoinSpec => []JoinTypeOK
<1>1. JoinInit => StartInv
  BY StartInit
<1>2. StartInv /\ [JoinNext]_joinvars => StartInv'
  BY StartStep
<1>3. StartInv => JoinTypeOK
  BY DEF StartInv, JoinTypes
<1> QED
  BY <1>1, <1>2, <1>3, PTL DEF JoinSpec

(* A host that no longer waits for others proposes a liveset that all of   *)
(* it propose that have not formed one by then: it waited for all that it  *)
(* copied, that is for all that are configured, and nobody takes back what *)
(* it proposes while it asks for a liveset or waits for all others.        *)
THEOREM FormsTogether == JoinSpec => []FormsWhatAllPropose
<1>1. JoinInit => StartInv
  BY StartInit
<1>2. StartInv /\ [JoinNext]_joinvars => StartInv'
  BY StartStep
<1>3. StartInv => FormsWhatAllPropose
  <2>1. SUFFICES ASSUME StartInv, NEW i \in Host, smat[i] = "booted", NEW j \in proposed[i],
                        Running(j), ~ Member(j)
                 PROVE  i \in proposed[j]
    BY DEF FormsWhatAllPropose
  <2>2. j \in config /\ j \in Host
    BY <2>1, Values DEF StartInv, WaitsForAll
  <2>3. smat[j] \notin {"formed", "started"}
    BY <2>1, <2>2 DEF StartInv, InItsOwn, Member
  <2> QED
    BY <2>1, <2>2, <2>3 DEF StartInv, AllPropose
<1> QED
  BY <1>1, <1>2, <1>3, PTL DEF JoinSpec

-----------------------------------------------------------------------------
(* When one host stays *)

LEMMA AnchorStep ==
  ASSUME JoinTypes, NEW l \in Host, Anchor(l), Step
  PROVE  Anchor(l)'
<1> USE Values DEF Anchor
<1>1. ASSUME NEW i \in Host, Waits(i) PROVE Anchor(l)'
  <2>1. /\ l \in Copied(i).nonstarting /\ Copied(i).exists
        /\ i # l /\ smat[i] \notin {"booting", "booted", "join", "asking"}
    BY <1>1, CopiedType DEF Waits
  <2>2. PICK p \in {"down", "copy", "decide", "loop", "started"} : smat' = [smat EXCEPT ![i] = p]
    BY <1>1, <2>1 DEF Waits
  <2>3. /\ p = "decide" => copies' = [copies EXCEPT ![i] = Copied(i)]
        /\ p = "loop" => smat[i] = "decide" /\ copies' = copies
        /\ \A a \in Host \ {i} : copies'[a] = copies[a] /\ starting'[a] = starting[a]
    BY <1>1, <2>1, <2>2 DEF Waits
  <2>4. \A a \in Host : smat'[a] \in {"decide", "loop"} => copies'[a].exists /\ l \in copies'[a].nonstarting
    BY <2>1, <2>2, <2>3
  <2>5. UNCHANGED <<dying, current, sfdom, disk>> /\ smat'[l] = smat[l] /\ starting'[l] = starting[l]
    BY <1>1, <2>1, <2>2, <2>3 DEF Waits, media
  <2>6. \A a \in Host : /\ smat'[a] \in {"join", "asking"} => smat[a] \in {"join", "asking"}
                        /\ smat'[a] \notin {"booting", "booted"}
    BY <2>2
  <2> QED
    BY <2>4, <2>5, <2>6
<1>2. ASSUME NEW i \in Host, GivesUp(i) PROVE Anchor(l)'
  <2>1. i # l /\ l \notin dying'
    BY <1>2 DEF GivesUp
  <2> QED
    BY <1>2, <2>1 DEF GivesUp, media
<1>3. ASSUME NEW i \in Host, NEW S \in SUBSET Host, Forms(i, S) PROVE Anchor(l)'
  <2>1. am_I_in_new_liveset(i, copies[i].nonstarting) /\ S = disk[Min(copies[i].nonstarting)].current
    BY <1>3 DEF Forms
  <2>2. l \in S /\ i # l
    BY <1>3, <2>1, NewIs DEF Forms, Copies
  <2> QED
    BY <1>3, <2>2 DEF Forms, media
<1>4. ASSUME NEW i \in Host, Proposes(i) PROVE Anchor(l)'
  <2>1. PICK p \in {"join", "asking", "formed"} : smat' = [smat EXCEPT ![i] = p]
    BY <1>4 DEF Proposes
  <2>2. i # l /\ UNCHANGED <<dying, starting, copies, sfdom, disk>>
    BY <1>4 DEF Proposes, media
  <2>3. l \in current'[i] /\ \A a \in Host \ {i} : current'[a] = current[a]
    BY <1>4 DEF Proposes
  <2> QED
    BY <2>1, <2>2, <2>3
<1>5. ASSUME NEW i \in Host, LetsIn(i) PROVE Anchor(l)'
  <2>1. \A a \in Host : current[a] \subseteq current'[a] /\ (a # i => current'[a] = current[a])
    BY <1>5 DEF LetsIn
  <2>2. UNCHANGED <<dying, smat, starting, copies, sfdom, disk>> /\ current[i] # {}
    BY <1>5 DEF LetsIn, Stay, media
  <2> QED
    BY <2>1, <2>2
<1>6. ASSUME NEW k \in Host, Drops(k) PROVE Anchor(l)'
  <2>1. k # l /\ UNCHANGED <<dying, smat, starting, copies, sfdom, disk>>
    BY <1>6 DEF Drops, Stay, media
  <2>2. \A a \in Host : current'[a] \subseteq current[a] /\ (l \in current[a] => l \in current'[a])
    BY <1>6, <2>1 DEF Drops
  <2> QED
    BY <2>1, <2>2
<1>7. ASSUME NEW i \in Host, Writes(i) PROVE Anchor(l)'
  BY <1>7 DEF Writes, Stay, Section
<1>8. ASSUME NEW i \in Host, Expires(i) PROVE Anchor(l)'
  BY <1>8 DEF Expires, Stay, Running
<1>9. ASSUME Stay, UNCHANGED <<current, sfdom, disk>> PROVE Anchor(l)'
  BY <1>9 DEF Stay
<1> QED
  BY <1>1, <1>2, <1>3, <1>4, <1>5, <1>6, <1>7, <1>8, <1>9 DEF Step, Hears, Misses, Idles, media

LEMMA UnheardStep ==
  ASSUME JoinTypes, Unheard, Step
  PROVE  Unheard'
<1> USE Values DEF Unheard
<1>1. ASSUME \A j \in Host : smat'[j] \in Coming => smat[j] \in Coming, UNCHANGED <<parts, hbraw>>
      PROVE  Unheard'
  BY <1>1 DEF Linked
<1>2. ASSUME NEW i \in Host, Waits(i) PROVE Unheard'
  BY <1>1, <1>2 DEF Waits, media, Coming, Blank, Early
<1>3. ASSUME NEW i \in Host, GivesUp(i) PROVE Unheard'
  BY <1>1, <1>3 DEF GivesUp, media, Coming, Blank, Early
<1>4. ASSUME NEW i \in Host, NEW S \in SUBSET Host, Forms(i, S) PROVE Unheard'
  BY <1>1, <1>4 DEF Forms, media, Coming, Blank, Early
<1>5. ASSUME NEW i \in Host, Proposes(i) PROVE Unheard'
  BY <1>1, <1>5 DEF Proposes, media, Coming, Blank, Early
<1>6. ASSUME NEW i \in Host, NEW j \in Host, Hears(i, j) PROVE Unheard'
  BY <1>6 DEF Hears, Stay, Linked
<1>7. ASSUME Stay, UNCHANGED hbraw PROVE Unheard'
  BY <1>1, <1>7 DEF Stay
<1> QED
  BY <1>2, <1>3, <1>4, <1>5, <1>6, <1>7 DEF Step, LetsIn, Drops, Misses, Writes, Expires, Idles, media

LEMMA NotYetProposedStep ==
  ASSUME JoinTypes, NothingYet, ShowsStarting, InItsOwn, NotYetProposed, Step,
         NEW l \in Host, Anchor(l)
  PROVE  NotYetProposed'
<1> DEFINE Quiet == NotAsked \cup {"never"}
<1> USE Values DEF NotYetProposed, Running, NotAsked, Early
<1>1. ASSUME NEW i \in Host, Waits(i) PROVE NotYetProposed'
  <2>1. PICK p \in {"down", "copy", "decide", "loop", "booted", "started"} : smat' = [smat EXCEPT ![i] = p]
    BY <1>1 DEF Waits
  <2>2. /\ p \in Quiet => smat[i] \in Quiet
        /\ p # "down" => Running(i)
        /\ p = "down" => proposed[i] = {}
        /\ UNCHANGED <<current, proposed, hbraw>>
    BY <1>1, <2>1 DEF Waits, media, NothingYet
  <2>3. \A a \in Host : /\ smat'[a] \in Quiet => smat[a] \in Quiet
                        /\ Running(a)' => Running(a) \/ proposed[a] = {}
    BY <2>1, <2>2
  <2> QED
    BY <2>2, <2>3
<1>2. ASSUME NEW i \in Host, GivesUp(i) PROVE NotYetProposed'
  <2>1. \A a \in Host : /\ smat'[a] \in Quiet => smat'[a] = smat[a] /\ a # i
                        /\ Running(a)' => Running(a) /\ a # i
    BY <1>2 DEF GivesUp
  <2>2. UNCHANGED <<current, hbraw>> /\ \A a \in Host \ {i} : proposed'[a] = proposed[a]
    BY <1>2 DEF GivesUp, media
  <2> QED
    BY <2>1, <2>2
<1>3. ASSUME NEW i \in Host, NEW S \in SUBSET Host, Forms(i, S) PROVE NotYetProposed'
  <2>1. \A a \in Host : /\ smat'[a] \in Quiet => smat'[a] = smat[a] /\ a # i
                        /\ Running(a)' => Running(a)
    BY <1>3 DEF Forms
  <2>2. /\ hbraw' = hbraw /\ current'[i] = proposed'[i]
        /\ \A a \in Host \ {i} : proposed'[a] = proposed[a] /\ current'[a] = current[a]
    BY <1>3 DEF Forms, media
  <2> QED
    BY <2>1, <2>2
<1>4. ASSUME NEW i \in Host, Proposes(i) PROVE NotYetProposed'
  <2>1. PICK p \in {"join", "asking", "formed"} : smat' = [smat EXCEPT ![i] = p]
    BY <1>4 DEF Proposes, Anchor
  <2>2. /\ hbraw' = hbraw /\ smat[i] \notin {"never", "off", "aborted"}
        /\ \A a \in Host \ {i} : proposed'[a] = proposed[a] /\ current'[a] = current[a]
    BY <1>4 DEF Proposes, media
  <2>3. CASE p = "join"
    <3>1. smat[i] = "decide" /\ proposed'[i] = current'[i] /\ i \notin proposed'[i]
      BY <1>4, <2>1, <2>3 DEF Proposes, ShowsStarting
    <3>2. \A a \in Host : /\ smat'[a] \in Quiet => smat[a] \in Quiet
                          /\ Running(a)' => Running(a)
      BY <2>1, <2>2, <2>3, <3>1
    <3> QED
      BY <2>2, <3>1, <3>2
  <2>4. CASE p # "join"
    <3>1. current[i] \subseteq current'[i] /\ proposed'[i] \subseteq proposed[i] \cup {i}
      BY <1>4, <2>1, <2>4 DEF Proposes
    <3>2. \A a \in Host : /\ smat'[a] \in Quiet => smat[a] \in Quiet /\ a # i
                          /\ Running(a)' => Running(a)
      BY <2>1, <2>2, <2>4
    <3> QED
      BY <2>2, <3>1, <3>2
  <2> QED
    BY <2>3, <2>4
<1>5. ASSUME NEW i \in Host, LetsIn(i) PROVE NotYetProposed'
  <2>1. ASSUME NEW a \in Host \ {i}, smat[a] \in Quiet, a \in Accepted(i)
        PROVE  IsIn(i, a)
    BY <2>1 DEF Accepted, Asks
  <2>2. \A a \in Host \ {i} : smat[a] \in Quiet /\ a \in proposed'[i] => a \in current'[i]
    BY <1>5, <2>1 DEF LetsIn
  <2>3. i \notin Accepted(i)
    BY DEF Accepted, Asks, IsIn
  <2>4. /\ UNCHANGED <<smat, hbraw>> /\ (i \in proposed'[i] => i \in proposed[i])
        /\ \A a \in Host \ {i} : proposed'[a] = proposed[a] /\ current'[a] = current[a]
    BY <1>5, <2>3 DEF LetsIn, Stay, media
  <2> QED
    BY <2>2, <2>4
<1>6. ASSUME NEW k \in Host, Drops(k) PROVE NotYetProposed'
  <2>1. \A a \in Host : \/ current'[a] = current[a] /\ proposed'[a] = proposed[a]
                        \/ current'[a] = current[a] \ {k} /\ proposed'[a] = proposed[a] \ {k}
    BY <1>6 DEF Drops
  <2>2. UNCHANGED <<smat, hbraw>>
    BY <1>6 DEF Drops, Stay, media
  <2> QED
    BY <2>1, <2>2
<1>7. ASSUME NEW i \in Host, NEW j \in Host, Hears(i, j) PROVE NotYetProposed'
  <2>1. /\ i # j /\ Running(j) /\ UNCHANGED <<smat, current, proposed>>
        /\ hbraw'[i][j].current = current[j] /\ hbraw'[i][j].proposed = proposed[j]
        /\ \A a, b \in Host : a # i \/ b # j => hbraw'[a][b] = hbraw[a][b]
    BY <1>7 DEF Hears, Stay, Packet
  <2>2. smat[j] \in Quiet => j \notin hbraw'[i][j].proposed
    BY <2>1
  <2>3. smat[i] \in Quiet /\ i \in hbraw'[i][j].proposed => i \in hbraw'[i][j].current
    BY <2>1
  <2>4. ASSUME NEW b \in Host, smat[b] \in Quiet, NEW a \in Host \ {b}
        PROVE  /\ b \in hbraw'[a][b].proposed => b \in hbraw'[a][b].current
               /\ b \in hbraw'[b][a].proposed => b \in hbraw'[b][a].current
    BY <2>1, <2>2, <2>3, <2>4
  <2> QED
    BY <2>1, <2>4
<1>8. ASSUME Stay, UNCHANGED <<current, proposed, hbraw>> PROVE NotYetProposed'
  BY <1>8 DEF Stay
<1> QED
  BY <1>1, <1>2, <1>3, <1>4, <1>5, <1>6, <1>7, <1>8 DEF Step, Misses, Writes, Expires, Idles, media

LEMMA StandsStep ==
  ASSUME JoinTypes, HeardNothingYet, NotYetProposed, Unheard, Stands, Step,
         NEW l \in Host, Anchor(l)
  PROVE  Stands'
<1> DEFINE Joins == {"copy", "decide", "loop", "join", "asking"}
<1> USE Values DEF Stands, Running
<1>1. ASSUME NEW j \in Host, Waits(j) PROVE Stands'
  <2>1. PICK p \in {"down", "copy", "decide", "loop", "started"} : smat' = [smat EXCEPT ![j] = p]
    BY <1>1 DEF Waits, Anchor
  <2>2. /\ p \in {"decide", "loop"} => smat[j] \in Joins
        /\ p = "down" => smat[j] = "off"
        /\ p # "down" => Running(j)
        /\ UNCHANGED <<proposed, hbraw>>
    BY <1>1, <2>1 DEF Waits, media
  <2>3. ASSUME p = "copy", NEW i \in Host \ {j}, Running(i), j \in hbraw[j][i].proposed
        PROVE  FALSE
    <3>1. smat[j] = "down" /\ HasListened(j) /\ recognized_down(j)
      BY <1>1, <2>1, <2>3 DEF Waits
    <3>2. j \in hbraw[j][i].current
      BY <2>3, <3>1 DEF NotYetProposed, NotAsked, Early
    <3>3. smat[i] # "down"
      BY <2>3, <3>1 DEF HeardNothingYet, Coming, Blank, Early
    <3>4. ~ Linked(j, i)
      BY <2>3, <3>1, <3>2, <3>3 DEF HasListened, recognized_down
    <3> QED
      BY <2>3, <3>1, <3>4 DEF Unheard, Coming, Blank, Early
  <2>4. p = "down" => \A a \in Host \ {j} : smat[a] \in Joins => hbraw[a][j].proposed = {}
    BY <2>2 DEF HeardNothingYet, Coming, Blank, Early
  <2>5. ASSUME NEW b \in Host, smat'[b] \in Joins, NEW a \in Host \ {b}, Running(a)',
               b \in hbraw[b][a].proposed
        PROVE  b \in proposed[a]
    <3>1. CASE b = j
      <4>1. smat'[a] = smat[a]
        BY <2>1, <2>5, <3>1
      <4>2. Running(a) /\ smat[j] \in Joins
        BY <2>1, <2>2, <2>3, <2>5, <3>1, <4>1
      <4> QED
        BY <2>5, <3>1, <4>2
    <3>2. CASE b # j
      <4>1. smat'[b] = smat[b]
        BY <2>1, <3>2
      <4>2. Running(a)
        BY <2>1, <2>2, <2>4, <2>5, <3>2, <4>1
      <4> QED
        BY <2>5, <4>1, <4>2
    <3> QED
      BY <3>1, <3>2
  <2> QED
    BY <2>2, <2>5
<1>2. ASSUME NEW i \in Host, GivesUp(i) PROVE Stands'
  BY <1>2 DEF GivesUp, media
<1>3. ASSUME NEW i \in Host, NEW S \in SUBSET Host, Forms(i, S) PROVE Stands'
  <2>1. smat[i] \in {"decide", "loop"}
    BY <1>3 DEF Forms, Anchor
  <2>2. \A b \in Host \ {i} : smat[b] \in Joins => hbraw[b][i].proposed = {}
    BY <2>1 DEF HeardNothingYet, Coming, Blank, Early
  <2>3. /\ hbraw' = hbraw /\ smat'[i] = "formed"
        /\ \A a \in Host \ {i} : smat'[a] = smat[a] /\ proposed'[a] = proposed[a]
    BY <1>3 DEF Forms, media
  <2> QED
    BY <2>1, <2>2, <2>3
<1>4. ASSUME NEW i \in Host, Proposes(i) PROVE Stands'
  <2>1. PICK p \in {"join", "asking", "formed"} : smat' = [smat EXCEPT ![i] = p]
    BY <1>4 DEF Proposes, Anchor
  <2>2. /\ hbraw' = hbraw /\ Running(i) /\ smat[i] \in Joins
        /\ \A a \in Host \ {i} : proposed'[a] = proposed[a]
        /\ smat[i] # "decide" => proposed[i] \subseteq proposed'[i]
    BY <1>4, <2>1 DEF Proposes, media
  <2>3. smat[i] = "decide" => \A b \in Host \ {i} : smat[b] \in Joins => hbraw[b][i].proposed = {}
    BY DEF HeardNothingYet, Coming, Blank, Early
  <2>4. \A a \in Host : /\ smat'[a] \in Joins => smat[a] \in Joins
                        /\ Running(a)' => Running(a)
    BY <2>1, <2>2
  <2> QED
    BY <2>2, <2>3, <2>4
<1>5. ASSUME NEW i \in Host, LetsIn(i) PROVE Stands'
  <2>1. \A a \in Host : proposed[a] \subseteq proposed'[a]
    BY <1>5 DEF LetsIn
  <2> QED
    BY <1>5, <2>1 DEF LetsIn, Stay, media
<1>6. ASSUME NEW k \in Host, Drops(k) PROVE Stands'
  <2>1. smat[k] \notin Joins /\ UNCHANGED <<smat, hbraw>>
    BY <1>6 DEF Drops, Stay, media
  <2>2. \A a \in Host : proposed[a] \subseteq proposed'[a] \cup {k}
    BY <1>6 DEF Drops
  <2> QED
    BY <2>1, <2>2
<1>7. ASSUME NEW i \in Host, NEW j \in Host, Hears(i, j) PROVE Stands'
  <2>1. /\ UNCHANGED <<smat, proposed>> /\ hbraw'[i][j].proposed = proposed[j]
        /\ \A a, b \in Host : a # i \/ b # j => hbraw'[a][b] = hbraw[a][b]
    BY <1>7 DEF Hears, Stay, Packet
  <2> QED
    BY <2>1
<1>8. ASSUME Stay, UNCHANGED <<proposed, hbraw>> PROVE Stands'
  BY <1>8 DEF Stay
<1> QED
  BY <1>1, <1>2, <1>3, <1>4, <1>5, <1>6, <1>7, <1>8 DEF Step, Misses, Writes, Expires, Idles, media

LEMMA StaysInit ==
  ASSUME NEW s \in Scenario, OneStays(s), StartsFrom(s)
  PROVE  StaysInv
<1>1. JoinInit
  BY DEF JoinInit
<1>2. PICK l \in s.live : l \notin s.boots \cup s.dies
  BY DEF OneStays
<1>3. s.live \subseteq Host
  BY JoinAssumption
<1>4. \A i \in Host : /\ smat[i] \in {"off", "never", "started"} /\ proposed[i] = current[i]
                      /\ current[i] # {} => current[i] = s.live
                      /\ disk[i].current # {} => disk[i].current = s.live
  BY DEF StartsFrom
<1>5. \A i, j \in Host : /\ hbraw[i][j].proposed = hbraw[i][j].current
                         /\ smat[i] # "started" => hbraw[i][j].proposed = {} /\ current[i] = {}
  BY DEF StartsFrom
<1>6. /\ smat[l] = "started" /\ l \notin dying /\ l \in sfdom /\ ~ disk[l].starting /\ ~ starting[l]
      /\ l \in current[l]
  BY <1>2, <1>3 DEF StartsFrom
<1>7. Anchor(l)
  BY <1>2, <1>4, <1>6 DEF Anchor
<1>8. NotYetProposed /\ Unheard /\ Stands
  BY <1>4, <1>5 DEF NotYetProposed, Unheard, Stands, NotAsked, Coming, Blank, Early
<1> QED
  BY <1>1, <1>2, <1>3, <1>7, <1>8, StartInit DEF StaysInv, Anchored

LEMMA StaysStep ==
  ASSUME StaysInv, [JoinNext]_joinvars
  PROVE  StaysInv'
<1>1. PICK l \in Host : Anchor(l)
  BY DEF StaysInv, Anchored
<1>2. StartInv /\ StartInv' /\ Step
  BY StartStep, StepIs DEF StaysInv, StartInv
<1>3. Anchor(l)' /\ NotYetProposed' /\ Unheard' /\ Stands'
  BY <1>1, <1>2, AnchorStep, NotYetProposedStep, UnheardStep, StandsStep DEF StaysInv, StartInv
<1> QED
  BY <1>2, <1>3 DEF StaysInv, Anchored

(* While a host of the liveset stays up, nobody that starts gets into a    *)
(* separate one, however many start at once, crash or do not hear each     *)
(* other: whatever it forms or joins counts that host in.                  *)
THEOREM StaysTogether ==
  ASSUME NEW s \in Scenario, OneStays(s)
  PROVE  JoinSpec /\ StartsFrom(s) => []NeverApart
<1>1. StartsFrom(s) => StaysInv
  BY StaysInit
<1>2. StaysInv /\ [JoinNext]_joinvars => StaysInv'
  BY StaysStep
<1>3. StaysInv => NeverApart
  <2>1. SUFFICES ASSUME StaysInv, NEW i \in Host, NEW j \in Host, Member(i), Member(j)
                 PROVE  \E k \in current[i] \cap current[j] : Member(k)
    BY DEF NeverApart
  <2>2. PICK l \in Host : Anchor(l)
    BY <2>1 DEF StaysInv, Anchored
  <2> QED
    BY <2>1, <2>2 DEF Anchor, Member, Running
<1> QED
  BY <1>1, <1>2, <1>3, PTL DEF JoinSpec

(* Then whom join() lets in is still proposed by all hosts of the liveset  *)
(* it joins that are up, even those that started since: it waited until    *)
(* all had forgotten it, and a proposal it heard of after that stands.     *)
THEOREM JoinsByConsent ==
  ASSUME NEW s \in Scenario, OneStays(s)
  PROVE  JoinSpec /\ StartsFrom(s) => []Consent
<1>1. StartsFrom(s) => StaysInv
  BY StaysInit
<1>2. StaysInv /\ [JoinNext]_joinvars => StaysInv'
  BY StaysStep
<1>3. StaysInv => Consent
  BY DEF StaysInv, Stands, Consent, joined
<1> QED
  BY <1>1, <1>2, <1>3, PTL DEF JoinSpec

-----------------------------------------------------------------------------
(* When HA is enabled *)

(* There is no liveset, and none may be formed without all hosts. *)
Enables(s) == s.live = {} /\ s.pool = "INIT"

(* The pool state a host decides on is INIT, so that it can only wait for  *)
(* all others; ...                                                         *)
ReadsInit ==
  \A i \in Host :
    /\ smat[i] \in {"copy", "decide", "loop", "booting", "booted"} => copies[i].pool = "INIT"
    /\ smat[i] \in {"loop", "booting"} => ~ copies[i].exists

(* ... before the first has found that all propose, nobody has a liveset,  *)
(* and from then on nobody decides again.                                  *)
Past == {"booting", "booted", "formed", "started", "aborted"}
AllThere == \A i \in config : smat[i] \in Past

NoneBefore ==
  AllThere \/ /\ pool = "INIT"
              /\ \A i \in Host : /\ current[i] = {}
                                 /\ smat[i] \notin {"booted", "join", "asking", "formed", "started"}

(* Every liveset then has all hosts that have not given up. *)
CountsAll ==
  \A i \in Host : current[i] # {} => \A j \in config : smat[j] # "aborted" => j \in current[i]

EnableInv == StartInv /\ ReadsInit /\ NoneBefore /\ CountsAll

LEMMA AllThereStays ==
  ASSUME JoinTypes, AllThere, Step
  PROVE  AllThere'
<1> USE Values DEF AllThere, Past
<1>1. ASSUME NEW i \in Host, Waits(i) PROVE AllThere'
  BY <1>1 DEF Waits
<1>2. ASSUME NEW i \in Host, GivesUp(i) PROVE AllThere'
  BY <1>2 DEF GivesUp
<1>3. ASSUME NEW i \in Host, NEW S \in SUBSET Host, Forms(i, S) PROVE AllThere'
  BY <1>3 DEF Forms
<1>4. ASSUME NEW i \in Host, Proposes(i) PROVE AllThere'
  BY <1>4 DEF Proposes
<1>5. ASSUME Stay PROVE AllThere'
  BY <1>5 DEF Stay
<1> QED
  BY <1>1, <1>2, <1>3, <1>4, <1>5 DEF Step, LetsIn, Drops, Hears, Misses, Writes, Expires, Idles

(* Who stops waiting for the others has heard all of them propose. *)
LEMMA BootedAllThere ==
  ASSUME StartInv, NoneBefore, NEW i \in Host, Waits(i), smat[i] = "booting"
  PROVE  AllThere
<1> USE Values DEF StartInv
<1>1. ASSUME NEW j \in config \ {i} PROVE smat[j] \in Past
  <2>1. smat[j] \notin {"off", "never"} /\ (Running(j) => i \in hbraw[i][j].proposed)
    BY <1>1 DEF Waits, CopiesHeard, WaitsForAll
  <2>2. Running(j) => smat[j] \notin Early
    BY <1>1, <2>1 DEF HeardNothingYet, Coming, Blank
  <2>3. smat[j] \notin {"join", "asking"}
    BY <1>1 DEF NoneBefore, AllThere, Past
  <2> QED
    BY <1>1, <2>1, <2>2, <2>3 DEF Running, Past, Place, Coming, Blank, Early
<1> QED
  BY <1>1 DEF AllThere, Past

LEMMA ReadsInitStep ==
  ASSUME JoinTypes, ReadsInit, NoneBefore, Step
  PROVE  ReadsInit'
<1> USE Values DEF ReadsInit
<1>1. ASSUME NEW i \in Host, Waits(i) PROVE ReadsInit'
  <2>1. smat[i] = "down" => pool = "INIT"
    BY DEF NoneBefore, AllThere, Past
  <2>2. Copied(i).pool = copies[i].pool
    BY CopiedType
  <2>3. PICK p \in {"down", "copy", "decide", "loop", "booted", "started"} : smat' = [smat EXCEPT ![i] = p]
    BY <1>1 DEF Waits
  <2>4. /\ p \in {"copy", "decide", "loop", "booted"} => copies'[i].pool = "INIT"
        /\ p = "loop" => ~ copies'[i].exists
        /\ \A a \in Host \ {i} : copies'[a] = copies[a]
    BY <1>1, <2>1, <2>2, <2>3 DEF Waits
  <2> QED
    BY <2>3, <2>4
<1>2. ASSUME NEW i \in Host, GivesUp(i) PROVE ReadsInit'
  BY <1>2 DEF GivesUp
<1>3. ASSUME NEW i \in Host, NEW S \in SUBSET Host, Forms(i, S) PROVE ReadsInit'
  BY <1>3 DEF Forms
<1>4. ASSUME NEW i \in Host, Proposes(i) PROVE ReadsInit'
  BY <1>4 DEF Proposes
<1>5. ASSUME Stay PROVE ReadsInit'
  BY <1>5 DEF Stay
<1> QED
  BY <1>1, <1>2, <1>3, <1>4, <1>5 DEF Step, LetsIn, Drops, Hears, Misses, Writes, Expires, Idles

LEMMA NoneBeforeStep ==
  ASSUME StartInv, ReadsInit, NoneBefore, Step
  PROVE  NoneBefore'
<1> USE Values DEF StartInv
<1>1. CASE AllThere
  BY <1>1, AllThereStays DEF NoneBefore
<1>2. CASE ~ AllThere
  <2> USE DEF NoneBefore
  <2>1. ASSUME NEW i \in Host, Waits(i) PROVE NoneBefore'
    <3>1. smat[i] # "booting"
      BY <1>2, <2>1, BootedAllThere
    <3> QED
      BY <1>2, <2>1, <3>1 DEF Waits
  <2>2. ASSUME NEW i \in Host, GivesUp(i) PROVE NoneBefore'
    BY <1>2, <2>2 DEF GivesUp
  <2>3. ASSUME NEW i \in Host, NEW S \in SUBSET Host, Forms(i, S) PROVE NoneBefore'
    BY <1>2, <2>3 DEF Forms, ReadsInit
  <2>4. ASSUME NEW i \in Host, Proposes(i) PROVE NoneBefore'
    BY <1>2, <2>4 DEF Proposes, ReadsInit
  <2>5. ASSUME NEW i \in Host, LetsIn(i) PROVE NoneBefore'
    BY <1>2, <2>5 DEF LetsIn
  <2>6. ASSUME NEW k \in Host, Drops(k) PROVE NoneBefore'
    BY <1>2, <2>6 DEF Drops, Stay
  <2>7. ASSUME Stay, UNCHANGED current PROVE NoneBefore'
    BY <1>2, <2>7 DEF Stay
  <2> QED
    BY <2>1, <2>2, <2>3, <2>4, <2>5, <2>6, <2>7 DEF Step, Hears, Misses, Writes, Expires, Idles
<1> QED
  BY <1>1, <1>2

LEMMA CountsAllStep ==
  ASSUME StartInv, ReadsInit, NoneBefore, CountsAll, Step
  PROVE  CountsAll'
<1> USE Values DEF StartInv, CountsAll
<1>1. ASSUME NEW i \in Host, Waits(i) PROVE CountsAll'
  BY <1>1 DEF Waits
<1>2. ASSUME NEW i \in Host, GivesUp(i) PROVE CountsAll'
  BY <1>2 DEF GivesUp
<1>3. ASSUME NEW i \in Host, NEW S \in SUBSET Host, Forms(i, S) PROVE CountsAll'
  <2>1. S = config
    BY <1>3 DEF Forms, ReadsInit, WaitsForAll
  <2> QED
    BY <1>3, <2>1 DEF Forms
<1>4. ASSUME NEW i \in Host, Proposes(i) PROVE CountsAll'
  <2>1. smat[i] = "decide" => copies[i].pool = "INIT"
    BY DEF ReadsInit
  <2>2. smat[i] \notin {"join", "asking"}
    BY DEF NoneBefore, AllThere, Past
  <2> QED
    BY <1>4, <2>1, <2>2 DEF Proposes
<1>5. ASSUME NEW i \in Host, LetsIn(i) PROVE CountsAll'
  <2>1. \A a \in Host : current[a] \subseteq current'[a] /\ (current'[a] # {} => current[a] # {})
    BY <1>5 DEF LetsIn
  <2> QED
    BY <1>5, <2>1 DEF LetsIn, Stay
<1>6. ASSUME NEW k \in Host, Drops(k) PROVE CountsAll'
  <2>1. \A a \in Host : current[a] # {} => k \notin config \/ smat[k] = "aborted"
    BY <1>6 DEF Drops, NoneBefore, AllThere, Past
  <2>2. \A a \in Host : current'[a] = current[a] \/ current'[a] = current[a] \ {k}
    BY <1>6 DEF Drops
  <2>3. UNCHANGED <<config, smat>>
    BY <1>6 DEF Drops, Stay
  <2> QED
    BY <2>1, <2>2, <2>3
<1>7. ASSUME Stay, UNCHANGED current PROVE CountsAll'
  BY <1>7 DEF Stay
<1> QED
  BY <1>1, <1>2, <1>3, <1>4, <1>5, <1>6, <1>7 DEF Step, Hears, Misses, Writes, Expires, Idles

LEMMA EnableInit ==
  ASSUME NEW s \in Scenario, Enables(s), StartsFrom(s)
  PROVE  EnableInv
<1>1. JoinInit
  BY DEF JoinInit
<1>2. pool = "INIT" /\ \A i \in Host : current[i] = {} /\ smat[i] \in {"off", "never"}
  BY DEF StartsFrom, Enables
<1> QED
  BY <1>1, <1>2, StartInit DEF EnableInv, ReadsInit, NoneBefore, CountsAll

LEMMA EnableStep ==
  ASSUME EnableInv, [JoinNext]_joinvars
  PROVE  EnableInv'
<1>1. StartInv /\ StartInv' /\ Step
  BY StartStep, StepIs DEF EnableInv, StartInv
<1> QED
  BY <1>1, ReadsInitStep, NoneBeforeStep, CountsAllStep DEF EnableInv, StartInv

(* When HA is enabled no two separate livesets are formed, whichever hosts *)
(* give up or crash and whatever the network is: the first is formed when  *)
(* all hosts propose it, and who is not in it or has left it has given up. *)
THEOREM EnablesTogether ==
  ASSUME NEW s \in Scenario, Enables(s)
  PROVE  JoinSpec /\ StartsFrom(s) => []NeverApart
<1>1. StartsFrom(s) => EnableInv
  BY EnableInit
<1>2. EnableInv /\ [JoinNext]_joinvars => EnableInv'
  BY EnableStep
<1>3. EnableInv => NeverApart
  <2>1. SUFFICES ASSUME EnableInv, NEW i \in Host, NEW j \in Host, Member(i), Member(j)
                 PROVE  i \in current[i] \cap current[j]
    BY DEF NeverApart
  <2>2. i \in config /\ smat[i] # "aborted"
    BY <2>1, Values DEF EnableInv, StartInv, Member, Running
  <2> QED
    BY <2>1, <2>2 DEF EnableInv, CountsAll, Member
<1> QED
  BY <1>1, <1>2, <1>3, PTL DEF JoinSpec
=============================================================================
