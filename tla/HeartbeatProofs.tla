-------------------------- MODULE HeartbeatProofs --------------------------
(***************************************************************************)
(* Proofs about what a receiver makes of one sender's packets, for every   *)
(* modulus of the sequence number, every time limit and any number of      *)
(* reboots and lost packets.                                               *)
(***************************************************************************)
EXTENDS Heartbeat, TLAPS

-----------------------------------------------------------------------------
(* The arithmetic of sequence numbers *)

LEMMA ModuloOnce ==
  ASSUME NEW M \in Nat \ {0}, NEW x \in 0 .. 2 * M - 1
  PROVE  x % M = IF x < M THEN x ELSE x - M
  OBVIOUS

LEMMA NextNumber ==
  ASSUME sequence \in SequenceNumber
  PROVE  (sequence + 1) % Modulus = IF sequence + 1 = Modulus THEN 0 ELSE sequence + 1
<1> DEFINE M == Modulus
           x == sequence + 1
<1>1. x \in 0 .. 2 * M - 1 /\ M \in Nat \ {0}
  BY HeartbeatAssumption DEF SequenceNumber
<1>2. x = M \/ x < M
  BY HeartbeatAssumption DEF SequenceNumber
<1> HIDE DEF M, x
<1>3. x % M = IF x < M THEN x ELSE x - M
  BY <1>1, ModuloOnce
<1> QED
  BY <1>2, <1>3, HeartbeatAssumption DEF M, x, SequenceNumber

(* What is_newer() says of two sequence numbers. *)
LEMMA Newer ==
  ASSUME last \in SequenceNumber, NEW number \in SequenceNumber
  PROVE  is_newer(number) <=> last < number \/ last - number > Modulus \div 2
<1> DEFINE M == Modulus
           x == last + Modulus - number
<1>1. x \in 0 .. 2 * M - 1 /\ M \in Nat \ {0}
  BY HeartbeatAssumption DEF SequenceNumber
<1> HIDE DEF M, x
<1>2. x % M = IF x < M THEN x ELSE x - M
  BY <1>1, ModuloOnce
<1> QED
  BY <1>2, HeartbeatAssumption DEF M, x, is_newer, SequenceNumber

-----------------------------------------------------------------------------
(* Types *)

HbTypes ==
    /\ HbTypeOK
    /\ ~ runs => boots <= MaxReboots
    /\ \A p \in network : p.boot \in 1..boots

LEMMA HbTypesStep ==
  ASSUME HbTypes, [HbNext]_hbvars
  PROVE  HbTypes'
<1> USE HeartbeatAssumption DEF HbTypes, HbTypeOK, sendervars, receivervars, Packet, NotSending
<1>1. ASSUME NEW t \in Sender, send_hb_number(t) PROVE HbTypes'
  BY <1>1, NextNumber DEF send_hb_number, SequenceNumber
<1>2. ASSUME NEW t \in Sender, send_hb(t) PROVE HbTypes'
  <2> DEFINE q == [number |-> sending[t], boot |-> boots, live |-> in_liveset, late |-> FALSE]
  <2>1. q \in Packet /\ q.boot \in 1..boots /\ network' = network \cup {q}
    BY <1>2 DEF send_hb
  <2> HIDE DEF q
  <2>2. network' \subseteq Packet /\ \A p \in network' : p.boot \in 1..boots
    BY <2>1
  <2>3. sending' \in [Sender -> SequenceNumber \cup {NotSending}] /\ has_sent' \subseteq Sender
    BY <1>2 DEF send_hb
  <2> QED
    BY <1>2, <2>2, <2>3 DEF send_hb
<1>3. CASE update_hbdomain
  BY <1>3 DEF update_hbdomain, SequenceNumber
<1>4. ASSUME NEW p \in network, receive_hb(p) PROVE HbTypes'
  <2>1. p.number \in SequenceNumber /\ p.boot \in 1..boots
    BY <1>4
  <2>2. last' \in SequenceNumber /\ age' \in 0..T1 /\ heard' \in 0..boots
    BY <1>4, <2>1 DEF receive_hb
  <2>3. waiting' \in Nat
    BY <1>4 DEF receive_hb
  <2>4. updated' \in BOOLEAN
    BY <1>4, Zenon DEF receive_hb
  <2> QED
    BY <1>4, <2>2, <2>3, <2>4 DEF receive_hb
<1>5. CASE SenderDies
  BY <1>5 DEF SenderDies
<1>6. CASE SenderBoots
  <2>1. runs' \in BOOLEAN /\ in_liveset' \in BOOLEAN /\ runs'
    BY <1>6, Zenon DEF SenderBoots
  <2>2. /\ boots' \in 1..MaxReboots + 1 /\ boots' = boots + 1
        /\ heard' \in 0..boots' /\ member' \in 0..boots' /\ sequence' \in SequenceNumber
    BY <1>6 DEF SenderBoots, SequenceNumber
  <2>3. \A p \in network' : p.boot \in 1..boots'
    BY <1>6, <2>2 DEF SenderBoots
  <2> QED
    BY <1>6, <2>1, <2>2, <2>3 DEF SenderBoots
<1>7. CASE RemoveMember
  BY <1>7 DEF RemoveMember
<1>8. CASE Join
  BY <1>8 DEF Join
<1>9. ASSUME NEW p \in network, LosePacket(p) PROVE HbTypes'
  BY <1>9 DEF LosePacket
<1>10. ASSUME NEW p \in network, DelayPacket(p) PROVE HbTypes'
  <2>1. /\ [p EXCEPT !.late = TRUE] \in Packet
        /\ [p EXCEPT !.late = TRUE].boot = p.boot
    BY <1>10
  <2>2. network' \subseteq Packet /\ \A q \in network' : q.boot \in 1..boots
    BY <1>10, <2>1 DEF DelayPacket
  <2> QED
    BY <1>10, <2>2 DEF DelayPacket
<1>11. CASE Tick
  <2>1. updated' \in BOOLEAN
    BY <1>11, Zenon DEF Tick
  <2>2. age' \in 0..T1 /\ waiting' \in Nat /\ has_sent' \subseteq Sender
    BY <1>11 DEF Tick
  <2> QED
    BY <1>11, <2>1, <2>2 DEF Tick
<1>12. CASE UNCHANGED hbvars
  BY <1>12 DEF hbvars
<1> HIDE DEF HbTypes
<1> QED
  BY <1>1, <1>2, <1>3, <1>4, <1>5, <1>6, <1>7, <1>8, <1>9, <1>10, <1>11, <1>12
  DEF HbNext, SendStep, ReceiveStep

-----------------------------------------------------------------------------
(* A rebooted host *)

(* Only the incarnation the receiver has in its liveset, or one before it, *)
(* has ever said that it is in the liveset.                                *)
Return ==
    /\ in_liveset /\ member # 0 => member = boots
    /\ \A p \in network : p.live /\ member # 0 => p.boot <= member
    /\ NoEarlyReturn

LEMMA ReturnStep ==
  ASSUME HbTypes, Return, [HbNext]_hbvars
  PROVE  Return'
<1> USE HeartbeatAssumption DEF HbTypes, HbTypeOK, Return, NoEarlyReturn, sendervars, receivervars
<1>1. ASSUME NEW t \in Sender, send_hb_number(t) PROVE Return'
  BY <1>1 DEF send_hb_number
<1>2. ASSUME NEW t \in Sender, send_hb(t) PROVE Return'
  <2> DEFINE q == [number |-> sending[t], boot |-> boots, live |-> in_liveset, late |-> FALSE]
  <2>1. q.boot = boots /\ (q.live <=> in_liveset) /\ network' = network \cup {q}
    BY <1>2 DEF send_hb
  <2>2. UNCHANGED <<in_liveset, member, boots, heard>>
    BY <1>2 DEF send_hb
  <2> HIDE DEF q
  <2> QED
    BY <2>1, <2>2
<1>3. CASE update_hbdomain
  BY <1>3 DEF update_hbdomain
<1>4. ASSUME NEW p \in network, receive_hb(p) PROVE Return'
  <2>1. /\ heard' = heard \/ (heard' = p.boot /\ ~ is_ignored(p))
        /\ network' \subseteq network
        /\ UNCHANGED <<in_liveset, member, boots>>
    BY <1>4 DEF receive_hb
  <2>2. member # 0 => heard' <= member
    BY <1>4, <2>1 DEF is_ignored
  <2> QED
    BY <2>1, <2>2
<1>5. CASE SenderDies
  BY <1>5 DEF SenderDies
<1>6. CASE SenderBoots
  BY <1>6 DEF SenderBoots
<1>7. CASE RemoveMember
  BY <1>7 DEF RemoveMember
<1>8. CASE Join
  BY <1>8 DEF Join
<1>9. ASSUME NEW p \in network, LosePacket(p) PROVE Return'
  BY <1>9 DEF LosePacket
<1>10. ASSUME NEW p \in network, DelayPacket(p) PROVE Return'
  <2> DEFINE q == [p EXCEPT !.late = TRUE]
  <2>1. q.boot = p.boot /\ (q.live <=> p.live) /\ network' = (network \ {p}) \cup {q}
    BY <1>10 DEF DelayPacket, Packet
  <2>2. UNCHANGED <<in_liveset, member, boots, heard>>
    BY <1>10 DEF DelayPacket
  <2> HIDE DEF q
  <2> QED
    BY <1>10, <2>1, <2>2
<1>11. CASE Tick
  BY <1>11 DEF Tick
<1>12. CASE UNCHANGED hbvars
  BY <1>12 DEF hbvars
<1> HIDE DEF Return
<1> QED
  BY <1>1, <1>2, <1>3, <1>4, <1>5, <1>6, <1>7, <1>8, <1>9, <1>10, <1>11, <1>12
  DEF HbNext, SendStep, ReceiveStep
-----------------------------------------------------------------------------
(* A host that has not rebooted and whose packets arrive *)

FirstRun == boots = 1 /\ runs /\ lost = 0

(* How many packets older than the newest number n is, whether a number is *)
(* taken by a thread or travels, and how many were taken in this tick.     *)
Behind(n) == IF n <= sequence THEN sequence - n ELSE sequence + Modulus - n
Travels(n) == (\E t \in Sender : sending[t] = n) \/ \E p \in network : p.number = n
HasTaken(t) == IF t \in has_sent \/ sending[t] # NotSending THEN 1 ELSE 0
Taken == HasTaken("hb_send") + HasTaken("hb_send_now")

(* Either a packet of this tick was accepted, or the newest of them is on  *)
(* its way and will be.  The last number accepted need not be the newest:  *)
(* when the count wraps between the two packets of a tick, the older one   *)
(* is accepted after the newer one.                                        *)
Accepted == Behind(last) < Taken /\ age = 0
Acceptable == Travels(sequence) /\ Behind(last) \in 1 .. Taken + 1

Regular ==
    FirstRun =>
        /\ in_liveset /\ \A p \in network : p.live /\ ~ p.late
        /\ \A t \in has_sent : sending[t] = NotSending
        /\ \A n \in SequenceNumber : Travels(n) => Behind(n) < Taken
        /\ age <= 1
        /\ Taken = 0 => Behind(last) <= 1
        /\ Taken > 0 => Accepted \/ Acceptable

LEMMA NumbersFollow ==
  ASSUME sequence \in SequenceNumber, sequence' = (sequence + 1) % Modulus
  PROVE  /\ sequence' \in SequenceNumber
         /\ \A n \in SequenceNumber : Behind(n) < 7 => Behind(n)' = Behind(n) + 1
         /\ Behind(sequence)' = 0
<1>1. sequence' = IF sequence + 1 = Modulus THEN 0 ELSE sequence + 1
  BY NextNumber
<1>2. ASSUME NEW n \in SequenceNumber, Behind(n) < 7 PROVE Behind(n)' = Behind(n) + 1
  BY <1>1, <1>2, HeartbeatAssumption DEF SequenceNumber, Behind
<1> QED
  BY <1>1, <1>2, HeartbeatAssumption DEF SequenceNumber, Behind

(* A number that is newer by no more than three is accepted. *)
LEMMA NewestAccepted ==
  ASSUME last \in SequenceNumber, sequence \in SequenceNumber, Behind(last) \in 1 .. 3
  PROVE  is_newer(sequence)
  BY Newer, HeartbeatAssumption DEF SequenceNumber, Behind

LEMMA TakenBounds == Taken \in 0 .. 2
  BY DEF Taken, HasTaken

LEMMA BehindType == ASSUME sequence \in SequenceNumber, NEW n \in SequenceNumber PROVE Behind(n) \in Nat
  BY HeartbeatAssumption DEF SequenceNumber, Behind

LEMMA RegularStep ==
  ASSUME HbTypes, Regular, [HbNext]_hbvars
  PROVE  Regular'
<1> SUFFICES ASSUME FirstRun' PROVE Regular'
  BY DEF Regular
<1>0. /\ sequence \in SequenceNumber /\ last \in SequenceNumber /\ NotSending \notin SequenceNumber
      /\ sending \in [Sender -> SequenceNumber \cup {NotSending}] /\ has_sent \subseteq Sender
      /\ \A p \in network : p.number \in SequenceNumber
      /\ age \in 0..T1 /\ lost \in Nat
  BY HeartbeatAssumption DEF HbTypes, HbTypeOK, Packet, NotSending, SequenceNumber
<1> USE DEF Regular, FirstRun
<1>1. ASSUME NEW t \in Sender, send_hb_number(t) PROVE Regular'
  <2>1. /\ sequence' = (sequence + 1) % Modulus /\ sending' = [sending EXCEPT ![t] = sequence']
        /\ runs /\ sending[t] = NotSending /\ t \notin has_sent
        /\ UNCHANGED <<boots, runs, in_liveset, has_sent, network, last, age, lost>>
    BY <1>1 DEF send_hb_number, receivervars
  <2>2. FirstRun
    BY <2>1
  <2>3. sequence' \in SequenceNumber /\ Behind(sequence)' = 0
        /\ \A n \in SequenceNumber : Behind(n) < 7 => Behind(n)' = Behind(n) + 1
    BY <1>0, <2>1, NumbersFollow
  <2>4. Taken' = Taken + 1 /\ Taken \in 0 .. 1
    BY <1>0, <2>1, <2>3 DEF Taken, HasTaken, Sender
  <2>5. /\ Travels(sequence)'
        /\ \A n \in SequenceNumber : Travels(n)' => Travels(n) \/ n = sequence'
    BY <1>0, <2>1 DEF Travels
  <2>6. \A n \in SequenceNumber : Travels(n)' => Behind(n)' < Taken'
    <3> SUFFICES ASSUME NEW n \in SequenceNumber, Travels(n)' PROVE Behind(n)' < Taken'
      OBVIOUS
    <3>1. CASE n = sequence'
      BY <2>3, <2>4, <3>1 DEF Behind
    <3>2. CASE Travels(n)
      BY <1>0, <2>2, <2>3, <2>4, <3>2, BehindType
    <3> QED
      BY <2>5, <3>1, <3>2
  <2>7. Behind(last) < 7 => Behind(last)' = Behind(last) + 1
    BY <1>0, <2>1, <2>3 DEF Behind
  <2>8. Behind(last) \in Nat
    BY <1>0, BehindType
  <2>9. Taken' > 0 => Accepted' \/ Acceptable'
    BY <2>1, <2>2, <2>4, <2>5, <2>7, <2>8 DEF Accepted, Acceptable
  <2>10. \A u \in has_sent' : sending'[u] = NotSending
    BY <1>0, <2>1, <2>2
  <2> QED
    BY <2>1, <2>2, <2>4, <2>6, <2>9, <2>10 DEF NotSending
<1>2. ASSUME NEW t \in Sender, send_hb(t) PROVE Regular'
  <2> DEFINE q == [number |-> sending[t], boot |-> boots, live |-> in_liveset, late |-> FALSE]
  <2>1. /\ sending[t] # NotSending /\ sending' = [sending EXCEPT ![t] = NotSending]
        /\ has_sent' = has_sent \cup {t} /\ network' = network \cup {q}
        /\ q.number = sending[t] /\ (q.live <=> in_liveset) /\ ~ q.late
        /\ UNCHANGED <<boots, runs, in_liveset, sequence, last, age, lost>>
    BY <1>2 DEF send_hb, receivervars
  <2> HIDE DEF q
  <2>2. FirstRun
    BY <2>1
  <2>3. Taken' = Taken
    BY <1>0, <2>1 DEF Taken, HasTaken, Sender, NotSending
  <2>4. \A n \in SequenceNumber : Travels(n)' <=> Travels(n)
    BY <1>0, <2>1 DEF Travels, NotSending
  <2>5. \A n \in SequenceNumber : Behind(n)' = Behind(n)
    BY <2>1 DEF Behind
  <2>6. Behind(last)' = Behind(last) /\ (Travels(sequence)' <=> Travels(sequence))
    BY <1>0, <2>1, <2>4 DEF Behind, Travels
  <2>7. \A u \in has_sent' : sending'[u] = NotSending
    BY <1>0, <2>1, <2>2
  <2>8. Accepted' \/ Acceptable' <=> Accepted \/ Acceptable
    BY <2>1, <2>3, <2>6 DEF Accepted, Acceptable
  <2> QED
    BY <2>1, <2>2, <2>3, <2>4, <2>5, <2>6, <2>7, <2>8 DEF NotSending
<1>3. CASE update_hbdomain
  <2>1. UNCHANGED <<boots, runs, in_liveset, sequence, sending, has_sent, network, age, lost>>
    BY <1>3 DEF update_hbdomain, sendervars
  <2>2. last' = last
    BY <1>0, <1>3, <2>1, HeartbeatAssumption DEF update_hbdomain
  <2> QED
    BY <2>1, <2>2 DEF Accepted, Acceptable, Behind, Travels, Taken, HasTaken
<1>4. ASSUME NEW p \in network, receive_hb(p) PROVE Regular'
  <2>1. /\ network' = network \ {p}
        /\ UNCHANGED <<boots, runs, in_liveset, sequence, sending, has_sent, lost>>
    BY <1>4 DEF receive_hb, sendervars
  <2>2. FirstRun /\ ~ is_ignored(p)
    BY <1>4, <2>1 DEF is_ignored
  <2>3. IF is_newer(p.number) THEN last' = p.number /\ age' = 0 ELSE last' = last /\ age' = age
    BY <1>4, <2>2 DEF receive_hb
  <2>4. p.number \in SequenceNumber /\ Travels(p.number)
    BY <1>0, <1>4 DEF Travels
  <2>5. Behind(p.number) < Taken
    BY <2>2, <2>4
  <2>6. Taken' = Taken /\ \A n \in SequenceNumber : Behind(n)' = Behind(n)
    BY <2>1 DEF Taken, HasTaken, Behind, NotSending
  <2>7. \A n \in SequenceNumber : /\ Travels(n)' => Travels(n)
                                  /\ Travels(n) /\ n # p.number => Travels(n)'
    BY <2>1 DEF Travels
  <2>8. Behind(last)' = IF is_newer(p.number) THEN Behind(p.number) ELSE Behind(last)
    BY <1>0, <2>1, <2>3, <2>4 DEF Behind
  <2>9. Accepted' \/ Acceptable'
    <3>1. CASE is_newer(p.number)
      BY <2>3, <2>5, <2>6, <2>8, <3>1 DEF Accepted
    <3>2. CASE ~ is_newer(p.number) /\ Accepted
      BY <2>3, <2>6, <2>8, <3>2 DEF Accepted
    <3>3. CASE ~ is_newer(p.number) /\ Acceptable
      <4>1. Behind(last) \in 1 .. 3
        BY <3>3, TakenBounds DEF Acceptable
      <4>2. p.number # sequence
        BY <1>0, <3>3, <4>1, NewestAccepted
      <4>3. Travels(sequence)'
        BY <1>0, <2>1, <2>7, <3>3, <4>2 DEF Acceptable, Travels
      <4> QED
        BY <2>6, <2>8, <3>3, <4>3 DEF Acceptable
    <3>4. Taken > 0
      BY <1>0, <2>4, <2>5, BehindType, TakenBounds
    <3> QED
      BY <2>2, <3>1, <3>2, <3>3, <3>4
  <2>10. Taken > 0
    BY <1>0, <2>4, <2>5, BehindType, TakenBounds
  <2>11. age' <= 1
    BY <1>0, <2>2, <2>3
  <2>12. \A n \in SequenceNumber : Travels(n)' => Behind(n)' < Taken'
    BY <2>2, <2>6, <2>7
  <2> QED
    BY <2>1, <2>2, <2>6, <2>9, <2>10, <2>11, <2>12 DEF NotSending
<1>5. CASE SenderDies
  BY <1>5 DEF SenderDies, FirstRun
<1>6. CASE SenderBoots
  BY <1>6 DEF SenderBoots, FirstRun, HbTypes, HbTypeOK
<1>7. CASE RemoveMember
  BY <1>7 DEF RemoveMember, sendervars, Accepted, Acceptable, Behind, Travels, Taken, HasTaken
<1>8. CASE Join
  <2>1. UNCHANGED <<boots, runs, sequence, sending, has_sent, network, last, age, lost>> /\ in_liveset'
    BY <1>8, Zenon DEF Join
  <2> QED
    BY <2>1 DEF Accepted, Acceptable, Behind, Travels, Taken, HasTaken
<1>9. ASSUME NEW p \in network, LosePacket(p) PROVE Regular'
  BY <1>9 DEF LosePacket, FirstRun, HbTypes, HbTypeOK
<1>10. ASSUME NEW p \in network, DelayPacket(p) PROVE Regular'
  BY <1>10 DEF DelayPacket, FirstRun, HbTypes, HbTypeOK
<1>11. CASE Tick
  <2>1. /\ runs /\ "hb_send" \in has_sent /\ \A t \in Sender : sending[t] = NotSending
        /\ \A p \in network : p.late
        /\ age' = IF age < T1 THEN age + 1 ELSE age
        /\ has_sent' = {}
        /\ UNCHANGED <<boots, runs, in_liveset, sequence, sending, network, last, lost>>
    BY <1>11 DEF Tick
  <2>2. FirstRun
    BY <2>1
  <2>3. network = {}
    BY <2>1, <2>2
  <2>4. Taken > 0
    BY <2>1 DEF Taken, HasTaken
  <2>5. \A n \in SequenceNumber : ~ Travels(n)
    BY <1>0, <2>1, <2>3 DEF Travels
  <2>6. Behind(last) < Taken /\ age = 0
    BY <1>0, <2>2, <2>4, <2>5 DEF Accepted, Acceptable
  <2>7. Taken' = 0
    BY <2>1 DEF Taken, HasTaken, Sender, NotSending
  <2>8. Behind(last)' <= 1 /\ age' <= 1
    BY <1>0, <2>1, <2>6, TakenBounds, BehindType, HeartbeatAssumption DEF Behind
  <2>9. \A n \in SequenceNumber : ~ Travels(n)'
    BY <2>1, <2>5 DEF Travels
  <2> QED
    BY <2>1, <2>2, <2>3, <2>7, <2>8, <2>9
<1>12. CASE UNCHANGED hbvars
  BY <1>12 DEF hbvars, Accepted, Acceptable, Behind, Travels, Taken, HasTaken
<1> HIDE DEF Regular, FirstRun
<1> QED
  BY <1>1, <1>2, <1>3, <1>4, <1>5, <1>6, <1>7, <1>8, <1>9, <1>10, <1>11, <1>12
  DEF HbNext, SendStep, ReceiveStep
-----------------------------------------------------------------------------
(* A host that comes back *)

(* Number n was taken in this tick and is not yet received. *)
Fresh(n) == (\E t \in Sender : sending[t] = n) \/ \E p \in network : ~ p.late /\ p.number = n

(* Since the receiver has forgotten the number, it accepts every packet    *)
(* but one that is numbered 0: then the next one follows.                  *)
ZeroThenOne == (sequence = 0 /\ Taken > 0) \/ (sequence = 1 /\ Taken = 2 /\ Fresh(1))

Forgotten ==
    /\ updated => last = 0
    /\ Fresh(0) => ZeroThenOne
    /\ "hb_send" \in has_sent => ZeroThenOne \/ \E p \in network : ~ p.late /\ p.number # 0
    /\ waiting <= T1 \/ (sequence = Taken /\ ~ Fresh(0))

Returns ==
    waiting > 0 =>
        /\ member = 0 /\ heard # boots
        /\ \A p \in network : p.late \/ p.boot = boots
        /\ \A t \in has_sent : sending[t] = NotSending
        /\ waiting <= T1 + 1
        /\ age < T1 => waiting <= age
        /\ age = T1 /\ runs => Forgotten

LEMMA ReturnsStep ==
  ASSUME HbTypes, Returns, [HbNext]_hbvars
  PROVE  Returns'
<1> SUFFICES ASSUME waiting' > 0 PROVE Returns'
  BY DEF Returns
<1>0. /\ sequence \in SequenceNumber /\ last \in SequenceNumber /\ NotSending \notin SequenceNumber
      /\ sending \in [Sender -> SequenceNumber \cup {NotSending}] /\ has_sent \subseteq Sender
      /\ \A p \in network : p.number \in SequenceNumber
      /\ age \in 0..T1 /\ waiting \in Nat /\ {0, 1, 2} \subseteq SequenceNumber
  BY HeartbeatAssumption DEF HbTypes, HbTypeOK, Packet, NotSending, SequenceNumber
<1> USE DEF Returns
<1>1. ASSUME NEW t \in Sender, send_hb_number(t) PROVE Returns'
  <2>1. /\ sequence' = (sequence + 1) % Modulus /\ sending' = [sending EXCEPT ![t] = sequence']
        /\ sending[t] = NotSending /\ t \notin has_sent
        /\ UNCHANGED <<boots, runs, has_sent, network, updated, last, age, heard, member, waiting>>
    BY <1>1 DEF send_hb_number, receivervars
  <2>2. sequence' = IF sequence + 1 = Modulus THEN 0 ELSE sequence + 1
    BY <1>0, <2>1, NextNumber
  <2>3. Taken' = Taken + 1 /\ Taken \in 0 .. 1
    BY <1>0, <2>1, <2>2, HeartbeatAssumption DEF Taken, HasTaken, Sender, NotSending, SequenceNumber
  <2>4. \A n \in SequenceNumber : Fresh(n)' <=> Fresh(n) \/ n = sequence'
    BY <1>0, <2>1 DEF Fresh, NotSending
  <2>5. \A u \in has_sent' : sending'[u] = NotSending
    BY <1>0, <2>1
  <2>6. ASSUME age = T1, runs PROVE Forgotten'
    <3>0. Forgotten
      BY <2>1, <2>6
    <3>1. CASE sequence' = 0
      <4>1. ZeroThenOne'
        BY <2>3, <3>1 DEF ZeroThenOne
      <4>2. waiting <= T1
        BY <1>0, <2>2, <2>3, <3>0, <3>1, HeartbeatAssumption DEF Forgotten, SequenceNumber
      <4> QED
        BY <2>1, <3>0, <4>1, <4>2 DEF Forgotten
    <3>2. CASE sequence' = sequence + 1
      <4>1. sequence' # 0
        BY <1>0, <3>2 DEF SequenceNumber
      <4>2. ZeroThenOne => ZeroThenOne'
        BY <1>0, <2>1, <2>3, <2>4, <3>2 DEF ZeroThenOne
      <4>3. Fresh(0)' => Fresh(0)
        BY <1>0, <2>4, <4>1
      <4>4. waiting <= T1 \/ (sequence' = Taken' /\ ~ Fresh(0)')
        BY <2>3, <3>0, <3>2, <4>3 DEF Forgotten
      <4> QED
        BY <2>1, <3>0, <4>2, <4>3, <4>4 DEF Forgotten
    <3> QED
      BY <2>2, <3>1, <3>2
  <2> QED
    BY <2>1, <2>5, <2>6 DEF NotSending
<1>2. ASSUME NEW t \in Sender, send_hb(t) PROVE Returns'
  <2> DEFINE q == [number |-> sending[t], boot |-> boots, live |-> in_liveset, late |-> FALSE]
  <2>1. /\ sending[t] # NotSending /\ sending' = [sending EXCEPT ![t] = NotSending]
        /\ has_sent' = has_sent \cup {t} /\ network' = network \cup {q}
        /\ q.number = sending[t] /\ ~ q.late /\ q.boot = boots
        /\ UNCHANGED <<boots, runs, sequence, updated, last, age, heard, member, waiting>>
    BY <1>2 DEF send_hb, receivervars
  <2> HIDE DEF q
  <2>2. Taken' = Taken
    BY <1>0, <2>1 DEF Taken, HasTaken, Sender, NotSending
  <2>3. \A n \in SequenceNumber : Fresh(n)' <=> Fresh(n)
    BY <1>0, <2>1 DEF Fresh, NotSending
  <2>4. \A u \in has_sent' : sending'[u] = NotSending
    BY <1>0, <2>1
  <2>5. ASSUME age = T1, runs PROVE Forgotten'
    <3>0. Forgotten
      BY <2>1, <2>5
    <3>1. ZeroThenOne' <=> ZeroThenOne
      BY <1>0, <2>1, <2>2, <2>3 DEF ZeroThenOne
    <3>2. "hb_send" \in has_sent' => ZeroThenOne' \/ \E p \in network' : ~ p.late /\ p.number # 0
      <4>1. CASE t = "hb_send" /\ sending[t] = 0
        BY <1>0, <2>1, <3>0, <3>1, <4>1 DEF Forgotten, Fresh
      <4>2. CASE t = "hb_send" /\ sending[t] # 0
        BY <2>1, <4>2
      <4>3. CASE t # "hb_send"
        BY <2>1, <3>0, <3>1, <4>3 DEF Forgotten
      <4> QED
        BY <4>1, <4>2, <4>3
    <3> QED
      BY <1>0, <2>1, <2>2, <2>3, <3>0, <3>1, <3>2 DEF Forgotten
  <2> QED
    BY <2>1, <2>4, <2>5 DEF NotSending
<1>3. CASE update_hbdomain
  <2>1. /\ UNCHANGED <<boots, runs, sequence, sending, has_sent, network, age, heard, member, waiting>>
        /\ last' = IF age < T1 THEN last ELSE 0
    BY <1>3 DEF update_hbdomain, sendervars
  <2>2. ASSUME age = T1, runs PROVE Forgotten'
    BY <1>0, <2>1, <2>2, HeartbeatAssumption DEF Forgotten, ZeroThenOne, Fresh, Taken, HasTaken, NotSending
  <2> QED
    BY <2>1, <2>2 DEF NotSending
<1>4. ASSUME NEW p \in network, receive_hb(p) PROVE Returns'
  <2>1. /\ network' = network \ {p} /\ updated
        /\ UNCHANGED <<boots, runs, sequence, sending, has_sent, member>>
        /\ waiting' = waiting /\ heard' # boots /\ ~ p.late
    BY <1>4 DEF receive_hb, sendervars
  <2>2. p.boot = boots /\ ~ is_ignored(p)
    BY <1>4, <2>1 DEF is_ignored
  <2>3. ~ is_newer(p.number) /\ UNCHANGED <<last, age, heard>>
    BY <1>4, <2>1, <2>2 DEF receive_hb
  <2>4. ASSUME age = T1, runs PROVE Forgotten'
    <3>0. Forgotten
      BY <2>1, <2>4
    <3>1. p.number = 0
      BY <1>0, <2>1, <2>3, <3>0, HeartbeatAssumption DEF Forgotten, is_newer, SequenceNumber
    <3>2. Fresh(0)
      BY <2>1, <3>1 DEF Fresh
    <3>3. ZeroThenOne'
      BY <1>0, <2>1, <3>0, <3>1, <3>2 DEF Forgotten, ZeroThenOne, Fresh, Taken, HasTaken, NotSending
    <3> QED
      BY <2>1, <2>3, <3>0, <3>1, <3>2, <3>3 DEF Forgotten
  <2> QED
    BY <2>1, <2>3, <2>4 DEF NotSending
<1>5. CASE SenderDies
  <2>1. /\ ~ runs' /\ sending' = [t \in Sender |-> NotSending]
        /\ UNCHANGED <<boots, has_sent, network, age, heard, member, waiting>>
    BY <1>5 DEF SenderDies, receivervars
  <2> QED
    BY <1>0, <2>1 DEF NotSending
<1>6. CASE SenderBoots
  BY <1>6 DEF SenderBoots
<1>7. CASE RemoveMember
  BY <1>7 DEF RemoveMember
<1>8. CASE Join
  BY <1>8 DEF Join
<1>9. ASSUME NEW p \in network, LosePacket(p) PROVE Returns'
  BY <1>9 DEF LosePacket
<1>10. ASSUME NEW p \in network, DelayPacket(p) PROVE Returns'
  BY <1>10 DEF DelayPacket
<1>11. CASE Tick
  <2>1. /\ runs /\ heard # boots /\ member = 0 /\ waiting' = waiting + 1
        /\ "hb_send" \in has_sent /\ \A t \in Sender : sending[t] = NotSending
        /\ \A p \in network : p.late
        /\ age' = IF age < T1 THEN age + 1 ELSE age
        /\ has_sent' = {} /\ ~ updated'
        /\ UNCHANGED <<boots, runs, sequence, sending, network, heard, member>>
    BY <1>11 DEF Tick
  <2>2. Taken' = 0 /\ \A n \in SequenceNumber : ~ Fresh(n) /\ ~ Fresh(n)'
    BY <1>0, <2>1 DEF Taken, HasTaken, Sender, NotSending, Fresh
  <2>3. CASE waiting = 0 \/ age < T1
    <3>1. waiting' <= age' /\ waiting' <= T1
      BY <1>0, <2>1, <2>3, HeartbeatAssumption
    <3>2. Forgotten'
      BY <1>0, <2>1, <2>2, <3>1 DEF Forgotten
    <3> QED
      BY <1>0, <2>1, <3>1, <3>2, HeartbeatAssumption DEF NotSending
  <2>4. CASE waiting > 0 /\ age = T1
    <3>0. Forgotten
      BY <2>1, <2>4
    <3>1. ZeroThenOne
      BY <2>1, <3>0 DEF Forgotten
    <3>2. sequence = 0 /\ Taken > 0
      BY <1>0, <2>2, <3>1 DEF ZeroThenOne
    <3>3. waiting <= T1
      BY <3>0, <3>2 DEF Forgotten
    <3>4. Forgotten'
      BY <1>0, <2>1, <2>2, <3>2 DEF Forgotten
    <3> QED
      BY <1>0, <2>1, <2>4, <3>3, <3>4, HeartbeatAssumption
  <2>5. (waiting = 0 \/ age < T1) \/ (waiting > 0 /\ age = T1)
    BY <1>0, HeartbeatAssumption
  <2> HIDE DEF Returns
  <2> QED
    BY <2>3, <2>4, <2>5
<1>12. CASE UNCHANGED hbvars
  BY <1>12 DEF hbvars, Forgotten, ZeroThenOne, Fresh, Taken, HasTaken
<1> HIDE DEF Returns
<1> QED
  BY <1>1, <1>2, <1>3, <1>4, <1>5, <1>6, <1>7, <1>8, <1>9, <1>10, <1>11, <1>12
  DEF HbNext, SendStep, ReceiveStep

-----------------------------------------------------------------------------
(* The inductive invariant of the heartbeat. *)
HbInv == HbTypes /\ Return /\ Regular /\ Returns

LEMMA HbInvInit == HbInit => HbInv
<1> SUFFICES ASSUME HbInit PROVE HbInv
  OBVIOUS
<1> USE HeartbeatAssumption DEF HbInit
<1>1. HbTypes
  <2>1. /\ sending \in [Sender -> SequenceNumber \cup {NotSending}] /\ has_sent \subseteq Sender
        /\ network \subseteq Packet /\ \A p \in network : p.boot \in 1..boots
    OBVIOUS
  <2>2. /\ boots \in 1..MaxReboots + 1 /\ {heard, member} \subseteq 0..boots
        /\ {sequence, last} \subseteq SequenceNumber
        /\ age \in 0..T1 /\ waiting \in Nat /\ lost \in 0..MaxLost
    BY DEF SequenceNumber
  <2>3. {runs, in_liveset, hbdomain, updated} \subseteq BOOLEAN /\ runs
    BY Zenon
  <2> QED
    BY <2>1, <2>2, <2>3 DEF HbTypes, HbTypeOK
<1>2. Return
  BY DEF Return, NoEarlyReturn
<1>3. Regular
  BY DEF Regular, Travels, Behind, Taken, HasTaken, NotSending, SequenceNumber, Sender
<1>4. Returns
  BY DEF Returns
<1> QED
  BY <1>1, <1>2, <1>3, <1>4 DEF HbInv

LEMMA HbInvStep == HbInv /\ [HbNext]_hbvars => HbInv'
  BY HbTypesStep, ReturnStep, RegularStep, ReturnsStep DEF HbInv

LEMMA HbInvariant == HbSpec => []HbInv
  BY HbInvInit, HbInvStep, PTL DEF HbSpec

(* The counters, packets and flags of the heartbeat keep their types.      *)
THEOREM HbTypeCorrect == HbSpec => []HbTypeOK
<1>1. HbInv => HbTypeOK
  BY DEF HbInv, HbTypes
<1> QED
  BY <1>1, HbInvariant, PTL

(* Whatever the network loses, delays and reorders, and however often the  *)
(* sender reboots, receive_hb() takes nothing from an incarnation that is  *)
(* newer than the one in the receiver's liveset.                           *)
THEOREM RebootedNotHeard == HbSpec => []NoEarlyReturn
<1>1. HbInv => NoEarlyReturn
  BY DEF HbInv, Return
<1> QED
  BY <1>1, HbInvariant, PTL

(* A host whose packets arrive is never dropped by update_hbdomain(), for  *)
(* any width of the sequence numbers from three bits and any timeout from  *)
(* two intervals: neither when the count wraps nor when the packets of two *)
(* threads overtake each other.                                            *)
THEOREM RunningHostHeard == HbSpec => []NeverDeaf
<1>1. HbInv => NeverDeaf
  BY HeartbeatAssumption DEF HbInv, HbTypes, HbTypeOK, Regular, FirstRun, NeverDeaf
<1> QED
  BY <1>1, HbInvariant, PTL

(* A rebooted host that was dropped from the liveset is heard within T1    *)
(* and two packets, when none of its packets is lost or delayed, although  *)
(* its numbers begin below what the receiver has seen.                     *)
THEOREM ReturnHeardSoon == HbSpec => []HeardSoon
<1>1. HbInv => HeardSoon
  BY HeartbeatAssumption DEF HbInv, HbTypes, HbTypeOK, Returns, HeardSoon
<1> QED
  BY <1>1, HbInvariant, PTL
=============================================================================
