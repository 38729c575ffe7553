----------------------------- MODULE Heartbeat -----------------------------
(***************************************************************************)
(* The heartbeat of one host as another receives it (heartbeat.c): numbered*)
(* packets, sent by two threads, over a network that loses, delays and     *)
(* reorders them; the sequence number the receiver accepts next; the time  *)
(* T1 after which a silent host is dropped from the domain; and a sender   *)
(* that reboots and starts to count again.                                 *)
(*                                                                         *)
(* Time passes in ticks of t1: hb_send sends once per tick, and a packet   *)
(* arrives within the tick unless it is lost or delayed.  Sequence numbers *)
(* have Width bits instead of 32.                                          *)
(***************************************************************************)
EXTENDS Naturals, FiniteSets

CONSTANTS
    Width,       \* bits of a sequence number
    T1,          \* ticks until a silent host is dropped
    MaxReboots,  \* bound: reboots of the sender
    MaxLost      \* bound: packets lost or delayed

Modulus == 2 ^ Width
SequenceNumber == 0 .. Modulus - 1

(* Three bits are enough for the two packets a tick.  HeartbeatTimeout is  *)
(* a multiple of HeartbeatInterval (30 and 4 seconds by default).          *)
ASSUME HeartbeatAssumption ==
    /\ Width \in Nat /\ Modulus \in Nat /\ Modulus >= 8
    /\ T1 \in Nat \ {0, 1} /\ MaxReboots \in Nat /\ MaxLost \in Nat

Sender == {"hb_send", "hb_send_now"}    \* the threads that call send_hb()
NotSending == Modulus

VARIABLES
    boots,       \* the sender's incarnation, from 1; its packets carry it here
    runs,        \* the sender is up
    in_liveset,  \* the sender's current_liveset has the sender
    sequence,    \* the sender's own hbvar.sequence
    sending,     \* sending[t]: the number thread t has taken
    has_sent,    \* the threads that have sent in this tick, at most once each
    network,     \* packets that travel
    updated,     \* the receiver is past update_hbdomain(), in select()
    last,        \* hbvar.sequence[sender] of the receiver
    age,         \* ticks since time_last_HB[sender]
    heard,       \* the incarnation the receiver's raw data is from, 0 for none
    hbdomain,    \* the sender is in the receiver's hbdomain
    member,      \* the incarnation in the receiver's current_liveset, or 0
    waiting,     \* ticks since this incarnation has been up and could be heard
    lost         \* packets lost or delayed so far

hbvars == <<boots, runs, in_liveset, sequence, sending, has_sent, network, updated, last, age,
            heard, hbdomain, member, waiting, lost>>
sendervars == <<boots, runs, in_liveset, sequence, sending, has_sent>>
receivervars == <<updated, last, age, heard, hbdomain, member>>

(* A liveset of both; the count soon wraps. *)
HbInit ==
    /\ boots = 1 /\ runs = TRUE /\ in_liveset = TRUE
    /\ sequence = 0 /\ last = 0
    /\ sending = [t \in Sender |-> NotSending] /\ has_sent = {}
    /\ network = {}
    /\ updated = TRUE /\ age = 0 /\ heard = 1 /\ hbdomain = TRUE /\ member = 1
    /\ waiting = 0 /\ lost = 0

-----------------------------------------------------------------------------

(* send_hb(): the number is taken first, ... *)
send_hb_number(t) ==
    /\ runs /\ sending[t] = NotSending
    /\ t \notin has_sent
    /\ sequence' = (sequence + 1) % Modulus
    /\ sending' = [sending EXCEPT ![t] = sequence']
    /\ UNCHANGED <<boots, runs, in_liveset, has_sent, network, receivervars, waiting, lost>>

(* ... then the contents, and the packet is sent.                          *)
send_hb(t) ==
    /\ runs /\ sending[t] # NotSending
    /\ network' = network \cup {[number |-> sending[t], boot |-> boots, live |-> in_liveset, late |-> FALSE]}
    /\ sending' = [sending EXCEPT ![t] = NotSending]
    /\ has_sent' = has_sent \cup {t}
    /\ UNCHANGED <<boots, runs, in_liveset, sequence, receivervars, waiting, lost>>

(* The host is reset, and later starts to count from 0. *)
SenderDies ==
    /\ runs /\ boots <= MaxReboots
    /\ runs' = FALSE
    /\ sending' = [t \in Sender |-> NotSending]
    /\ UNCHANGED <<boots, in_liveset, sequence, has_sent, network, receivervars, waiting, lost>>

SenderBoots ==
    /\ ~ runs
    /\ runs' = TRUE /\ boots' = boots + 1 /\ in_liveset' = FALSE
    /\ sequence' = 0 /\ has_sent' = {}
    /\ waiting' = 0
    /\ UNCHANGED <<sending, network, receivervars, lost>>

-----------------------------------------------------------------------------
(* Mutant: no thought of the wrap. *)
is_newer_plain(number) == last < number

(* The test of receive_hb(), in the arithmetic of unsigned integers. *)
is_newer(number) ==
    \/ last < number
    \/ (last + Modulus - number) % Modulus > Modulus \div 2

(* Mutant: a packet of a host that is not in its own liveset is used. *)
is_ignored_never(p) == FALSE

(* A host that the receiver has in its liveset, and that says it is not in *)
(* it, has rebooted: the fault handler has to remove the old one first.    *)
is_ignored(p) == ~ p.live /\ member # 0

receive_hb(p) ==
    /\ p \in network /\ updated /\ updated' = FALSE
    /\ network' = network \ {p}
    /\ IF is_newer(p.number)
       THEN /\ last' = p.number
            /\ IF is_ignored(p)
               THEN UNCHANGED <<age, heard>>
               ELSE age' = 0 /\ heard' = p.boot
       ELSE UNCHANGED <<last, age, heard>>
    /\ waiting' = IF heard' = boots \/ p.late THEN 0 ELSE waiting
    /\ UNCHANGED <<sendervars, hbdomain, member, lost>>

(* Mutant: the number of a silent host is remembered. *)
update_hbdomain_keep ==
    /\ ~ updated /\ updated' = TRUE
    /\ hbdomain' = (age < T1)
    /\ UNCHANGED <<sendervars, network, last, age, heard, member, waiting, lost>>

(* update_hbdomain(), once in every round of the receiver's loop: a silent *)
(* host is dropped, and whatever number it comes back with is accepted.    *)
update_hbdomain ==
    /\ ~ updated /\ updated' = TRUE
    /\ hbdomain' = (age < T1)
    /\ last' = IF age < T1 THEN last ELSE 0
    /\ UNCHANGED <<sendervars, network, age, heard, member, waiting, lost>>

(* The fault handler removes a host that is gone from both domains (its    *)
(* section of the State-File is not updated either) ...                    *)
RemoveMember ==
    /\ member # 0 /\ ~ hbdomain /\ (~ runs \/ boots # member)
    /\ member' = 0
    /\ waiting' = 0
    /\ UNCHANGED <<sendervars, network, updated, last, age, heard, hbdomain, lost>>

(* ... and a new one joins once it is heard (module Join).                 *)
Join ==
    /\ member = 0 /\ runs /\ hbdomain /\ heard = boots
    /\ member' = boots /\ in_liveset' = TRUE
    /\ UNCHANGED <<boots, runs, sequence, sending, has_sent, network, updated, last,
                   age, heard, hbdomain, waiting, lost>>

-----------------------------------------------------------------------------
(* The network. *)
LosePacket(p) ==
    /\ p \in network /\ lost < MaxLost
    /\ network' = network \ {p}
    /\ lost' = lost + 1 /\ waiting' = 0
    /\ UNCHANGED <<sendervars, receivervars>>

DelayPacket(p) ==
    /\ p \in network /\ lost < MaxLost /\ ~ p.late
    /\ network' = (network \ {p}) \cup {[p EXCEPT !.late = TRUE]}
    /\ lost' = lost + 1 /\ waiting' = 0
    /\ UNCHANGED <<sendervars, receivervars>>

(* The receiver has looked at the clock and at what has arrived, and the   *)
(* sender has sent.                                                        *)
Tick ==
    /\ runs => "hb_send" \in has_sent /\ \A t \in Sender : sending[t] = NotSending
    /\ \A p \in network : p.late
    /\ updated /\ updated' = FALSE
    /\ age' = IF age < T1 THEN age + 1 ELSE age
    /\ has_sent' = {}
    /\ waiting' = IF runs /\ heard # boots /\ member = 0 THEN waiting + 1 ELSE 0
    /\ UNCHANGED <<boots, runs, in_liveset, sequence, sending, network, last, heard, hbdomain, member, lost>>
-----------------------------------------------------------------------------
SendStep == \E t \in Sender : send_hb_number(t) \/ send_hb(t)
ReceiveStep == update_hbdomain \/ \E p \in network : receive_hb(p)

HbNext ==
    \/ SendStep \/ ReceiveStep \/ SenderDies \/ SenderBoots \/ RemoveMember \/ Join
    \/ (\E p \in network : LosePacket(p) \/ DelayPacket(p)) \/ Tick

HbSpec == HbInit /\ [][HbNext]_hbvars

-----------------------------------------------------------------------------
Packet == [number : SequenceNumber, boot : Nat, live : BOOLEAN, late : BOOLEAN]

(* The values of the counters, packets and domains. *)
HbTypeOK ==
    /\ boots \in 1..MaxReboots + 1 /\ {heard, member} \subseteq 0..boots
    /\ {runs, in_liveset, hbdomain, updated} \subseteq BOOLEAN
    /\ {sequence, last} \subseteq SequenceNumber
    /\ sending \in [Sender -> SequenceNumber \cup {NotSending}] /\ has_sent \subseteq Sender
    /\ network \subseteq Packet
    /\ age \in 0..T1 /\ waiting \in Nat /\ lost \in 0..MaxLost

(* A host that runs and whose packets arrive is never dropped: not when    *)
(* its sequence number wraps, nor when two of its threads send at once and *)
(* the packets arrive in the wrong order.                                  *)
NeverDeaf == boots = 1 /\ runs /\ lost = 0 => age < T1

(* A host that has rebooted counts from 0 again, which is older than what  *)
(* the receiver has seen; once it has been dropped from the liveset it is  *)
(* heard within T1 and two packets, when none is lost.  (Number 0 is not   *)
(* newer than a forgotten one.)                                            *)
HeardSoon == waiting <= T1 + 2

(* While a rebooted host is still in the receiver's liveset as the one it  *)
(* was, nothing it says is used.                                           *)
NoEarlyReturn == member # 0 => heard <= member
=============================================================================
