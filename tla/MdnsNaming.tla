----------------------------- MODULE MdnsNaming -----------------------------
(***************************************************************************)
(* Two or more devices that run this responder and want the same host name  *)
(* (src/managed_components/espressif__mdns/mdns_receive.c and mdns_pcb.c).  *)
(* Each probes for its name three times, announces it three times and then  *)
(* answers those who probe for it.  A device that hears of an address       *)
(* larger than its own under its name gives way: it takes the next name if  *)
(* it is still probing, and probes once more for the one it has if it is    *)
(* not.  What a smaller address says it ignores, but it answers a probe.    *)
(* Devices are powered on and off at any time and packets are lost.  Each   *)
(* has one interface with one protocol, an address that no other has, and   *)
(* no services (MdnsResponder is about these); a device is its address.     *)
(***************************************************************************)
EXTENDS Integers, Sequences, FiniteSets

CONSTANTS
    Device,       \* the addresses, as numbers
    MaxStarts,    \* bound: power-ons
    MaxLost,      \* bound: packets lost on the way to a device
    MaxInbox      \* bound: packets on the way to a device when it, or another, sends

ASSUME DeviceAssumption == Device \subseteq Nat /\ IsFiniteSet(Device)
ASSUME BoundsAssumption == MaxStarts \in Nat /\ MaxLost \in Nat

VARIABLES
    state,     \* of the pcb of each device
    name,      \* 1 is the name it was given, 2 that with "-2" at its end, and so on
    inbox,     \* the packets on the way to each device
    starts, lost

vars == <<state, name, inbox, starts, lost>>

PCB_OFF == 0
PCB_PROBE_1 == 3
PCB_PROBE_3 == 5
PCB_ANNOUNCE_1 == 6
PCB_ANNOUNCE_3 == 8
PCB_RUNNING == 9

On(d) == state[d] # PCB_OFF
Probing(d) == state[d] \in PCB_PROBE_1..PCB_PROBE_3
mdns_priv_pcb_is_after_probing(d) == state[d] > PCB_PROBE_3

Packets == [probe : BOOLEAN, name : Nat \ {0}, from : Device, unicast : BOOLEAN]

TypeOK ==
    /\ state \in [Device -> {PCB_OFF} \cup PCB_PROBE_1..PCB_RUNNING]
    /\ name \in [Device -> Nat \ {0}]
    /\ inbox \in [Device -> Seq(Packets)]
    /\ starts \in 0..MaxStarts /\ lost \in 0..MaxLost

Init ==
    /\ state = [d \in Device |-> PCB_OFF] /\ name = [d \in Device |-> 1]
    /\ inbox = [d \in Device |-> <<>>]
    /\ starts = 0 /\ lost = 0

Room == \A d \in Device : Len(inbox[d]) < MaxInbox

(* The packet reaches those it is for, or some of them.                     *)
Transmit(box, p, to) ==
    \E missed \in SUBSET to :
        /\ lost + Cardinality(missed) <= MaxLost /\ lost' = lost + Cardinality(missed)
        /\ inbox' = [d \in Device |-> IF d \in to \ missed THEN Append(box[d], p) ELSE box[d]]

Others(d) == {o \in Device \ {d} : On(o)}

-----------------------------------------------------------------------------
PowerOn(d) ==
    /\ ~On(d) /\ starts < MaxStarts /\ starts' = starts + 1
    /\ state' = [state EXCEPT ![d] = PCB_PROBE_1] /\ name' = [name EXCEPT ![d] = 1]
    /\ UNCHANGED <<inbox, lost>>

(* Not after the last power-on, which bounds the model                      *)
PowerOff(d) ==
    /\ On(d) /\ starts < MaxStarts
    /\ state' = [state EXCEPT ![d] = PCB_OFF] /\ inbox' = [inbox EXCEPT ![d] = <<>>]
    /\ UNCHANGED <<name, starts, lost>>

(* The packet that waits is a probe or an announcement, by the state.  The  *)
(* first probe asks for an answer to the device alone.                      *)
mdns_priv_pcb_schedule_tx_packet(d) ==
    /\ On(d) /\ state[d] # PCB_RUNNING /\ Room
    /\ Transmit(inbox, [probe |-> Probing(d), name |-> name[d], from |-> d,
                        unicast |-> state[d] = PCB_PROBE_1], Others(d))
    /\ state' = [state EXCEPT ![d] = @ + 1]
    /\ UNCHANGED <<name, starts>>

-----------------------------------------------------------------------------
(* Reading a packet                                                         *)

(* 1 when they win                                                          *)
check_a_collision(d, ip) == IF ip > d THEN 1 ELSE IF ip < d THEN -1 ELSE 0

BugMangle(n) == n

mangle_name(n) == n + 1

is_ours(d, n) == n = name[d]

(* The address in the packet is under our name, and they win.               *)
BugLoses(d, p) == check_a_collision(d, p.from) = 1

Loses(d, p) == is_ours(d, p.name) /\ check_a_collision(d, p.from) = 1

(* All that waits is dropped, and the name probed for from the start.       *)
mdns_priv_restart_all_pcbs(d) == state' = [state EXCEPT ![d] = PCB_PROBE_1]

BugAddressCollision(d, p) ==
    \/ /\ Loses(d, p) /\ Probing(d)
       /\ name' = [name EXCEPT ![d] = mangle_name(@)] /\ mdns_priv_restart_all_pcbs(d)
    \/ ~(Loses(d, p) /\ Probing(d)) /\ UNCHANGED <<state, name>>

AddressCollision(d, p) ==
    \/ /\ Loses(d, p) /\ Probing(d)
       /\ name' = [name EXCEPT ![d] = mangle_name(@)] /\ mdns_priv_restart_all_pcbs(d)
    \/ /\ Loses(d, p) /\ ~Probing(d)
       /\ mdns_priv_restart_all_pcbs(d) /\ UNCHANGED name
    \/ ~Loses(d, p) /\ UNCHANGED <<state, name>>

(* One who probes is answered at once, unless it has just won.              *)
Answers(d, p) ==
    p.probe /\ is_ours(d, p.name) /\ ~Loses(d, p) /\ mdns_priv_pcb_is_after_probing(d)

mdns_parse_packet(d) ==
    /\ On(d) /\ inbox[d] # <<>>
    /\ LET p == Head(inbox[d])
           rest == [inbox EXCEPT ![d] = Tail(@)]
       IN  /\ AddressCollision(d, p)
           /\ \/ /\ Answers(d, p)
                 /\ Transmit(rest, [probe |-> FALSE, name |-> name[d], from |-> d, unicast |-> FALSE],
                             IF p.unicast THEN Others(d) \cap {p.from} ELSE Others(d))
              \/ /\ ~Answers(d, p)
                 /\ inbox' = rest /\ UNCHANGED lost
    /\ UNCHANGED starts

-----------------------------------------------------------------------------
Next ==
    \E d \in Device :
        PowerOn(d) \/ PowerOff(d) \/ mdns_priv_pcb_schedule_tx_packet(d) \/ mdns_parse_packet(d)

(* Some device goes on, of those that have something to send or to read.    *)
Step == \E d \in Device : mdns_priv_pcb_schedule_tx_packet(d) \/ mdns_parse_packet(d)

Spec == Init /\ [][Next]_vars /\ WF_vars(Step)

-----------------------------------------------------------------------------
Quiet == \A d \in Device : state[d] \in {PCB_OFF, PCB_RUNNING} /\ inbox[d] = <<>>

(* When all is quiet no two devices have the same name, whatever the order  *)
(* in which they were powered on and off, as long as no more than two       *)
(* packets are lost: a third loss can take the last of the probes that would*)
(* have been answered (mdns_parse_packet).                                  *)
QuietMeansDistinct ==
    Quiet /\ lost < 3 => \A d, e \in Device : d # e /\ On(d) /\ On(e) => name[d] # name[e]

(* No device gives way more often than there are larger addresses: the      *)
(* largest keeps the name it was given.                                     *)
KeepsTheLowestName ==
    \A d \in Device : name[d] <= 1 + Cardinality({e \in Device : e > d})

(* Probing and giving way come to an end.                                   *)
Settles == <>[]Quiet
=============================================================================
