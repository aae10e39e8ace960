---------------------------- MODULE MdnsTransmit ----------------------------
(***************************************************************************)
(* How the mDNS component claims the name of this device and answers for    *)
(* it (src/managed_components/espressif__mdns/mdns_pcb.c and the queue of   *)
(* mdns_send.c).  Per interface and protocol (a "pcb") the name is probed   *)
(* three times, announced three times and then answered for.  Packets wait  *)
(* in one list ordered by the time they are to be sent; the timer pushes    *)
(* those that are due to the service task as actions, and the service task  *)
(* sends a packet only if it is then at the head of the list.               *)
(*                                                                          *)
(* The firmware registers no service, so a pcb only ever probes for the     *)
(* name; without Ethernet no interface duplicates another.                  *)
(***************************************************************************)
EXTENDS Naturals, Sequences

CONSTANTS
    Pcb,        \* the protocols of the interfaces
    NoPcb,      \* the pcb of a packet that is not allocated
    Packet,     \* the addresses at which the heap can place a packet
    MaxQueue,   \* MDNS_ACTION_QUEUE_LEN
    MaxEvents   \* bound: system events and packets received

ASSUME NoPcbAssumption == NoPcb \notin Pcb
ASSUME LimitsAssumption == MaxQueue \in Nat /\ MaxEvents \in Nat

VARIABLES
    hostname,        \* whether the device has a name
    pcb,             \* s_pcbs, with what the network says of them
    packet,          \* what is at each address
    s_action_queue,  \* the actions waiting for the service task
    action,          \* the one it has taken and not executed yet, or none
    walk,            \* the due packets the timer still has to push
    events,          \* events so far
    probes,          \* history: the probes each pcb sent since it began to probe
    starved,         \* history: the pcbs that had no memory for a packet of their own since then
    refused          \* history: whether the timer failed to push a packet

vars == <<hostname, pcb, packet, s_action_queue, action, walk, events, probes, starved, refused>>

PCB_OFF == 0
PCB_PROBE_1 == 3
PCB_PROBE_3 == 5
PCB_ANNOUNCE_1 == 6
PCB_ANNOUNCE_3 == 8
PCB_RUNNING == 9

Pcbs == [ready : BOOLEAN, state : {PCB_OFF} \cup PCB_PROBE_1..PCB_RUNNING, running : BOOLEAN]

(* A packet is in the list when it has a pcb.  Those that are due come      *)
(* first, in the order in which they became due: ahead holds the due ones   *)
(* that come before.                                                        *)
Packets == [pcb : Pcb \cup {NoPcb}, kind : {"probe", "announce", "response"},
            queued : BOOLEAN, due : BOOLEAN, ahead : SUBSET Packet]

Actions == [type : {"TX"}, packet : Packet]
             \cup [type : {"QUESTION", "CONFLICT", "ENABLE", "DISABLE", "ANNOUNCE"}, pcb : Pcb]
             \cup [type : {"HOSTNAME_SET"}]

TypeOK ==
    /\ hostname \in BOOLEAN
    /\ pcb \in [Pcb -> Pcbs]
    /\ packet \in [Packet -> Packets]
    /\ s_action_queue \in Seq(Actions) /\ Len(s_action_queue) <= MaxQueue
    /\ action \in Seq(Actions) /\ Len(action) <= 1
    /\ walk \subseteq Packet
    /\ events \in 0..MaxEvents
    /\ probes \in [Pcb -> 0..3]
    /\ starved \subseteq Pcb
    /\ refused \in BOOLEAN

Allocated(q, kind) == [pcb |-> q, kind |-> kind, queued |-> FALSE, due |-> FALSE, ahead |-> {}]
Freed == Allocated(NoPcb, "probe")

(* mdns_netif_init enables the protocols of the interfaces that are up; the *)
(* device has no name yet, so none of them probes.                          *)
Init ==
    /\ hostname = FALSE
    /\ pcb \in [Pcb -> {[ready |-> FALSE, state |-> PCB_OFF, running |-> FALSE],
                        [ready |-> TRUE, state |-> PCB_RUNNING, running |-> FALSE]}]
    /\ packet = [p \in Packet |-> Freed]
    /\ s_action_queue = <<>> /\ action = <<>> /\ walk = {} /\ events = 0
    /\ probes = [q \in Pcb |-> 0] /\ starved = {} /\ refused = FALSE

Probing(q) == pcb[q].state \in PCB_PROBE_1..PCB_PROBE_3
Announcing(q) == pcb[q].state \in PCB_ANNOUNCE_1..PCB_ANNOUNCE_3

Free == {p \in Packet : packet[p].pcb = NoPcb}
Of(q) == {p \in Packet : packet[p].pcb = q}

(* The list once the packets of D are freed.                                *)
Without(D) == [p \in Packet |-> IF p \in D THEN Freed
                                ELSE [packet[p] EXCEPT !.ahead = @ \ D]]

(* The list with p scheduled after a delay: it is not due yet.              *)
Scheduled(packets, p, q, kind) == [packets EXCEPT ![p] = Allocated(q, kind)]

HasRoom == Len(s_action_queue) < MaxQueue
mdns_priv_queue_action(act) == HasRoom /\ s_action_queue' = Append(s_action_queue, act)

Pending == {action[i] : i \in 1..Len(action)}
              \cup {s_action_queue[i] : i \in 1..Len(s_action_queue)}

(* The timer holds the service lock while it walks the list.                *)
LockFree == walk = {}

-----------------------------------------------------------------------------
(* What happens in the world: lwIP receives a packet when some protocol of  *)
(* the interface is ready, system events are posted, main sets the name.    *)
(* With no room in the queue the event is dropped.                          *)

Posted(q, type) ==
    /\ events < MaxEvents /\ events' = events + 1
    /\ mdns_priv_queue_action([type |-> type, pcb |-> q])
    /\ UNCHANGED <<hostname, pcb, packet, action, walk, probes, starved, refused>>

PacketArrives(q, type) ==
    /\ \E r \in Pcb : pcb[r].ready
    /\ Posted(q, type)

post_custom_action(q, type) == Posted(q, type)

(* MDNS.begin sets the name, once, and waits until it is set.               *)
NameAction == [type |-> "HOSTNAME_SET"]
NameAsked == hostname \/ NameAction \in Pending

mdns_hostname_set ==
    /\ ~NameAsked
    /\ mdns_priv_queue_action(NameAction)
    /\ UNCHANGED <<hostname, pcb, packet, action, walk, events, probes, starved, refused>>

(* The time of a waiting packet comes: it is now behind all that are due.   *)
TimePasses(p) ==
    /\ packet[p].pcb # NoPcb /\ ~packet[p].due
    /\ packet' = [packet EXCEPT ![p].due = TRUE, ![p].ahead = {r \in Packet : packet[r].due}]
    /\ walk' = IF LockFree THEN walk ELSE walk \cup {p}
    /\ UNCHANGED <<hostname, pcb, s_action_queue, action, events, probes, starved, refused>>

-----------------------------------------------------------------------------
(* The timer: from the first packet not pushed yet, every packet that is    *)
(* due is pushed, whether or not it was pushed before.  With no memory for  *)
(* an action the walk ends early, as if the rest were not due yet.          *)

FromFirstUnqueued == {p \in Packet : /\ packet[p].due
                                     /\ \E r \in packet[p].ahead \cup {p} : ~packet[r].queued}

TimerStarts ==
    /\ LockFree /\ FromFirstUnqueued # {}
    /\ walk' = FromFirstUnqueued
    /\ UNCHANGED <<hostname, pcb, packet, s_action_queue, action, events, probes, starved, refused>>

TimerPushes(p) ==
    /\ p \in walk /\ packet[p].ahead \cap walk = {}
    /\ walk' = walk \ {p}
    /\ \/ /\ mdns_priv_queue_action([type |-> "TX", packet |-> p])
          /\ packet' = [packet EXCEPT ![p].queued = TRUE]
          /\ UNCHANGED refused
       \/ /\ ~HasRoom
          /\ packet' = [packet EXCEPT ![p].queued = FALSE]
          /\ refused' = TRUE /\ UNCHANGED s_action_queue
    /\ UNCHANGED <<hostname, pcb, action, events, probes, starved>>

-----------------------------------------------------------------------------
(* mdns_priv_init_pcb_probe on the pcbs of Q, whose packets are cleared     *)
(* together with those of D; before is what the pcbs were just before.      *)
(* Without a name there is nothing to probe.  Each pcb that gets memory for *)
(* its probe, at the address new gives it, starts over; one that does not   *)
(* is left with no packet at all.                                           *)

RunNameless(Q, D, before) ==
    /\ packet' = Without(D)
    /\ pcb' = [q \in Pcb |-> IF q \in Q THEN [before[q] EXCEPT !.state = PCB_RUNNING] ELSE before[q]]
    /\ UNCHANGED <<probes, starved>>

ProbeAt(N, new, Q, D, before) ==
    LET Started == {new[p] : p \in N} IN
    /\ packet' = [p \in Packet |-> IF p \in N THEN Allocated(new[p], "probe") ELSE Without(D)[p]]
    /\ pcb' = [q \in Pcb |->
                  IF q \in Started
                  THEN [ready |-> before[q].ready, state |-> PCB_PROBE_1, running |-> TRUE]
                  ELSE IF q \in Q THEN [before[q] EXCEPT !.running = FALSE]
                  ELSE before[q]]
    /\ probes' = [q \in Pcb |-> IF q \in Started THEN 0 ELSE probes[q]]
    /\ starved' = (starved \cup Q) \ Started

Probe(Q, D, before) ==
    \E N \in SUBSET (Free \cup D) : \E new \in [N -> Q] :
        /\ \A p, r \in N : new[p] = new[r] => p = r
        /\ ProbeAt(N, new, Q, D, before)

BugProbeKeepsList(q, before) ==
    /\ UNCHANGED hostname
    /\ \/ hostname /\ Probe({q}, {}, before)
       \/ ~hostname /\ RunNameless({q}, {}, before)

mdns_priv_init_pcb_probe(q, before) ==
    /\ UNCHANGED hostname
    /\ \/ hostname /\ Probe({q}, Of(q), before)
       \/ ~hostname /\ RunNameless({q}, Of(q), before)

(* Every pcb that is ready starts over, with all packets cleared.           *)
mdns_priv_restart_all_pcbs == Probe({q \in Pcb : pcb[q].ready}, Packet \ Free, pcb)

-----------------------------------------------------------------------------
(* The actions of the service task, each under the lock                     *)

NoChange == UNCHANGED <<hostname, pcb, packet, probes, starved>>

HostnameSet == hostname' = TRUE /\ mdns_priv_restart_all_pcbs

mdns_priv_pcb_enable(q) ==
    \/ pcb[q].ready /\ mdns_priv_init_pcb_probe(q, pcb)
    \/ ~pcb[q].ready /\ mdns_priv_init_pcb_probe(q, [pcb EXCEPT ![q].ready = TRUE])
    \/ ~pcb[q].ready /\ NoChange    \* the network cannot be joined

mdns_priv_pcb_disable(q) ==
    /\ \/ /\ pcb[q].ready
          /\ packet' = Without(Of(q))
          /\ pcb' = [pcb EXCEPT ![q] = [ready |-> FALSE, state |-> PCB_OFF, running |-> FALSE]]
       \/ /\ ~pcb[q].ready
          /\ pcb' = [pcb EXCEPT ![q].state = PCB_OFF]
          /\ UNCHANGED packet
    /\ UNCHANGED <<hostname, probes, starved>>

(* Running, the announcement may find no memory.                            *)
AnnounceAnew(q) ==
    /\ pcb' = [pcb EXCEPT ![q].state = PCB_ANNOUNCE_1]
    /\ \/ \E p \in Free : packet' = Scheduled(packet, p, q, "announce") /\ UNCHANGED starved
       \/ UNCHANGED packet /\ starved' = starved \cup {q}
    /\ UNCHANGED <<hostname, probes>>

BugAnnounceWhileProbing(q) ==
    \/ /\ pcb[q].ready /\ (Probing(q) \/ Announcing(q)) /\ Of(q) # {}
       /\ pcb' = [pcb EXCEPT ![q].state = PCB_ANNOUNCE_1]
       /\ UNCHANGED <<hostname, packet, probes, starved>>
    \/ pcb[q].ready /\ pcb[q].state = PCB_RUNNING /\ hostname /\ AnnounceAnew(q)
    \/ (~pcb[q].ready \/ Of(q) = {}) /\ NoChange

BugAnnounceClearsList(q) ==
    \/ pcb[q].ready /\ Probing(q) /\ mdns_priv_init_pcb_probe(q, pcb)
    \/ /\ pcb[q].ready /\ Announcing(q) /\ Of(q) # {}
       /\ pcb' = [pcb EXCEPT ![q].state = PCB_ANNOUNCE_1]
       /\ packet' = Without(Of(q))
       /\ UNCHANGED <<hostname, probes, starved>>
    \/ pcb[q].ready /\ pcb[q].state = PCB_RUNNING /\ hostname /\ AnnounceAnew(q)
    \/ (~pcb[q].ready \/ Of(q) = {}) /\ NoChange

mdns_priv_pcb_announce(q) ==
    \/ pcb[q].ready /\ Probing(q) /\ mdns_priv_init_pcb_probe(q, pcb)
    \/ /\ pcb[q].ready /\ Announcing(q) /\ Of(q) # {}
       /\ pcb' = [pcb EXCEPT ![q].state = PCB_ANNOUNCE_1]
       /\ UNCHANGED <<hostname, packet, probes, starved>>
    \/ pcb[q].ready /\ pcb[q].state = PCB_RUNNING /\ hostname /\ AnnounceAnew(q)
    \/ /\ \/ ~pcb[q].ready
          \/ Announcing(q) /\ Of(q) = {}
          \/ pcb[q].state = PCB_RUNNING /\ ~hostname
          \/ pcb[q].state = PCB_OFF
       /\ NoChange

(* Someone asks for the name: the answer is sent at once, or queued when    *)
(* others may answer too.                                                   *)
Question(q) ==
    \/ /\ hostname /\ pcb[q].state > PCB_PROBE_3
       /\ \E p \in Free : packet' = Scheduled(packet, p, q, "response")
       /\ UNCHANGED <<hostname, pcb, probes, starved>>
    \/ NoChange

(* Someone else has the name.  While probing, a probe or an authoritative   *)
(* answer of theirs makes this device take another name, and everything     *)
(* starts over; any other answer is ignored.  Else the pcb defends the      *)
(* name by probing again, even when it is off.                              *)
Conflict(q) ==
    \/ hostname /\ pcb[q].running /\ UNCHANGED hostname /\ mdns_priv_restart_all_pcbs
    \/ hostname /\ ~pcb[q].running /\ mdns_priv_init_pcb_probe(q, pcb)
    \/ (hostname => pcb[q].running) /\ NoChange

AtHead(p) == packet[p].due /\ packet[p].ahead = {} /\ packet[p].queued

(* mdns_priv_pcb_schedule_tx_packet, once p is off the list and sent        *)
BugResendStaysQueued(p, q, state) ==
    /\ packet' = [Scheduled(Without({p}), p, q, packet[p].kind) EXCEPT ![p].queued = TRUE]
    /\ pcb' = [pcb EXCEPT ![q].state = state]
    /\ UNCHANGED starved

Resend(p, q, state) ==
    /\ packet' = Scheduled(Without({p}), p, q, packet[p].kind)
    /\ pcb' = [pcb EXCEPT ![q].state = state]
    /\ UNCHANGED starved

BecomesAnnouncement(p, q) ==
    \/ \E a \in Free :
           /\ packet' = Scheduled(Without({p}), a, q, "announce")
           /\ pcb' = [pcb EXCEPT ![q].state = PCB_ANNOUNCE_1, ![q].running = FALSE]
           /\ starved' = starved \ {q}
    \/ /\ packet' = Scheduled(Without({p}), p, q, packet[p].kind)
       /\ starved' = starved \cup {q}
       /\ UNCHANGED pcb

ScheduleTx(p, q) ==
    LET state == pcb[q].state IN
    \/ /\ state \in PCB_PROBE_1..PCB_PROBE_3 - 1 \/ state \in PCB_ANNOUNCE_1..PCB_ANNOUNCE_3 - 1
       /\ Resend(p, q, state + 1)
    \/ state = PCB_PROBE_3 /\ BecomesAnnouncement(p, q)
    \/ /\ state = PCB_ANNOUNCE_3
       /\ packet' = Without({p})
       /\ pcb' = [pcb EXCEPT ![q].state = PCB_RUNNING]
       /\ UNCHANGED starved
    \/ state \in {PCB_RUNNING, PCB_OFF} /\ packet' = Without({p}) /\ UNCHANGED <<pcb, starved>>

CountsProbe(p, q) ==
    probes' = [probes EXCEPT ![q] = IF Probing(q) /\ packet[p].kind = "probe" /\ @ < 3 THEN @ + 1 ELSE @]

SendPacket(p) ==
    \/ AtHead(p) /\ UNCHANGED hostname
       /\ \E q \in Pcb : q = packet[p].pcb /\ ScheduleTx(p, q) /\ CountsProbe(p, q)
    \/ ~AtHead(p) /\ NoChange

-----------------------------------------------------------------------------
ServiceTakes ==
    /\ action = <<>> /\ s_action_queue # <<>>
    /\ action' = <<Head(s_action_queue)>> /\ s_action_queue' = Tail(s_action_queue)
    /\ UNCHANGED <<hostname, pcb, packet, walk, events, probes, starved, refused>>

(* The service task, having taken an action of the type.                    *)
Execute(type) ==
    /\ LockFree /\ action # <<>> /\ action[1].type = type
    /\ action' = <<>>
    /\ UNCHANGED <<s_action_queue, walk, events, refused>>

Executes ==
    \/ Execute("HOSTNAME_SET") /\ HostnameSet
    \/ Execute("ENABLE") /\ mdns_priv_pcb_enable(action[1].pcb)
    \/ Execute("DISABLE") /\ mdns_priv_pcb_disable(action[1].pcb)
    \/ Execute("ANNOUNCE") /\ mdns_priv_pcb_announce(action[1].pcb)
    \/ Execute("QUESTION") /\ Question(action[1].pcb)
    \/ Execute("CONFLICT") /\ Conflict(action[1].pcb)
    \/ Execute("TX") /\ SendPacket(action[1].packet)

Next ==
    \/ \E q \in Pcb : \/ \E type \in {"QUESTION", "CONFLICT"} : PacketArrives(q, type)
                      \/ \E type \in {"ENABLE", "DISABLE", "ANNOUNCE"} : post_custom_action(q, type)
    \/ mdns_hostname_set
    \/ \E p \in Packet : TimePasses(p) \/ TimerPushes(p)
    \/ TimerStarts \/ ServiceTakes \/ Executes

Spec == Init /\ [][Next]_vars

(* Time passes and both tasks run; the timer, which takes the lock every    *)
(* 100 ms, does not keep the service task from it forever.                  *)
Fairness ==
    /\ \A p \in Packet : WF_vars(TimePasses(p))
    /\ WF_vars(TimerStarts) /\ WF_vars(\E p \in Packet : TimerPushes(p))
    /\ WF_vars(ServiceTakes) /\ SF_vars(Executes)

FairSpec == Spec /\ Fairness

-----------------------------------------------------------------------------
(* While a ready pcb probes, exactly one packet of its own keeps the        *)
(* probing going (without it the pcb would probe, and answer nothing,       *)
(* forever), and it is the probe: mdns_priv_init_pcb_probe clears the list  *)
(* before it schedules the probe, whatever else was scheduled and whatever  *)
(* actions are pending, and sending re-schedules the packet.  A pcb that    *)
(* found no memory is without, and so may be one that is not ready:         *)
(* mdns_priv_restart_all_pcbs clears the probe of all, starts the ready.    *)
ProbingHasItsPacket ==
    \A q \in Pcb \ starved :
        pcb[q].ready /\ Probing(q) => \E p \in Packet : Of(q) = {p} /\ packet[p].kind = "probe"

(* A ready pcb announces the name, and answers for it, only after it has    *)
(* probed for it three times since it last began to probe, whatever events, *)
(* conflicts, new names and questions came between (mdns_pcb.c, the states  *)
(* of mdns_priv_pcb_schedule_tx_packet).  A pcb that found no memory for    *)
(* its probe is the exception the code leaves.                              *)
ProbedBeforeAnnouncing ==
    \A q \in Pcb \ starved :
        hostname /\ pcb[q].ready /\ pcb[q].state > PCB_PROBE_3 => probes[q] = 3

(* A packet marked as pushed has an action pending that will send it:       *)
(* otherwise it would stay at the head of the list and nothing behind it    *)
(* would ever be sent (send_packet skips what is not at the head).  True as *)
(* long as the action queue never refused a packet.                         *)
PushedIsPending ==
    ~refused => \A p \in Packet : packet[p].queued => [type |-> "TX", packet |-> p] \in Pending

(* Once the events end every pcb that is ready comes to answer for the name *)
(* (or runs without one), unless it found no memory or the queue refused a  *)
(* packet: probing and announcing always make progress.                     *)
Settles ==
    <>refused \/ \A q \in Pcb : []<>(\/ ~pcb[q].ready \/ q \in starved
                                     \/ pcb[q].state \in {PCB_OFF, PCB_RUNNING})
=============================================================================
