------------------------- MODULE MdnsResponder_proofs -------------------------
(* That the packets and the list of what is probed for point to live        *)
(* services, that the device answers only for what it has probed for, and   *)
(* that it announces what it has, for every number of services, names,      *)
(* packets and calls.                                                       *)
EXTENDS MdnsResponder, ListTheorems

Item == Srv \cup Address
Asking == [type : {"service"}, of : Srv] \cup [type : {"host"}, of : Srv \cup {Self}]
Packet == [questions : Seq(Asking),
           answers : SUBSET Item, servers : SUBSET Item, additional : SUBSET Item, multicast : BOOLEAN]
Pcb == [state : PCB_PROBE_1..PCB_RUNNING, probe_services : Seq(Srv),
        probe_ip : BOOLEAN, probe_running : BOOLEAN]
Known == [Srv -> [type : Type \cup {None}, instance : Instance \cup {None}, host : Address]]

(* What a service that is freed is taken out of                             *)
Schedule == [tx : Seq(Packet), pcb : Pcb, unprobed : SUBSET Srv]
Now == [tx |-> tx, pcb |-> pcb, unprobed |-> unprobed]

ProbeStates == PCB_PROBE_1..PCB_PROBE_3

Typed ==
    /\ services \in Seq(Srv) /\ IsInjective(services)
    /\ service \in Known /\ \A s \in Live : service[s].type \in Type
    /\ hosts \in Seq(Host)
    /\ Now \in Schedule
    /\ probed \in [Srv -> 0..3] /\ announced \cup silenced \subseteq Srv \cup {Self}

(* While the interface probes its packet is the only one.  It holds the     *)
(* services that are probed for, and a host exactly if the address is.      *)
IsScheduled(h, live) ==
    /\ \A p \in ToSet(h.tx) : (p.answers \cup p.servers \cup p.additional) \cap Srv \subseteq live
    /\ ToSet(h.pcb.probe_services) \subseteq live /\ IsInjective(h.pcb.probe_services)
    /\ h.pcb.probe_running <=> h.pcb.state \in ProbeStates
    /\ h.pcb.state \notin ProbeStates => h.pcb.probe_services = <<>>
    /\ h.pcb.state \in ProbeStates =>
         /\ Len(h.tx) = 1 /\ h.tx[1].multicast
         /\ h.tx[1].servers \cap Srv = ToSet(h.pcb.probe_services)
         /\ h.pcb.probe_ip <=> ~(h.tx[1].servers \subseteq Srv)
         /\ h.pcb.probe_services # <<>> \/ h.pcb.probe_ip

(* A service that is probed for has had as many probes as the state counts, *)
(* and its question is in the packet; any other has had three.              *)
IsProbed(h, live, count) ==
    \A s \in live \ h.unprobed :
        IF s \in ToSet(h.pcb.probe_services)
        THEN count[s] = h.pcb.state - PCB_PROBE_1 /\ s \in Asked(h.tx[1])
        ELSE count[s] = 3

(* What is not announced yet waits: in the probe, from which the            *)
(* announcement is made, or in a packet to all.                             *)
Waits(h, s) ==
    IF h.pcb.state \in ProbeStates THEN s \in h.tx[1].servers
    ELSE \E p \in ToSet(h.tx) : p.multicast /\ s \in p.answers
IsAnnounced(h, live, settled) ==
    \A s \in live \cup {Self} : s \in settled \cup h.unprobed \/ Waits(h, s)

Good(h, live, count, settled) ==
    IsScheduled(h, live) /\ IsProbed(h, live, count) /\ IsAnnounced(h, live, settled)

IInv == Typed /\ Good(Now, Live, probed, announced \cup silenced)

USE DEF PCB_PROBE_1, PCB_PROBE_3, PCB_ANNOUNCE_1, PCB_ANNOUNCE_3, PCB_RUNNING

LEMMA Disjoint == Address \cap Srv = {} /\ Self \notin Srv /\ Self \in Address
BY NoneAssumption, HostAssumption DEF Address

-----------------------------------------------------------------------------
(* A service leaves the packets and the pcb                                 *)

LEMMA QuestionFound ==
  ASSUME NEW p \in Packet, NEW s
  PROVE  \/ QuestionAbout(p, s) = 0
         \/ /\ QuestionAbout(p, s) \in 1..Len(p.questions)
            /\ p.questions[QuestionAbout(p, s)].type = "service"
<1> DEFINE I == {i \in 1..Len(p.questions) :
                    p.questions[i].type = "service" /\ service[p.questions[i].of].type = service[s].type}
<1>1. QuestionAbout(p, s) = IF I # {} THEN Min(I) ELSE 0
  BY DEF QuestionAbout, SelectInSeq
<1>2. I \subseteq Nat /\ I \subseteq 1..Len(p.questions)
  OBVIOUS
<1>3. I # {} => Min(I) \in I
  <2> HIDE DEF I
  <2> QED BY <1>2, MinIsLeast
<1>4. \A i \in I : i \in 1..Len(p.questions) /\ p.questions[i].type = "service"
  OBVIOUS
<1> HIDE DEF I
<1> QED BY <1>1, <1>3, <1>4

(* What it does to the pcb                                                  *)
LEMMA PcbWithout ==
  ASSUME NEW h \in Schedule, NEW live, IsScheduled(h, live), NEW s \in Srv,
         NEW c, c = mdns_priv_pcb_check_probing_services(h, s)
  PROVE  /\ c \in Pcb /\ c.probe_ip = h.pcb.probe_ip
         /\ ToSet(c.probe_services) = ToSet(h.pcb.probe_services) \ {s}
         /\ IsInjective(c.probe_services)
         /\ c.probe_running <=> c.state \in ProbeStates
         /\ c.state \notin ProbeStates => c.probe_services = <<>>
         /\ c.state \in ProbeStates =>
              /\ h.pcb.state = c.state
              /\ c.probe_services # <<>> \/ c.probe_ip
         /\ h.pcb.state \in ProbeStates /\ c.state \notin ProbeStates => ~h.pcb.probe_ip
<1> DEFINE list == Without(h.pcb.probe_services, {s})
<1>1. h.pcb \in Pcb /\ h.pcb.probe_services \in Seq(Srv)
  BY DEF Schedule, Pcb
<1>2. /\ list \in Seq(Srv) /\ ToSet(list) = ToSet(h.pcb.probe_services) \ {s}
      /\ IsInjective(list)
  BY <1>1, WithoutElements DEF IsScheduled
<1> HIDE DEF list
<1>3. /\ ToSet(list) = {} <=> list = <<>>
      /\ ToSet(h.pcb.probe_services) = {} <=> h.pcb.probe_services = <<>>
  BY <1>1, <1>2, EmptyList
<1>4. CASE IsProbedFor(h, s)
  <2>1. h.pcb.state \in ProbeStates
    BY <1>4 DEF IsProbedFor, ProbeStates
  <2>2. CASE list = <<>> /\ ~h.pcb.probe_ip
    <3>1. c = [h.pcb EXCEPT !.probe_services = <<>>, !.probe_running = FALSE, !.state = PCB_RUNNING]
      BY <1>4, <2>2 DEF mdns_priv_pcb_check_probing_services, list
    <3>2. /\ c.probe_services = <<>> /\ c.probe_running = FALSE /\ c.state = PCB_RUNNING
          /\ c.probe_ip = h.pcb.probe_ip
      BY <1>1, <3>1 DEF Pcb
    <3>3. <<>> \in Seq(Srv) /\ PCB_RUNNING \in PCB_PROBE_1..PCB_RUNNING
      OBVIOUS
    <3>4. c \in Pcb
      BY <1>1, <3>1, <3>3 DEF Pcb
    <3>5. c.state \notin ProbeStates
      BY <3>2 DEF ProbeStates
    <3> QED BY <1>2, <2>2, <3>2, <3>4, <3>5
  <2>3. CASE ~(list = <<>> /\ ~h.pcb.probe_ip)
    <3>1. c = [h.pcb EXCEPT !.probe_services = list]
      BY <1>4, <2>3 DEF mdns_priv_pcb_check_probing_services, list
    <3>2. /\ c.probe_services = list /\ c.probe_running = h.pcb.probe_running
          /\ c.state = h.pcb.state /\ c.probe_ip = h.pcb.probe_ip /\ c \in Pcb
      BY <1>1, <1>2, <3>1 DEF Pcb
    <3> QED BY <1>2, <2>1, <2>3, <3>2 DEF IsScheduled
  <2> QED BY <2>2, <2>3
<1>5. CASE ~IsProbedFor(h, s)
  <2>1. s \notin ToSet(h.pcb.probe_services)
    <3> SUFFICES ASSUME s \in ToSet(h.pcb.probe_services) PROVE FALSE
      OBVIOUS
    <3>1. h.pcb.probe_services # <<>>
      BY <1>1, <1>3
    <3>2. h.pcb.state \in ProbeStates /\ Len(h.tx) = 1
      BY <3>1 DEF IsScheduled
    <3>3. h.tx # <<>>
      BY <3>2
    <3> QED BY <1>5, <3>2, <3>3 DEF IsProbedFor, ProbeStates
  <2>2. c = h.pcb \/ (h.pcb.state \in PCB_ANNOUNCE_1..PCB_ANNOUNCE_3 /\ c = [h.pcb EXCEPT !.state = PCB_RUNNING])
    BY <1>5 DEF mdns_priv_pcb_check_probing_services
  <2>3. CASE c = h.pcb
    BY <1>1, <2>1, <2>3 DEF IsScheduled
  <2>4. CASE h.pcb.state \in PCB_ANNOUNCE_1..PCB_ANNOUNCE_3 /\ c = [h.pcb EXCEPT !.state = PCB_RUNNING]
    <3>1. /\ c.probe_services = h.pcb.probe_services /\ c.probe_running = h.pcb.probe_running
          /\ c.state = PCB_RUNNING /\ c.probe_ip = h.pcb.probe_ip /\ c \in Pcb
      BY <1>1, <2>4 DEF Pcb
    <3>2. h.pcb.state \notin ProbeStates /\ c.state \notin ProbeStates
      BY <2>4, <3>1 DEF ProbeStates
    <3> QED BY <2>1, <3>1, <3>2 DEF IsScheduled
  <2> QED BY <2>2, <2>3, <2>4
<1> QED BY <1>4, <1>5
(* What it does to the packets: `rest' are those of h without the service,  *)
(* and of them g has those that are not empty.                              *)
IsStripped(rest, g, h, s) ==
    /\ Len(rest) = Len(h.tx)
    /\ \A j \in DOMAIN h.tx :
         /\ rest[j].answers = h.tx[j].answers \ {s}
         /\ rest[j].servers = h.tx[j].servers \ {s}
         /\ rest[j].additional = h.tx[j].additional \ {s}
         /\ rest[j].multicast = h.tx[j].multicast
         /\ Asked(h.tx[j]) \subseteq Asked(rest[j]) \cup g.unprobed
    /\ g.tx \in Seq(Packet) /\ Len(g.tx) <= Len(rest)
    /\ ToSet(g.tx) \subseteq ToSet(rest)
    /\ \A p \in ToSet(rest) : p.answers \cup p.servers # {} => p \in ToSet(g.tx)
    /\ h.unprobed \subseteq g.unprobed /\ g.unprobed \subseteq Srv

LEMMA PacketsWithout ==
  ASSUME NEW h \in Schedule, NEW s \in Srv,
         NEW g, g = mdns_priv_remove_scheduled_service_packets(h, s)
  PROVE  \E rest \in Seq(Packet) : IsStripped(rest, g, h, s)
<1> DEFINE k == IF IsProbedFor(h, s) THEN QuestionAbout(h.tx[1], s) ELSE 0
           Strip(j) == LET p == dealloc_scheduled_service_answers(h.tx[j], s)
                       IN  IF j = 1 /\ k # 0 THEN [p EXCEPT !.questions = RemoveAt(@, k)] ELSE p
           rest == [j \in DOMAIN h.tx |-> Strip(j)]
           empty == {p \in ToSet(rest) : p.questions = <<>> /\ p.answers \cup p.servers \cup p.additional = {}}
<1>1. /\ h.tx \in Seq(Packet) /\ Len(h.tx) \in Nat /\ DOMAIN h.tx = 1..Len(h.tx)
      /\ h.unprobed \subseteq Srv /\ \A j \in DOMAIN h.tx : h.tx[j] \in Packet
  BY DEF Schedule
<1>2. k # 0 => /\ h.tx # <<>> /\ 1 \in DOMAIN h.tx /\ k \in 1..Len(h.tx[1].questions)
               /\ h.tx[1].questions[k].type = "service"
  <2> SUFFICES ASSUME k # 0
               PROVE  /\ h.tx # <<>> /\ 1 \in DOMAIN h.tx /\ k \in 1..Len(h.tx[1].questions)
                      /\ h.tx[1].questions[k].type = "service"
    OBVIOUS
  <2>1. IsProbedFor(h, s) /\ k = QuestionAbout(h.tx[1], s)
    OBVIOUS
  <2>2. h.tx # <<>> /\ 1 \in DOMAIN h.tx
    BY <1>1, <2>1 DEF IsProbedFor
  <2> QED BY <1>1, <2>1, <2>2, QuestionFound
<1>3. g.tx = Without(rest, empty) /\ g.unprobed = IF k = 0 THEN h.unprobed ELSE h.unprobed \cup {h.tx[1].questions[k].of}
  BY DEF mdns_priv_remove_scheduled_service_packets
<1> HIDE DEF k
<1>4. ASSUME NEW j \in DOMAIN h.tx
      PROVE  /\ Strip(j) \in Packet
             /\ Strip(j).answers = h.tx[j].answers \ {s}
             /\ Strip(j).servers = h.tx[j].servers \ {s}
             /\ Strip(j).additional = h.tx[j].additional \ {s}
             /\ Strip(j).multicast = h.tx[j].multicast
             /\ Asked(h.tx[j]) \subseteq Asked(Strip(j)) \cup g.unprobed
  <2> DEFINE q == h.tx[j]
             p == dealloc_scheduled_service_answers(q, s)
  <2>0. q \in Packet
    BY <1>1
  <2>1. /\ p \in Packet /\ p.questions = q.questions /\ p.multicast = q.multicast
        /\ p.answers = q.answers \ {s} /\ p.servers = q.servers \ {s} /\ p.additional = q.additional \ {s}
    BY <2>0 DEF dealloc_scheduled_service_answers, Packet
  <2>2. Asked(p) = Asked(q)
    BY <2>1 DEF Asked
  <2> HIDE DEF p, q
  <2>3. CASE ~(j = 1 /\ k # 0)
    <3>1. Strip(j) = p
      BY <2>3 DEF p, q
    <3> QED BY <2>1, <2>2, <3>1 DEF q
  <2>4. CASE j = 1 /\ k # 0
    <3> DEFINE r == RemoveAt(p.questions, k)
    <3>1. Strip(j) = [p EXCEPT !.questions = r]
      BY <2>4 DEF p, q
    <3>2. p.questions \in Seq(Asking) /\ k \in 1..Len(p.questions)
      BY <1>2, <2>1, <2>4 DEF Packet, q
    <3>3. /\ r \in Seq(Asking) /\ Len(r) = Len(p.questions) - 1
          /\ \A i \in 1..Len(p.questions) - 1 : r[i] = IF i < k THEN p.questions[i] ELSE p.questions[i + 1]
      BY <3>2, RemoveAtElements
    <3> HIDE DEF r
    <3>4. /\ Strip(j).questions = r /\ Strip(j).multicast = p.multicast
          /\ Strip(j).answers = p.answers /\ Strip(j).servers = p.servers /\ Strip(j).additional = p.additional
          /\ Strip(j) \in Packet
      <4> HIDE DEF Strip
      <4> QED BY <2>1, <3>1, <3>3 DEF Packet
    <3>5. Len(p.questions) \in Nat /\ DOMAIN p.questions = 1..Len(p.questions) /\ DOMAIN r = 1..Len(p.questions) - 1
      BY <3>2, <3>3
    <3>6. ASSUME NEW i \in DOMAIN p.questions
          PROVE  i = k \/ \E m \in DOMAIN r : r[m] = p.questions[i]
      <4>1. i \in Nat /\ k \in Nat
        BY <3>2, <3>5
      <4>2. CASE i < k
        BY <3>2, <3>3, <3>5, <4>1, <4>2
      <4>3. CASE i > k
        <5>1. i - 1 \in DOMAIN r /\ ~(i - 1 < k) /\ (i - 1) + 1 = i
          BY <3>2, <3>5, <4>1, <4>3
        <5> QED BY <3>3, <3>5, <5>1
      <4> QED BY <4>1, <4>2, <4>3
    <3>7. p.questions[k].of \in g.unprobed
      <4>1. g.unprobed = h.unprobed \cup {h.tx[1].questions[k].of}
        BY <1>3, <2>4
      <4>2. p.questions = h.tx[1].questions
        BY <2>1, <2>4 DEF q
      <4> QED BY <4>1, <4>2
    <3>8. Asked(p) \subseteq Asked(Strip(j)) \cup g.unprobed
      <4> HIDE DEF Strip
      <4> SUFFICES ASSUME NEW i \in DOMAIN p.questions, p.questions[i].type = "service"
                   PROVE  p.questions[i].of \in Asked(Strip(j)) \cup g.unprobed
        BY DEF Asked
      <4>1. CASE i = k
        BY <3>7, <4>1
      <4>2. CASE i # k
        <5>1. PICK m \in DOMAIN r : r[m] = p.questions[i]
          BY <3>6, <4>2
        <5> QED BY <3>4, <5>1 DEF Asked
      <4> QED BY <4>1, <4>2
    <3> QED BY <2>1, <2>2, <3>4, <3>8 DEF q
  <2> QED BY <2>3, <2>4
<1> HIDE DEF Strip
<1>5. rest \in Seq(Packet) /\ Len(rest) = Len(h.tx) /\ DOMAIN rest = DOMAIN h.tx /\ \A j \in DOMAIN h.tx : rest[j] = Strip(j)
  BY <1>1, <1>4
<1> HIDE DEF rest
<1>6. g.tx \in Seq(Packet) /\ Len(g.tx) <= Len(rest) /\ ToSet(g.tx) = ToSet(rest) \ empty
  <2> HIDE DEF empty
  <2> QED BY <1>3, <1>5, WithoutElements
<1>7. h.unprobed \subseteq g.unprobed /\ g.unprobed \subseteq Srv
  <2>1. CASE k = 0
    BY <1>1, <1>3, <2>1
  <2>2. CASE k # 0
    <3>1. h.tx[1].questions \in Seq(Asking)
      BY <1>1, <1>2, <2>2 DEF Packet
    <3>2. h.tx[1].questions[k] \in Asking
      BY <1>2, <2>2, <3>1
    <3>3. h.tx[1].questions[k].of \in Srv
      BY <1>2, <2>2, <3>2 DEF Asking
    <3> QED BY <1>1, <1>3, <2>2, <3>3
  <2> QED BY <2>1, <2>2
<1>8. \A p \in ToSet(rest) : p.answers \cup p.servers # {} => p \in ToSet(g.tx)
  BY <1>6
<1> HIDE DEF empty
<1>9. \A j \in DOMAIN h.tx :
         /\ rest[j].answers = h.tx[j].answers \ {s}
         /\ rest[j].servers = h.tx[j].servers \ {s}
         /\ rest[j].additional = h.tx[j].additional \ {s}
         /\ rest[j].multicast = h.tx[j].multicast
         /\ Asked(h.tx[j]) \subseteq Asked(rest[j]) \cup g.unprobed
  BY <1>4, <1>5
<1>10. ToSet(g.tx) \subseteq ToSet(rest)
  BY <1>6
<1> QED BY <1>5, <1>6, <1>7, <1>8, <1>9, <1>10 DEF IsStripped
(* With both, what is freed is nowhere, and the rest goes on.               *)
LEMMA ScheduleOf ==
  ASSUME NEW a \in Seq(Packet), NEW b \in Pcb, NEW c \in SUBSET Srv
  PROVE  [tx |-> a, pcb |-> b, unprobed |-> c] \in Schedule
BY DEF Schedule

LEMMA ServiceRemoved ==
  ASSUME NEW h \in Schedule, NEW live, NEW count, NEW settled, NEW s \in Srv,
         Good(h, live, count, settled),
         NEW g, g = mdns_priv_remove_scheduled_service_packets(h, s)
  PROVE  g \in Schedule /\ Good(g, live \ {s}, count, settled)
<1>1. /\ h.tx \in Seq(Packet) /\ h.pcb \in Pcb /\ Len(h.tx) \in Nat /\ DOMAIN h.tx = 1..Len(h.tx)
      /\ h.unprobed \subseteq Srv /\ \A j \in DOMAIN h.tx : h.tx[j] \in Packet
      /\ h.pcb.probe_services \in Seq(Srv)
  BY DEF Schedule, Pcb
<1>2. /\ IsScheduled(h, live) /\ IsProbed(h, live, count) /\ IsAnnounced(h, live, settled)
  BY DEF Good
<1>0. PICK rest \in Seq(Packet) : IsStripped(rest, g, h, s)
  BY PacketsWithout
<1>3. /\ Len(rest) = Len(h.tx)
      /\ \A j \in DOMAIN h.tx :
           /\ rest[j].answers = h.tx[j].answers \ {s}
           /\ rest[j].servers = h.tx[j].servers \ {s}
           /\ rest[j].additional = h.tx[j].additional \ {s}
           /\ rest[j].multicast = h.tx[j].multicast
           /\ Asked(h.tx[j]) \subseteq Asked(rest[j]) \cup g.unprobed
      /\ g.tx \in Seq(Packet) /\ Len(g.tx) <= Len(rest)
      /\ ToSet(g.tx) \subseteq ToSet(rest)
      /\ \A p \in ToSet(rest) : p.answers \cup p.servers # {} => p \in ToSet(g.tx)
      /\ h.unprobed \subseteq g.unprobed /\ g.unprobed \subseteq Srv
  BY <1>0 DEF IsStripped
<1>4. g.pcb = mdns_priv_pcb_check_probing_services(h, s)
  BY DEF mdns_priv_remove_scheduled_service_packets
<1>5. /\ g.pcb \in Pcb /\ g.pcb.probe_ip = h.pcb.probe_ip
      /\ ToSet(g.pcb.probe_services) = ToSet(h.pcb.probe_services) \ {s}
      /\ IsInjective(g.pcb.probe_services)
      /\ g.pcb.probe_running <=> g.pcb.state \in ProbeStates
      /\ g.pcb.state \notin ProbeStates => g.pcb.probe_services = <<>>
      /\ g.pcb.state \in ProbeStates =>
           /\ h.pcb.state = g.pcb.state
           /\ g.pcb.probe_services # <<>> \/ g.pcb.probe_ip
      /\ h.pcb.state \in ProbeStates /\ g.pcb.state \notin ProbeStates => ~h.pcb.probe_ip
  BY <1>2, <1>4, PcbWithout
<1>6. g \in Schedule
  <2>1. \E a, b, c : g = [tx |-> a, pcb |-> b, unprobed |-> c]
    BY DEF mdns_priv_remove_scheduled_service_packets
  <2>2. PICK a, b, c : g = [tx |-> a, pcb |-> b, unprobed |-> c]
    BY <2>1
  <2>3. a \in Seq(Packet) /\ b \in Pcb /\ c \in SUBSET Srv
    BY <1>3, <1>5, <2>2
  <2> QED BY <2>2, <2>3, ScheduleOf
<1>7. DOMAIN rest = DOMAIN h.tx /\ ToSet(rest) = {rest[j] : j \in DOMAIN h.tx}
  <2>1. DOMAIN rest = 1..Len(rest)
    OBVIOUS
  <2>2. DOMAIN rest = DOMAIN h.tx
    BY <1>1, <1>3, <2>1
  <2> QED BY <2>2 DEF ToSet
<1>8. \A p \in ToSet(g.tx) : \E j \in DOMAIN h.tx : p = rest[j] /\ h.tx[j] \in ToSet(h.tx)
  <2>1. ToSet(g.tx) \subseteq ToSet(rest)
    BY <1>3
  <2>2. \A j \in DOMAIN h.tx : h.tx[j] \in ToSet(h.tx)
    BY DEF ToSet
  <2> QED BY <1>7, <2>1, <2>2
(* The packet of an interface that goes on probing                          *)
<1>9. ASSUME g.pcb.state \in ProbeStates
      PROVE  /\ Len(g.tx) = 1 /\ g.tx[1] = rest[1] /\ 1 \in DOMAIN h.tx
             /\ h.tx[1].servers \cap Srv = ToSet(h.pcb.probe_services)
             /\ h.pcb.probe_ip <=> ~(h.tx[1].servers \subseteq Srv)
             /\ h.tx[1].multicast
             /\ h.pcb.state \in ProbeStates /\ h.pcb.state = g.pcb.state
             /\ rest[1].servers = h.tx[1].servers \ {s}
  <2>1. h.pcb.state \in ProbeStates /\ h.pcb.state = g.pcb.state
    BY <1>5, <1>9
  <2>2. /\ Len(h.tx) = 1 /\ h.tx[1].multicast
        /\ h.tx[1].servers \cap Srv = ToSet(h.pcb.probe_services)
        /\ h.pcb.probe_ip <=> ~(h.tx[1].servers \subseteq Srv)
    BY <1>2, <2>1 DEF IsScheduled
  <2>3. 1 \in DOMAIN h.tx /\ rest[1] \in ToSet(rest) /\ rest[1].servers = h.tx[1].servers \ {s}
    BY <1>1, <1>3, <1>7, <2>2
  <2>4. rest[1].servers # {}
    <3>1. CASE g.pcb.probe_services # <<>>
      <4>1. ToSet(g.pcb.probe_services) # {} /\ g.pcb.probe_services \in Seq(Srv)
        BY <1>5, <3>1, EmptyList DEF Pcb
      <4>2. PICK x : x \in ToSet(h.pcb.probe_services) \ {s}
        BY <1>5, <4>1
      <4> QED BY <2>2, <2>3, <4>2
    <3>2. CASE g.pcb.probe_ip
      <4>1. PICK x \in h.tx[1].servers : x \notin Srv
        BY <1>5, <2>2, <3>2
      <4> QED BY <2>3, <4>1
    <3> QED BY <1>5, <1>9, <3>1, <3>2
  <2>5. rest[1] \in ToSet(g.tx)
    BY <1>3, <2>3, <2>4
  <2>6. Len(g.tx) \in Nat /\ DOMAIN g.tx = 1..Len(g.tx) /\ Len(g.tx) <= 1
    BY <1>3, <2>2
  <2>7. PICK j \in DOMAIN g.tx : g.tx[j] = rest[1]
    BY <2>5 DEF ToSet
  <2>8. j = 1 /\ Len(g.tx) = 1
    <3> DEFINE n == Len(g.tx)
    <3>1. n \in Nat /\ n <= 1 /\ j \in 1..n
      BY <2>6, <2>7
    <3> HIDE DEF n
    <3>2. j = 1 /\ n = 1
      BY <3>1
    <3> QED BY <3>2 DEF n
  <2> QED BY <2>1, <2>2, <2>3, <2>7, <2>8
<1>10. IsScheduled(g, live \ {s})
  <2>1. ASSUME NEW p \in ToSet(g.tx)
        PROVE  (p.answers \cup p.servers \cup p.additional) \cap Srv \subseteq live \ {s}
    <3>1. PICK j \in DOMAIN h.tx : p = rest[j] /\ h.tx[j] \in ToSet(h.tx)
      BY <1>8
    <3>2. (h.tx[j].answers \cup h.tx[j].servers \cup h.tx[j].additional) \cap Srv \subseteq live
      BY <1>2, <3>1 DEF IsScheduled
    <3> QED BY <1>3, <3>1, <3>2
  <2>2. ToSet(g.pcb.probe_services) \subseteq live \ {s}
    BY <1>2, <1>5 DEF IsScheduled
  <2>3. ASSUME g.pcb.state \in ProbeStates
        PROVE  /\ Len(g.tx) = 1 /\ g.tx[1].multicast
               /\ g.tx[1].servers \cap Srv = ToSet(g.pcb.probe_services)
               /\ g.pcb.probe_ip <=> ~(g.tx[1].servers \subseteq Srv)
               /\ g.pcb.probe_services # <<>> \/ g.pcb.probe_ip
    <3>1. /\ Len(g.tx) = 1 /\ g.tx[1] = rest[1] /\ 1 \in DOMAIN h.tx
          /\ h.tx[1].servers \cap Srv = ToSet(h.pcb.probe_services)
          /\ h.pcb.probe_ip <=> ~(h.tx[1].servers \subseteq Srv)
          /\ h.tx[1].multicast
          /\ rest[1].servers = h.tx[1].servers \ {s}
      BY <1>9, <2>3
    <3>2. g.tx[1].multicast
      BY <1>3, <3>1
    <3>3. g.tx[1].servers \cap Srv = ToSet(g.pcb.probe_services)
      BY <1>5, <3>1
    <3>4. g.tx[1].servers \subseteq Srv <=> h.tx[1].servers \subseteq Srv
      BY <3>1
    <3> QED BY <1>5, <2>3, <3>1, <3>2, <3>3, <3>4
  <2> QED BY <1>5, <2>1, <2>2, <2>3 DEF IsScheduled
<1>11. IsProbed(g, live \ {s}, count)
  <2> SUFFICES ASSUME NEW x \in (live \ {s}) \ g.unprobed
               PROVE  IF x \in ToSet(g.pcb.probe_services)
                      THEN count[x] = g.pcb.state - PCB_PROBE_1 /\ x \in Asked(g.tx[1])
                      ELSE count[x] = 3
    BY DEF IsProbed
  <2>1. x \in live \ h.unprobed /\ x # s
    BY <1>3
  <2>2. IF x \in ToSet(h.pcb.probe_services)
        THEN count[x] = h.pcb.state - PCB_PROBE_1 /\ x \in Asked(h.tx[1])
        ELSE count[x] = 3
    BY <1>2, <2>1 DEF IsProbed
  <2>3. CASE x \notin ToSet(g.pcb.probe_services)
    BY <1>5, <2>1, <2>2, <2>3
  <2>4. CASE x \in ToSet(g.pcb.probe_services)
    <3>1. g.pcb.state \in ProbeStates
      <4> SUFFICES ASSUME g.pcb.probe_services = <<>> PROVE FALSE
        BY <1>5
      <4> QED BY <2>4 DEF ToSet
    <3>2. /\ g.tx[1] = rest[1] /\ 1 \in DOMAIN h.tx /\ h.pcb.state = g.pcb.state
      BY <1>9, <3>1
    <3>3. x \in Asked(h.tx[1]) /\ count[x] = h.pcb.state - PCB_PROBE_1
      BY <1>5, <2>2, <2>4
    <3>4. x \in Asked(rest[1])
      BY <1>3, <3>2, <3>3
    <3> QED BY <2>4, <3>2, <3>3, <3>4
  <2> QED BY <2>3, <2>4
<1>12. IsAnnounced(g, live \ {s}, settled)
  <2> SUFFICES ASSUME NEW x \in (live \ {s}) \cup {Self}, x \notin settled \cup g.unprobed
               PROVE  Waits(g, x)
    BY DEF IsAnnounced
  <2>0. x # s
    BY Disjoint
  <2>1. Waits(h, x)
    BY <1>2, <1>3 DEF IsAnnounced
  <2>2. CASE g.pcb.state \in ProbeStates
    <3>1. x \in h.tx[1].servers
      BY <1>9, <2>1, <2>2 DEF Waits
    <3>2. x \in g.tx[1].servers
      BY <1>9, <2>0, <2>2, <3>1
    <3> QED BY <2>2, <3>2 DEF Waits
  <2>3. CASE g.pcb.state \notin ProbeStates /\ h.pcb.state \in ProbeStates
    <3>1. x \in h.tx[1].servers
      BY <2>1, <2>3 DEF Waits
    <3>2. h.tx[1].servers \subseteq ToSet(h.pcb.probe_services)
      BY <1>2, <1>5, <2>3 DEF IsScheduled
    <3>3. ToSet(g.pcb.probe_services) = {}
      BY <1>5, <2>3 DEF ToSet
    <3> QED BY <1>5, <2>0, <3>1, <3>2, <3>3
  <2>4. CASE g.pcb.state \notin ProbeStates /\ h.pcb.state \notin ProbeStates
    <3>1. PICK j \in DOMAIN h.tx : h.tx[j].multicast /\ x \in h.tx[j].answers
      BY <2>1, <2>4 DEF Waits, ToSet
    <3>2. rest[j] \in ToSet(rest) /\ rest[j].multicast /\ x \in rest[j].answers
      BY <1>3, <1>7, <2>0, <3>1
    <3>3. rest[j] \in ToSet(g.tx)
      BY <1>3, <3>2
    <3> QED BY <2>4, <3>2, <3>3 DEF Waits
  <2> QED BY <2>2, <2>3, <2>4
<1> QED BY <1>6, <1>10, <1>11, <1>12 DEF Good
(* The services of a list leave one after the other.                        *)
LEMMA ServicesFreed ==
  ASSUME Typed, Good(Now, Live, probed, announced \cup silenced),
         NEW list \in Seq(Srv), FreeServices(list)
  PROVE  /\ Now' \in Schedule /\ Good(Now', Live', probed, announced \cup silenced)
         /\ services' \in Seq(Srv) /\ IsInjective(services') /\ Live' = Live \ ToSet(list)
<1> DEFINE settled == announced \cup silenced
           H == {h \in Schedule : \E live : Good(h, live, probed, settled)}
           step == [x \in H \X Srv |-> mdns_priv_remove_scheduled_service_packets(x[1], x[2])]
           Then(f, k) == mdns_priv_remove_scheduled_service_packets(f[k - 1], list[k])
           Equation(f) == f = [k \in 0..Len(list) |->
                                 IF k = 0 THEN [tx |-> tx, pcb |-> pcb, unprobed |-> unprobed] ELSE Then(f, k)]
           freed == CHOOSE f : Equation(f)
<1>1. Len(list) \in Nat /\ DOMAIN list = 1..Len(list) /\ \A k \in 1..Len(list) : list[k] \in Srv
  OBVIOUS
<1>2. Now \in H
  BY DEF Typed
<1>3. step \in [H \X Srv -> H]
  <2> SUFFICES ASSUME NEW h \in H, NEW s \in Srv
               PROVE  mdns_priv_remove_scheduled_service_packets(h, s) \in H
    OBVIOUS
  <2>1. PICK live : h \in Schedule /\ Good(h, live, probed, settled)
    OBVIOUS
  <2> DEFINE g == mdns_priv_remove_scheduled_service_packets(h, s)
  <2> HIDE DEF settled, g
  <2>2. g \in Schedule /\ Good(g, live \ {s}, probed, settled)
    BY <2>1, ServiceRemoved DEF g
  <2> QED BY <2>2 DEF g
<1> HIDE DEF settled, H, step
<1>4. \E f : Equation(f)
  <2> HIDE DEF Equation, freed
  <2>1. PICK f \in [0..Len(list) -> H] : IsWalk(f, step, Now, list)
    BY <1>2, <1>3, WalkExists
  <2>2. \A k \in 1..Len(list) : f[k] = Then(f, k)
    <3> SUFFICES ASSUME NEW k \in 1..Len(list) PROVE f[k] = Then(f, k)
      OBVIOUS
    <3>1. f[k - 1] \in H /\ list[k] \in Srv
      BY <1>1
    <3>2. step[<<f[k - 1], list[k]>>] = Then(f, k)
      BY <3>1 DEF step
    <3> QED BY <2>1, <3>2 DEF IsWalk
  <2> HIDE DEF Then
  <2>3. \A k \in 0..Len(list) : k = 0 \/ k \in 1..Len(list)
    BY <1>1
  <2>4. f[0] = [tx |-> tx, pcb |-> pcb, unprobed |-> unprobed]
    BY <2>1 DEF IsWalk, Now
  <2>5. \A k \in 0..Len(list) :
           f[k] = IF k = 0 THEN [tx |-> tx, pcb |-> pcb, unprobed |-> unprobed] ELSE Then(f, k)
    BY <2>2, <2>3, <2>4
  <2>6. Equation(f)
    BY <2>5 DEF Equation
  <2> QED BY <2>6
<1>5. Equation(freed)
  BY <1>4
<1>6. /\ services' = Without(services, ToSet(list))
      /\ tx' = freed[Len(list)].tx /\ pcb' = freed[Len(list)].pcb /\ unprobed' = freed[Len(list)].unprobed
  BY DEF FreeServices
<1> HIDE DEF freed
<1>7. freed[0] = Now /\ \A k \in 1..Len(list) : freed[k] = Then(freed, k)
  <2>1. 0 \in 0..Len(list) /\ \A k \in 1..Len(list) : k \in 0..Len(list) /\ k # 0
    BY <1>1
  <2> HIDE DEF Then
  <2> QED BY <1>5, <2>1 DEF Now
<1> HIDE DEF Equation
<1> DEFINE Left(k) == Live \ {list[j] : j \in 1..k}
           Kept(k) == freed[k] \in Schedule /\ Good(freed[k], Left(k), probed, settled)
           T == {k \in Nat : k <= Len(list) => Kept(k)}
<1>8. 0 \in T
  <2>1. Left(0) = Live
    <3>1. 1..0 = {}
      OBVIOUS
    <3> QED BY <3>1
  <2> HIDE DEF Left
  <2> QED BY <1>7, <2>1 DEF Typed, settled
<1>9. ASSUME NEW n \in T PROVE n + 1 \in T
  <2> SUFFICES ASSUME n + 1 <= Len(list) PROVE Kept(n + 1)
    OBVIOUS
  <2>1. n \in Nat /\ n + 1 \in 1..Len(list) /\ (n + 1) - 1 = n /\ list[n + 1] \in Srv /\ n <= Len(list)
    BY <1>1
  <2>2. Kept(n)
    BY <2>1
  <2>3. freed[n + 1] = mdns_priv_remove_scheduled_service_packets(freed[n], list[n + 1])
    BY <1>7, <2>1
  <2>4. Left(n + 1) = Left(n) \ {list[n + 1]}
    <3>1. \A j \in 1..n + 1 : j \in 1..n \/ j = n + 1
      BY <2>1
    <3>2. n + 1 \in 1..n + 1 /\ \A j \in 1..n : j \in 1..n + 1
      BY <2>1
    <3> QED BY <3>1, <3>2
  <2> HIDE DEF Left
  <2>5. freed[n + 1] \in Schedule /\ Good(freed[n + 1], Left(n) \ {list[n + 1]}, probed, settled)
    BY <2>1, <2>2, <2>3, ServiceRemoved
  <2> QED BY <2>4, <2>5
<1> HIDE DEF Kept
<1>10. T = Nat
  BY <1>8, <1>9, SetInduction
<1>11. Kept(Len(list))
  BY <1>1, <1>10
<1>12. Now' = freed[Len(list)]
  <2>1. PICK a, b, c : freed[Len(list)] = [tx |-> a, pcb |-> b, unprobed |-> c]
    BY <1>11 DEF Kept, Schedule
  <2> QED BY <1>6, <2>1 DEF Now
<1>13. services' \in Seq(Srv) /\ ToSet(services') = ToSet(services) \ ToSet(list) /\ IsInjective(services')
  BY <1>6, WithoutElements DEF Typed
<1>14. Live' = Live \ ToSet(list) /\ Live' = Left(Len(list))
  BY <1>1, <1>13 DEF Live, ToSet
<1> QED BY <1>11, <1>12, <1>13, <1>14 DEF Kept, settled
-----------------------------------------------------------------------------
(* Probing                                                                  *)

LEMMA ProbePacketHolds ==
  ASSUME hosts \in Seq(Host), NEW list \in Seq(Srv), NEW ip \in BOOLEAN, NEW known \in Known,
         NEW p, p = ProbePacket(list, ip, known)
  PROVE  /\ p \in Packet /\ p.multicast /\ p.answers = {} /\ p.additional = {}
         /\ p.servers \cap Srv = ToSet(list) /\ (ip <=> ~(p.servers \subseteq Srv))
         /\ ToSet(list) \subseteq Asked(p)
<1> DEFINE own == [k \in DOMAIN list |-> Question("service", list[k])]
           names == [k \in DOMAIN list |-> Question("host", list[k])]
           self == <<Question("host", Self)>>
           more == IF ip THEN self \o names ELSE <<>>
           at == IF ~ip THEN {} ELSE IF list = <<>> THEN {Self} ELSE HostsOf(ToSet(list), known)
<1>1. /\ Len(list) \in Nat /\ DOMAIN list = 1..Len(list) /\ \A k \in DOMAIN list : list[k] \in Srv
      /\ ToSet(list) \subseteq Srv
  BY DEF ToSet
<1>2. /\ p.questions = own \o more /\ p.answers = {} /\ p.servers = ToSet(list) \cup at
      /\ p.additional = {} /\ p.multicast = TRUE
      /\ p = [questions |-> own \o more, answers |-> {}, servers |-> ToSet(list) \cup at,
              additional |-> {}, multicast |-> TRUE]
  BY DEF ProbePacket
<1>3. own \in Seq(Asking) /\ names \in Seq(Asking) /\ self \in Seq(Asking) /\ Len(own) = Len(list)
      /\ \A k \in DOMAIN list : own[k].type = "service" /\ own[k].of = list[k]
  BY <1>1 DEF Question, Asking
<1>4. at \subseteq Address /\ (ip <=> at # {})
  <2>1. CASE ~ip
    BY <2>1
  <2>2. CASE ip /\ list = <<>>
    BY <2>2, Disjoint
  <2>3. CASE ip /\ list # <<>>
    <3>1. ToSet(hosts) \subseteq Host
      BY DEF ToSet
    <3>2. \A h : get_host_item(h) \in Address
      BY <3>1 DEF get_host_item, Address
    <3>3. 1 \in DOMAIN list
      BY <1>1, <2>3
    <3>4. list[1] \in ToSet(list)
      BY <3>3 DEF ToSet
    <3>5. at = {get_host_item(known[s].host) : s \in ToSet(list)}
      BY <2>3 DEF HostsOf
    <3> QED BY <2>3, <3>2, <3>4, <3>5
  <2> QED BY <2>1, <2>2, <2>3
<1> HIDE DEF own, names, self, at
<1>5. more \in Seq(Asking)
  <2>1. CASE ip
    BY <1>3, <2>1
  <2>2. CASE ~ip
    BY <2>2
  <2> QED BY <2>1, <2>2
<1> HIDE DEF more
<1>6. own \o more \in Seq(Asking) /\ \A k \in 1..Len(own) : k \in DOMAIN (own \o more) /\ (own \o more)[k] = own[k]
  BY <1>3, <1>5
<1>7. ToSet(list) \subseteq Asked(p)
  <2> SUFFICES ASSUME NEW k \in DOMAIN list PROVE list[k] \in Asked(p)
    BY DEF ToSet
  <2>1. k \in DOMAIN p.questions /\ p.questions[k].type = "service" /\ p.questions[k].of = list[k]
    BY <1>1, <1>2, <1>3, <1>6
  <2> QED BY <2>1 DEF Asked
<1>8. p \in Packet
  <2>1. ToSet(list) \cup at \in SUBSET Item
    BY <1>1, <1>4 DEF Item
  <2> QED BY <1>2, <1>6, <2>1 DEF Packet
<1>9. p.servers \cap Srv = ToSet(list) /\ (ip <=> ~(p.servers \subseteq Srv))
  BY <1>1, <1>2, <1>4, Disjoint
<1> QED BY <1>2, <1>7, <1>8, <1>9

(* The one place where probing begins, whatever began it: with services of  *)
(* the list, old and new, or with the address.  The state that counts the   *)
(* probes starts over, and so does the count for all that are in the packet; *)
(* what is dropped is remembered.                                           *)
LEMMA ProbingBegins ==
  ASSUME Typed, Good(Now, Live, probed, announced \cup silenced),
         services' \in Seq(Srv), IsInjective(services'), service' \in Known, hosts' \in Seq(Host),
         \A s \in Live' : service'[s].type \in Type,
         NEW list \in Seq(Srv), IsInjective(list), NEW ip \in BOOLEAN, list # <<>> \/ ip,
         NEW old, old = pcb.probe_services \/ old = <<>>,
         NEW renamed, renamed \subseteq ToSet(list) \cup {Self}, Self \in renamed => ip,
         ToSet(list) \subseteq Live', Live \subseteq Live', Live' \subseteq Live \cup ToSet(list),
         InitProbe(list, ip, old, renamed)
  PROVE  IInv'
<1> DEFINE probing == pcb.state \in ProbeStates
           new == IF Probing THEN init_probe_new_service(list, old) ELSE list
           all == ToSet(new)
           with_ip == pcb.probe_ip \/ ip
           p == ProbePacket(new, with_ip, service')
           waiting == (UNION {tx[k].answers : k \in DOMAIN tx}) \cap (Srv \cup {Self})
           left_out == IF with_ip THEN {Self} ELSE {}
<1>1. /\ pcb' = [state |-> PCB_PROBE_1, probe_services |-> new, probe_ip |-> with_ip, probe_running |-> TRUE]
      /\ tx' = <<p>>
      /\ probed' = [s \in Srv |-> IF s \in all THEN 0 ELSE probed[s]]
      /\ announced' = announced \ renamed
      /\ unprobed' = (unprobed \cup (ToSet(pcb.probe_services) \ ToSet(old))) \ all
      /\ silenced' = (silenced \cup (waiting \ announced) \cup left_out) \ p.servers
  BY DEF InitProbe
<1>2. Now.tx = tx /\ Now.pcb = pcb /\ Now.unprobed = unprobed
  BY DEF Now
<1>3. /\ tx \in Seq(Packet) /\ pcb \in Pcb /\ unprobed \subseteq Srv
      /\ pcb.probe_services \in Seq(Srv) /\ pcb.probe_ip \in BOOLEAN
      /\ DOMAIN tx = 1..Len(tx) /\ Len(tx) \in Nat
  BY <1>2 DEF Typed, Schedule, Pcb
<1>4. IsScheduled(Now, Live) /\ IsProbed(Now, Live, probed) /\ IsAnnounced(Now, Live, announced \cup silenced)
  BY DEF Good
<1>5. old \in Seq(Srv) /\ ToSet(old) \subseteq ToSet(pcb.probe_services) /\ IsInjective(old)
      /\ ToSet(pcb.probe_services) \subseteq Live
  <2>1. CASE old = pcb.probe_services
    BY <1>2, <1>3, <1>4, <2>1 DEF IsScheduled
  <2>2. CASE old = <<>>
    BY <1>2, <1>4, <2>2 DEF IsScheduled, ToSet, IsInjective
  <2> QED BY <2>1, <2>2
<1>6. /\ new \in Seq(Srv) /\ IsInjective(new) /\ ToSet(list) \subseteq all /\ all \subseteq Live'
      /\ probing => all = ToSet(list) \cup ToSet(old)
  <2>1. CASE ~Probing
    BY <2>1 DEF Probing, ProbeStates
  <2>2. CASE Probing
    <3> DEFINE fresh == Without(list, ToSet(old))
    <3>1. fresh \in Seq(Srv) /\ ToSet(fresh) = ToSet(list) \ ToSet(old) /\ IsInjective(fresh)
      BY WithoutElements
    <3>2. new = fresh \o old
      BY <2>2 DEF init_probe_new_service
    <3> HIDE DEF fresh, new
    <3>3. /\ fresh \o old \in Seq(Srv) /\ ToSet(fresh \o old) = ToSet(fresh) \cup ToSet(old)
          /\ IsInjective(fresh \o old)
      BY <1>5, <3>1, ConcatElements
    <3> QED BY <1>5, <3>1, <3>2, <3>3
  <2> QED BY <2>1, <2>2
<1>7. new # <<>> \/ with_ip
  <2>1. CASE ip
    BY <1>3, <2>1
  <2>2. CASE list # <<>>
    <3>1. ToSet(list) # {}
      BY <2>2, EmptyList
    <3> HIDE DEF new, with_ip
    <3>2. all # {} /\ all = ToSet(new)
      BY <1>6, <3>1
    <3> HIDE DEF all
    <3>3. new # <<>>
      BY <1>6, <3>2, EmptyList
    <3> QED BY <3>3
  <2> QED BY <2>1, <2>2
<1>8. with_ip \in BOOLEAN
  BY <1>3
<1> HIDE DEF new, with_ip, waiting
<1>9. /\ p \in Packet /\ p.multicast /\ p.answers = {} /\ p.additional = {}
      /\ p.servers \cap Srv = all /\ (with_ip <=> ~(p.servers \subseteq Srv))
      /\ all \subseteq Asked(p)
  BY <1>6, <1>8, ProbePacketHolds DEF Typed
<1> HIDE DEF p, all
<1>10. /\ Now'.tx = <<p>> /\ Now'.tx[1] = p /\ Len(Now'.tx) = 1 /\ ToSet(Now'.tx) = {p}
       /\ Now'.pcb.state = PCB_PROBE_1 /\ Now'.pcb.state \in ProbeStates
       /\ Now'.pcb.probe_services = new /\ Now'.pcb.probe_ip = with_ip /\ Now'.pcb.probe_running = TRUE
       /\ Now'.unprobed = unprobed'
  <2>1. Now'.tx = <<p>> /\ Now'.pcb = pcb' /\ Now'.unprobed = unprobed'
    BY <1>1 DEF Now
  <2> QED BY <1>1, <2>1 DEF ToSet, ProbeStates
<1>11. Now' \in Schedule
  <2>1. pcb' \in Pcb
    BY <1>1, <1>6, <1>8 DEF Pcb
  <2>2. tx' \in Seq(Packet)
    BY <1>1, <1>9
  <2>3. unprobed' \subseteq Srv
    BY <1>1, <1>3, <1>5 DEF ToSet
  <2> QED BY <2>1, <2>2, <2>3 DEF Now, Schedule
<1>12. Typed'
  <2>1. probed' \in [Srv -> 0..3]
    BY <1>1 DEF Typed
  <2>2. announced' \cup silenced' \subseteq Srv \cup {Self}
    <3>1. left_out \subseteq {Self} /\ waiting \subseteq Srv \cup {Self}
      BY DEF waiting
    <3> QED BY <1>1, <3>1 DEF Typed
  <2> QED BY <1>11, <2>1, <2>2 DEF Typed
<1>13. IsScheduled(Now', Live')
  BY <1>6, <1>7, <1>9, <1>10 DEF IsScheduled, all
<1>14. IsProbed(Now', Live', probed')
  <2> SUFFICES ASSUME NEW s \in Live' \ unprobed'
               PROVE  IF s \in all THEN probed'[s] = 0 /\ s \in Asked(p) ELSE probed'[s] = 3
    BY <1>10 DEF IsProbed, all
  <2>1. s \in Srv
    BY DEF Live, ToSet
  <2>2. CASE s \in all
    BY <1>1, <1>9, <2>1, <2>2
  <2>3. CASE s \notin all
    <3>1. s \in Live \ unprobed /\ s \notin ToSet(pcb.probe_services) \ ToSet(old)
      BY <1>1, <1>6, <2>3
    <3>2. s \notin ToSet(pcb.probe_services)
      <4>1. CASE probing
        BY <1>6, <2>3, <3>1, <4>1
      <4>2. CASE ~probing
        <5>1. pcb.probe_services = <<>>
          BY <1>2, <1>4, <4>2 DEF IsScheduled
        <5> QED BY <5>1 DEF ToSet
      <4> QED BY <4>1, <4>2
    <3>3. probed[s] = 3
      BY <1>2, <1>4, <3>1, <3>2 DEF IsProbed
    <3> QED BY <1>1, <2>1, <2>3, <3>3
  <2> QED BY <2>2, <2>3
<1>15. IsAnnounced(Now', Live', announced' \cup silenced')
  <2> SUFFICES ASSUME NEW s \in Live' \cup {Self}, s \notin announced' \cup silenced' \cup unprobed', s \notin p.servers
               PROVE  FALSE
    BY <1>10 DEF IsAnnounced, Waits
  <2>0. s \in Srv \cup {Self}
    BY DEF Live, ToSet
  <2>1. s \notin all /\ s \in Live \cup {Self} /\ s \notin silenced /\ s \notin left_out /\ s \in Srv \cup {Self}
    <3>1. s \notin all
      BY <1>9
    <3>2. s \in Live \cup {Self}
      BY <1>6, <3>1
    <3> HIDE DEF left_out
    <3>3. s \notin silenced /\ s \notin left_out
      BY <1>1
    <3> QED BY <2>0, <3>1, <3>2, <3>3
  <2>2. s = Self => ~with_ip
    BY <2>1
  <2>3. s \notin renamed
    <3>1. with_ip \/ ~ip
      BY DEF with_ip
    <3> QED BY <1>6, <2>1, <2>2, <3>1
  <2>4. s \notin announced /\ s \notin waiting \ announced
    BY <1>1, <2>3
  <2>5. s \notin unprobed /\ s \notin ToSet(pcb.probe_services) \ ToSet(old)
    BY <1>1, <2>1
  <2>6. Waits(Now, s)
    BY <1>2, <1>4, <2>1, <2>4, <2>5 DEF IsAnnounced
  <2>7. CASE probing
    <3>1. s \in tx[1].servers
      BY <1>2, <2>6, <2>7 DEF Waits
    <3>2. s \notin ToSet(pcb.probe_services)
      BY <1>6, <2>1, <2>5, <2>7
    <3>3. tx[1].servers \cap Srv = ToSet(pcb.probe_services) /\ (pcb.probe_ip <=> ~(tx[1].servers \subseteq Srv))
      BY <1>2, <1>4, <2>7 DEF IsScheduled
    <3>4. s = Self /\ pcb.probe_ip
      BY <2>1, <3>1, <3>2, <3>3, Disjoint
    <3> QED BY <2>2, <3>4 DEF with_ip
  <2>8. CASE ~probing
    <3>1. PICK q \in ToSet(tx) : s \in q.answers
      BY <1>2, <2>6, <2>8 DEF Waits
    <3>2. PICK k \in DOMAIN tx : q = tx[k]
      BY <3>1 DEF ToSet
    <3>3. s \in waiting
      BY <2>1, <3>1, <3>2 DEF waiting
    <3> QED BY <2>4, <3>3
  <2> QED BY <2>7, <2>8
<1> QED BY <1>12, <1>13, <1>14, <1>15 DEF IInv, Good
-----------------------------------------------------------------------------
(* The steps                                                                *)

LEMMA Holds ==
  ASSUME IInv
  PROVE  /\ tx \in Seq(Packet) /\ pcb \in Pcb /\ unprobed \subseteq Srv /\ Live \subseteq Srv
         /\ pcb.state \in PCB_PROBE_1..PCB_RUNNING /\ (Probing <=> pcb.state \in ProbeStates)
         /\ IsScheduled(Now, Live) /\ IsProbed(Now, Live, probed)
         /\ IsAnnounced(Now, Live, announced \cup silenced)
         /\ Now.tx = tx /\ Now.pcb = pcb /\ Now.unprobed = unprobed
<1>1. Now.tx = tx /\ Now.pcb = pcb /\ Now.unprobed = unprobed
  BY DEF Now
<1>2. tx \in Seq(Packet) /\ pcb \in Pcb /\ unprobed \subseteq Srv
  BY <1>1 DEF IInv, Typed, Schedule
<1>3. Live \subseteq Srv
  BY DEF IInv, Typed, Live, ToSet
<1> QED BY <1>1, <1>2, <1>3 DEF IInv, Good, Pcb, Probing, ProbeStates

LEMMA One ==
  ASSUME NEW s \in Srv
  PROVE  <<s>> \in Seq(Srv) /\ IsInjective(<<s>>) /\ ToSet(<<s>>) = {s} /\ <<s>> # <<>>
BY DEF IsInjective, ToSet

LEMMA InitHolds == Init => IInv
<1> SUFFICES ASSUME Init PROVE IInv
  OBVIOUS
<1> DEFINE p == ProbePacket(<<>>, TRUE, service)
<1>1. /\ services = <<>> /\ hosts = <<>> /\ tx = <<p>> /\ announced = {} /\ unprobed = {} /\ silenced = {}
      /\ pcb = [state |-> PCB_PROBE_1, probe_services |-> <<>>, probe_ip |-> TRUE, probe_running |-> TRUE]
      /\ service = [s \in Srv |-> [type |-> None, instance |-> None, host |-> None]]
      /\ probed = [s \in Srv |-> 0]
  BY DEF Init
<1>2. <<>> \in Seq(Srv) /\ hosts \in Seq(Host) /\ service \in Known /\ Live = {} /\ ToSet(<<>>) = {} /\ IsInjective(<<>>)
  BY <1>1 DEF Known, Live, ToSet, Address, IsInjective
<1>3. p.servers = {Self}
  BY DEF ProbePacket, ToSet
<1>4. p \in Packet /\ p.multicast /\ p.answers = {} /\ p.additional = {}
  BY <1>2, ProbePacketHolds
<1> HIDE DEF p
<1>5. /\ Now.tx = <<p>> /\ Now.tx[1] = p /\ Len(Now.tx) = 1 /\ ToSet(Now.tx) = {p}
      /\ Now.pcb.state = PCB_PROBE_1 /\ Now.pcb.state \in ProbeStates
      /\ Now.pcb.probe_services = <<>> /\ Now.pcb.probe_ip = TRUE /\ Now.pcb.probe_running = TRUE
      /\ Now.unprobed = {}
  BY <1>1 DEF Now, ToSet, ProbeStates
<1>6. Now \in Schedule
  <2>1. pcb \in Pcb
    BY <1>1, <1>2 DEF Pcb
  <2>2. tx \in Seq(Packet)
    BY <1>1, <1>4
  <2> QED BY <1>1, <2>1, <2>2 DEF Now, Schedule
<1>7. Typed
  BY <1>1, <1>2, <1>6 DEF Typed
<1>8. IsScheduled(Now, Live)
  BY <1>2, <1>3, <1>4, <1>5, Disjoint DEF IsScheduled
<1>9. IsProbed(Now, Live, probed)
  BY <1>2 DEF IsProbed
<1>10. IsAnnounced(Now, Live, announced \cup silenced)
  BY <1>2, <1>3, <1>5 DEF IsAnnounced, Waits
<1> QED BY <1>7, <1>8, <1>9, <1>10 DEF IInv, Good

(* A step of an interface that has probed, and goes on without probing      *)
LEMMA RunsOn ==
  ASSUME IInv, ~Probing, UNCHANGED <<services, service, hosts, unprobed>>,
         NEW x \in PCB_ANNOUNCE_1..PCB_RUNNING, pcb' = [pcb EXCEPT !.state = x],
         tx' \in Seq(Packet),
         \A p \in ToSet(tx') : (p.answers \cup p.servers \cup p.additional) \cap Srv \subseteq Live,
         probed' \in [Srv -> 0..3], \A s \in Srv : probed[s] = 3 => probed'[s] = 3,
         announced' \cup silenced' \subseteq Srv \cup {Self},
         \A s \in Live \cup {Self} :
            s \in announced \cup silenced \/ (\E p \in ToSet(tx) : p.multicast /\ s \in p.answers)
            => s \in announced' \cup silenced' \/ (\E p \in ToSet(tx') : p.multicast /\ s \in p.answers)
  PROVE  IInv'
<1>1. /\ pcb \in Pcb /\ unprobed \subseteq Srv /\ Live \subseteq Srv
      /\ pcb.state \notin ProbeStates
      /\ IsScheduled(Now, Live) /\ IsProbed(Now, Live, probed)
      /\ IsAnnounced(Now, Live, announced \cup silenced)
      /\ Now.tx = tx /\ Now.pcb = pcb /\ Now.unprobed = unprobed
  BY Holds
<1>2. Now'.tx = tx' /\ Now'.pcb = pcb' /\ Now'.unprobed = unprobed /\ Live' = Live
  BY DEF Now, Live
<1>3. /\ pcb' \in Pcb /\ pcb'.state = x /\ pcb'.state \notin ProbeStates
      /\ pcb'.probe_services = pcb.probe_services /\ pcb'.probe_running = pcb.probe_running
  <2>1. /\ pcb'.state = x /\ pcb'.probe_services = pcb.probe_services
        /\ pcb'.probe_ip = pcb.probe_ip /\ pcb'.probe_running = pcb.probe_running
        /\ x \in PCB_PROBE_1..PCB_RUNNING /\ x \notin ProbeStates
    BY <1>1 DEF Pcb, ProbeStates
  <2>2. pcb' \in Pcb
    BY <1>1, <2>1 DEF Pcb
  <2> QED BY <2>1, <2>2
<1>4. Now' \in Schedule
  BY <1>1, <1>3 DEF Now, Schedule
<1>5. Typed'
  BY <1>2, <1>4 DEF IInv, Typed
<1>6. IsScheduled(Now', Live')
  BY <1>1, <1>2, <1>3 DEF IsScheduled
<1>7. pcb.probe_services = <<>>
  BY <1>1 DEF IsScheduled
<1>8. IsProbed(Now', Live', probed')
  <2> SUFFICES ASSUME NEW s \in Live \ unprobed PROVE s \notin ToSet(pcb'.probe_services) /\ probed'[s] = 3
    BY <1>2 DEF IsProbed
  <2>1. s \notin ToSet(pcb.probe_services)
    BY <1>7 DEF ToSet
  <2> QED BY <1>1, <1>3, <2>1 DEF IsProbed
<1>9. IsAnnounced(Now', Live', announced' \cup silenced')
  <2> SUFFICES ASSUME NEW s \in Live \cup {Self}, s \notin unprobed
               PROVE  s \in announced' \cup silenced' \/ (\E p \in ToSet(tx') : p.multicast /\ s \in p.answers)
    BY <1>2, <1>3 DEF IsAnnounced, Waits
  <2>1. s \in announced \cup silenced \/ (\E p \in ToSet(tx) : p.multicast /\ s \in p.answers)
    BY <1>1 DEF IsAnnounced, Waits
  <2> QED BY <2>1
<1> QED BY <1>5, <1>6, <1>8, <1>9 DEF IInv, Good

(* Probing of services that are there, with nothing renamed or with them    *)
LEMMA ProbingOf ==
  ASSUME IInv, UNCHANGED <<services, hosts>>, service' \in Known, \A s \in Live : service'[s].type \in Type,
         NEW list \in Seq(Srv), IsInjective(list), ToSet(list) \subseteq Live, NEW ip \in BOOLEAN,
         list # <<>> \/ ip, NEW renamed, renamed \subseteq ToSet(list) \cup {Self}, Self \in renamed => ip,
         mdns_priv_init_pcb_probe(list, ip, renamed) \/ ProbeAfresh(list, ip, renamed)
  PROVE  IInv'
<1>1. PICK old : (old = pcb.probe_services \/ old = <<>>) /\ InitProbe(list, ip, old, renamed)
  BY DEF mdns_priv_init_pcb_probe, ProbeAfresh
<1>2. Live' = Live
  BY DEF Live
<1> QED BY <1>1, <1>2, ProbingBegins DEF IInv, Typed

LEMMA RestartAll ==
  ASSUME IInv, UNCHANGED <<services, service, hosts>>, mdns_priv_restart_all_pcbs
  PROVE  IInv'
<1>1. services \in Seq(Srv) /\ IsInjective(services) /\ ToSet(services) = Live /\ service \in Known
      /\ \A s \in Live : service[s].type \in Type
  BY DEF IInv, Typed, Live
<1>2. ProbeAfresh(services, TRUE, Live \cup {Self})
  BY DEF mdns_priv_restart_all_pcbs
<1> QED BY <1>1, <1>2, ProbingOf

LEMMA RestartNoInstance ==
  ASSUME IInv, UNCHANGED <<services, service, hosts>>, mdns_priv_restart_all_pcbs_no_instance
  PROVE  IInv'
<1>1. services \in Seq(Srv) /\ IsInjective(services) /\ ToSet(services) = Live /\ service \in Known
      /\ \A s \in Live : service[s].type \in Type
  BY DEF IInv, Typed, Live
<1>2. NoInstance \in Seq(Srv) /\ IsInjective(NoInstance) /\ ToSet(NoInstance) \subseteq Live
  <2> DEFINE named == {s \in Live : service[s].instance # None}
  <2>1. NoInstance = Without(services, named)
    BY DEF NoInstance
  <2> HIDE DEF named
  <2> QED BY <1>1, <2>1, WithoutElements
<1>3. CASE NoInstance # <<>> /\ ProbeAfresh(NoInstance, FALSE, ToSet(NoInstance))
  <2>1. Self \notin ToSet(NoInstance)
    BY <1>2, Holds, Disjoint
  <2> QED BY <1>1, <1>2, <1>3, <2>1, ProbingOf
<1>4. CASE UNCHANGED <<pcb, tx, probed, announced, unprobed, silenced>>
  BY <1>4 DEF IInv, Typed, Now, Live
<1> QED BY <1>3, <1>4 DEF mdns_priv_restart_all_pcbs_no_instance
LEMMA Renamed ==
  ASSUME service \in Known, NEW s \in Srv, NEW i \in Instance \cup {None},
         service' = [service EXCEPT ![s].instance = i]
  PROVE  service' \in Known /\ \A x \in Srv : service'[x].type = service[x].type
BY DEF Known

LEMMA AddKeeps ==
  ASSUME IInv, NEW t \in Type, NEW h \in Host \cup {Self}, NEW i \in Instance \cup {None},
         mdns_service_add_for_host(i, t, h)
  PROVE  IInv'
<1>1. PICK s \in Srv :
         /\ service[s].type = None
         /\ service' = [service EXCEPT ![s] = [type |-> t, instance |-> i, host |-> h]]
         /\ services' = <<s>> \o services
         /\ mdns_priv_init_pcb_probe(<<s>>, FALSE, {})
         /\ hosts' = hosts
  BY DEF mdns_service_add_for_host
<1>2. /\ services \in Seq(Srv) /\ IsInjective(services) /\ service \in Known /\ hosts \in Seq(Host)
      /\ \A x \in Live : service[x].type \in Type
  BY DEF IInv, Typed
<1>3. s \notin Live
  BY <1>1, <1>2, NoneAssumption
<1>4. services' \in Seq(Srv) /\ IsInjective(services') /\ Live' = Live \cup {s}
  BY <1>1, <1>2, <1>3, PrependElements DEF Live
<1>5. service' \in Known /\ \A x \in Live' : service'[x].type \in Type
  <2>1. [type |-> t, instance |-> i, host |-> h] \in [type : Type \cup {None}, instance : Instance \cup {None}, host : Address]
    BY DEF Address
  <2>2. service' \in Known
    BY <1>1, <1>2, <2>1 DEF Known
  <2>3. Live \subseteq Srv
    BY Holds
  <2> QED BY <1>1, <1>2, <1>4, <2>2, <2>3 DEF Known
<1>6. <<s>> \in Seq(Srv) /\ IsInjective(<<s>>) /\ ToSet(<<s>>) = {s} /\ <<s>> # <<>>
  BY One
<1>7. InitProbe(<<s>>, FALSE, pcb.probe_services, {})
  BY <1>1 DEF mdns_priv_init_pcb_probe
<1>8. Typed /\ Good(Now, Live, probed, announced \cup silenced) /\ hosts' \in Seq(Host)
  BY <1>1, <1>2 DEF IInv
<1>9. ToSet(<<s>>) \subseteq Live' /\ Live \subseteq Live' /\ Live' \subseteq Live \cup ToSet(<<s>>)
  BY <1>4, <1>6
<1> DEFINE list == <<s>>
<1> HIDE DEF list
<1>10. \A renamed : renamed = {} => renamed \subseteq ToSet(list) \cup {Self} /\ Self \notin renamed
  OBVIOUS
<1> QED BY <1>4, <1>5, <1>6, <1>7, <1>8, <1>9, <1>10, ProbingBegins DEF list

LEMMA SendAfterMembers ==
  ASSUME NEW list \in Seq(Packet), NEW p \in Packet, SendAfter(list, p)
  PROVE  tx' \in Seq(Packet) /\ Len(tx') = Len(list) + 1 /\ ToSet(tx') = ToSet(list) \cup {p}
<1>1. PICK k \in 1..Len(list) + 1 : tx' = InsertAt(list, k, p)
  BY DEF SendAfter
<1>2. ToSet(InsertAt(list, k, p)) = ToSet(list) \cup {p}
  BY InsertAtMembers
<1>3. InsertAt(list, k, p) \in Seq(Packet) /\ Len(InsertAt(list, k, p)) = Len(list) + 1
  BY InsertAtElements
<1> QED BY <1>1, <1>2, <1>3

LEMMA HostsAreNoServices ==
  ASSUME hosts \in Seq(Host), NEW S, NEW known
  PROVE  HostsOf(S, known) \subseteq Address
<1>1. ToSet(hosts) \subseteq Host
  BY DEF ToSet
<1> QED BY <1>1 DEF HostsOf, get_host_item, Address

(* What is announced takes the first packet that waits, or is dropped.      *)
LEMMA AnnounceKeeps ==
  ASSUME IInv, UNCHANGED <<services, service, hosts>>, NEW s \in Live, NEW ip \in BOOLEAN,
         mdns_priv_pcb_announce(s, ip)
  PROVE  IInv'
<1> DEFINE host == IF ip THEN HostsOf({s}, service) ELSE {}
<1>1. /\ services \in Seq(Srv) /\ service \in Known /\ hosts \in Seq(Host) /\ probed \in [Srv -> 0..3]
      /\ \A x \in Live : service[x].type \in Type /\ announced \cup silenced \subseteq Srv \cup {Self}
  BY DEF IInv, Typed
<1>2. /\ tx \in Seq(Packet) /\ pcb \in Pcb /\ unprobed \subseteq Srv /\ Live \subseteq Srv /\ s \in Srv
      /\ pcb.state \in PCB_PROBE_1..PCB_RUNNING /\ IsScheduled(Now, Live) /\ Now.tx = tx
  BY Holds
<1>3. host \subseteq Address /\ host \cap Srv = {} /\ {s} \cup host \subseteq Item
  BY <1>1, <1>2, HostsAreNoServices, Disjoint DEF Item
<1> HIDE DEF host
<1>4. CASE mdns_priv_init_pcb_probe(<<s>>, ip, {s})
  <2>1. <<s>> \in Seq(Srv) /\ IsInjective(<<s>>) /\ ToSet(<<s>>) = {s} /\ <<s>> # <<>>
    BY <1>2, One
  <2>2. Self # s
    BY <1>2, Disjoint
  <2> QED BY <1>1, <1>4, <2>1, <2>2, ProbingOf
<1>5. ASSUME Announcing, tx # <<>>, tx' = [tx EXCEPT ![1].answers = @ \cup {s} \cup host],
             pcb' = [pcb EXCEPT !.state = PCB_ANNOUNCE_1], announced' = announced \ {s},
             silenced' = IF Head(tx).multicast THEN silenced \ {s} ELSE silenced \cup {s},
             UNCHANGED <<probed, unprobed>>
      PROVE  IInv'
  <2> DEFINE p == tx[1]
             q == [p EXCEPT !.answers = @ \cup {s} \cup host]
  <2>1. DOMAIN tx = 1..Len(tx) /\ Len(tx) \in Nat /\ 1 \in DOMAIN tx /\ p \in Packet /\ Head(tx) = p
    BY <1>2, <1>5
  <2>2. /\ q \in Packet /\ q.answers = p.answers \cup {s} \cup host /\ q.servers = p.servers
        /\ q.additional = p.additional /\ q.multicast = p.multicast
    BY <1>3, <2>1 DEF Packet
  <2>3. tx' = [tx EXCEPT ![1] = q]
    BY <1>5
  <2> HIDE DEF p, q
  <2>4. /\ tx' \in Seq(Packet) /\ DOMAIN tx' = DOMAIN tx /\ tx'[1] = q
        /\ \A k \in DOMAIN tx : k # 1 => tx'[k] = tx[k]
    BY <1>2, <2>1, <2>2, <2>3
  <2>5. \A x \in ToSet(tx') : x = q \/ x \in ToSet(tx)
    BY <2>4 DEF ToSet
  <2>6. p \in ToSet(tx) /\ q \in ToSet(tx') /\ \A x \in ToSet(tx) : x = p \/ x \in ToSet(tx')
    BY <2>1, <2>4 DEF ToSet, p
  <2>7. \A x \in ToSet(tx') : (x.answers \cup x.servers \cup x.additional) \cap Srv \subseteq Live
    <3>1. \A x \in ToSet(tx) : (x.answers \cup x.servers \cup x.additional) \cap Srv \subseteq Live
      BY <1>2 DEF IsScheduled
    <3> QED BY <1>3, <2>2, <2>5, <2>6, <3>1
  <2>8. ASSUME NEW x \in Live \cup {Self},
               x \in announced \cup silenced \/ (\E e \in ToSet(tx) : e.multicast /\ x \in e.answers)
        PROVE  x \in announced' \cup silenced' \/ (\E e \in ToSet(tx') : e.multicast /\ x \in e.answers)
    <3>1. CASE x = s
      <4>1. CASE p.multicast
        BY <2>2, <2>6, <3>1, <4>1
      <4>2. CASE ~p.multicast
        BY <1>5, <2>1, <3>1, <4>2
      <4> QED BY <4>1, <4>2
    <3>2. CASE x # s /\ x \in announced \cup silenced
      BY <1>5, <3>2
    <3>3. CASE \E e \in ToSet(tx) : e.multicast /\ x \in e.answers
      <4>1. PICK e \in ToSet(tx) : e.multicast /\ x \in e.answers
        BY <3>3
      <4> QED BY <2>2, <2>6, <4>1
    <3> QED BY <2>8, <3>1, <3>2, <3>3
  <2>9. announced' \cup silenced' \subseteq Srv \cup {Self}
    BY <1>1, <1>2, <1>5
  <2>10. ~Probing /\ PCB_ANNOUNCE_1 \in PCB_ANNOUNCE_1..PCB_RUNNING
    BY <1>2, <1>5 DEF Announcing, Probing
  <2> QED BY <1>1, <1>5, <2>4, <2>7, <2>8, <2>9, <2>10, RunsOn
<1>6. ASSUME Announcing, announced' = announced \ {s}, silenced' = silenced \cup {s},
             UNCHANGED <<tx, pcb, probed, unprobed>>
      PROVE  IInv'
  <2>1. ~Probing /\ pcb.state \in PCB_ANNOUNCE_1..PCB_RUNNING /\ pcb' = [pcb EXCEPT !.state = pcb.state]
    BY <1>2, <1>6 DEF Announcing, Probing, Pcb
  <2>2. announced' \cup silenced' \subseteq Srv \cup {Self} /\ announced \cup silenced \subseteq announced' \cup silenced'
    BY <1>1, <1>2, <1>6
  <2>3. \A x \in ToSet(tx) : (x.answers \cup x.servers \cup x.additional) \cap Srv \subseteq Live
    BY <1>2 DEF IsScheduled
  <2> QED BY <1>1, <1>2, <1>6, <2>1, <2>2, <2>3, RunsOn
<1>7. ASSUME pcb.state = PCB_RUNNING, SendAfter(tx, AnswerPacket({s}, host, {}, TRUE)),
             pcb' = [pcb EXCEPT !.state = PCB_ANNOUNCE_1], announced' = announced \ {s},
             silenced' = silenced \ {s}, UNCHANGED <<probed, unprobed>>
      PROVE  IInv'
  <2> DEFINE q == AnswerPacket({s}, host, {}, TRUE)
  <2>1. /\ q \in Packet /\ q.answers = {s} /\ q.servers = host /\ q.additional = {} /\ q.multicast = TRUE
    BY <1>2, <1>3 DEF AnswerPacket, Packet, Item
  <2> HIDE DEF q
  <2>2. tx' \in Seq(Packet) /\ ToSet(tx') = ToSet(tx) \cup {q}
    BY <1>2, <1>7, <2>1, SendAfterMembers DEF q
  <2>3. \A x \in ToSet(tx') : (x.answers \cup x.servers \cup x.additional) \cap Srv \subseteq Live
    <3>1. \A x \in ToSet(tx) : (x.answers \cup x.servers \cup x.additional) \cap Srv \subseteq Live
      BY <1>2 DEF IsScheduled
    <3> QED BY <1>3, <2>1, <2>2, <3>1
  <2>4. \A x \in Live \cup {Self} :
           x \in announced \cup silenced \/ (\E e \in ToSet(tx) : e.multicast /\ x \in e.answers)
           => x \in announced' \cup silenced' \/ (\E e \in ToSet(tx') : e.multicast /\ x \in e.answers)
    BY <1>7, <2>1, <2>2
  <2>5. announced' \cup silenced' \subseteq Srv \cup {Self}
    BY <1>1, <1>7
  <2>6. ~Probing /\ PCB_ANNOUNCE_1 \in PCB_ANNOUNCE_1..PCB_RUNNING
    BY <1>7 DEF Probing
  <2> QED BY <1>1, <1>7, <2>2, <2>3, <2>4, <2>5, <2>6, RunsOn
<1>8. \/ mdns_priv_init_pcb_probe(<<s>>, ip, {s})
      \/ /\ Announcing /\ tx # <<>> /\ tx' = [tx EXCEPT ![1].answers = @ \cup {s} \cup host]
         /\ pcb' = [pcb EXCEPT !.state = PCB_ANNOUNCE_1] /\ announced' = announced \ {s}
         /\ silenced' = IF Head(tx).multicast THEN silenced \ {s} ELSE silenced \cup {s}
         /\ UNCHANGED <<probed, unprobed>>
      \/ /\ Announcing /\ announced' = announced \ {s} /\ silenced' = silenced \cup {s}
         /\ UNCHANGED <<tx, pcb, probed, unprobed>>
      \/ /\ pcb.state = PCB_RUNNING /\ SendAfter(tx, AnswerPacket({s}, host, {}, TRUE))
         /\ pcb' = [pcb EXCEPT !.state = PCB_ANNOUNCE_1] /\ announced' = announced \ {s}
         /\ silenced' = silenced \ {s} /\ UNCHANGED <<probed, unprobed>>
  BY DEF mdns_priv_pcb_announce, host
<1> QED BY <1>4, <1>5, <1>6, <1>7, <1>8
LEMMA FreeKeeps ==
  ASSUME IInv, NEW list \in Seq(Srv), FreeServices(list), hosts' \in Seq(Host)
  PROVE  IInv'
<1>1. Typed /\ Good(Now, Live, probed, announced \cup silenced)
  BY DEF IInv
<1>2. UNCHANGED <<service, instance, probed, announced, silenced>>
  BY DEF FreeServices
<1>3. /\ Now' \in Schedule /\ Good(Now', Live', probed, announced \cup silenced)
      /\ services' \in Seq(Srv) /\ IsInjective(services') /\ Live' = Live \ ToSet(list)
  BY <1>1, ServicesFreed
<1>4. Typed'
  BY <1>1, <1>2, <1>3 DEF Typed
<1> QED BY <1>2, <1>3, <1>4 DEF IInv

LEMMA AnswersAreOurs ==
  ASSUME IInv, NEW a \in AnswersTo
  PROVE  a.answers \subseteq Live \cup Address /\ a.additional \subseteq Live
<1> DEFINE about == {{s \in Live : service[s].type = t} : t \in Type} \cup {{s} : s \in Live}
           addresses == {{get_host_item(h)} : h \in ToSet(hosts) \cup {Self}} \cup {append_host_list}
<1>1. AnswersTo = {[answers |-> S, additional |-> S] : S \in about}
                    \cup {[answers |-> A, additional |-> {}] : A \in about \cup addresses}
  BY DEF AnswersTo
<1>2. \A S \in about : S \subseteq Live
  OBVIOUS
<1>3. hosts \in Seq(Host) /\ ToSet(hosts) \subseteq Host
  BY DEF IInv, Typed, ToSet
<1>4. append_host_list \subseteq Address
  <2>1. CASE hosts = <<>>
    BY <2>1 DEF append_host_list, Address
  <2>2. CASE hosts # <<>>
    <3>1. Tail(hosts) \in Seq(Host)
      BY <1>3, <2>2
    <3>2. ToSet(Tail(hosts)) \subseteq Host
      BY <3>1 DEF ToSet
    <3> QED BY <2>2, <3>2 DEF append_host_list, Address
  <2> QED BY <2>1, <2>2
<1>5. \A h : get_host_item(h) \in Address
  BY <1>3 DEF get_host_item, Address
<1>6. \A A \in addresses : A \subseteq Address
  BY <1>4, <1>5
<1> HIDE DEF about, addresses
<1>7. CASE a \in {[answers |-> S, additional |-> S] : S \in about}
  BY <1>2, <1>7
<1>8. CASE a \in {[answers |-> A, additional |-> {}] : A \in about \cup addresses}
  BY <1>2, <1>6, <1>8
<1> QED BY <1>1, <1>7, <1>8

LEMMA AnswerKeeps ==
  ASSUME IInv, mdns_priv_create_answer_from_parsed_packet
  PROVE  IInv'
<1>1. PICK a \in AnswersTo, multicast \in BOOLEAN :
         SendAfter(tx, AnswerPacket(a.answers, {}, a.additional, multicast))
  BY DEF mdns_priv_create_answer_from_parsed_packet
<1>2. /\ UNCHANGED <<services, service, hosts, instance, pcb, probed, announced, unprobed, silenced>>
      /\ pcb.state > PCB_PROBE_3
  BY DEF mdns_priv_create_answer_from_parsed_packet
<1>3. /\ tx \in Seq(Packet) /\ pcb \in Pcb /\ Live \subseteq Srv /\ pcb.state \in PCB_PROBE_1..PCB_RUNNING
      /\ IsScheduled(Now, Live) /\ Now.tx = tx /\ probed \in [Srv -> 0..3]
      /\ announced \cup silenced \subseteq Srv \cup {Self}
  BY Holds DEF IInv, Typed
<1>4. a.answers \subseteq Live \cup Address /\ a.additional \subseteq Live
  BY AnswersAreOurs
<1> DEFINE q == AnswerPacket(a.answers, {}, a.additional, multicast)
<1>5. /\ q \in Packet /\ q.answers = a.answers /\ q.servers = {} /\ q.additional = a.additional
  BY <1>3, <1>4 DEF AnswerPacket, Packet, Item
<1> HIDE DEF q
<1>6. tx' \in Seq(Packet) /\ ToSet(tx') = ToSet(tx) \cup {q}
  BY <1>1, <1>3, <1>5, SendAfterMembers DEF q
<1>7. \A x \in ToSet(tx') : (x.answers \cup x.servers \cup x.additional) \cap Srv \subseteq Live
  <2>1. \A x \in ToSet(tx) : (x.answers \cup x.servers \cup x.additional) \cap Srv \subseteq Live
    BY <1>3 DEF IsScheduled
  <2> QED BY <1>4, <1>5, <1>6, <2>1, Disjoint
<1>8. ~Probing /\ pcb.state \in PCB_ANNOUNCE_1..PCB_RUNNING /\ pcb' = [pcb EXCEPT !.state = pcb.state]
  BY <1>2, <1>3 DEF Probing, Pcb
<1> QED BY <1>2, <1>3, <1>6, <1>7, <1>8, RunsOn

LEMMA SrvConflictKeeps ==
  ASSUME IInv, NEW t \in Type, SrvConflict(t)
  PROVE  IInv'
<1>1. PICK s \in Live :
      \/ /\ \E i \in Instance : service' = [service EXCEPT ![s].instance = i]
         /\ mdns_priv_init_pcb_probe(<<s>>, FALSE, {s})
      \/ UNCHANGED service /\ mdns_priv_restart_all_pcbs_no_instance
      \/ UNCHANGED service /\ mdns_priv_restart_all_pcbs
      \/ UNCHANGED service /\ mdns_priv_init_pcb_probe(<<s>>, FALSE, {})
  BY DEF SrvConflict
<1>2. s \in Srv
  BY Holds
<1>3. UNCHANGED <<services, hosts>>
  BY DEF SrvConflict
<1>4. /\ service \in Known /\ \A x \in Live : service[x].type \in Type
      /\ Live \subseteq Srv
  BY Holds DEF IInv, Typed
<1>5. <<s>> \in Seq(Srv) /\ IsInjective(<<s>>) /\ ToSet(<<s>>) = {s} /\ <<s>> # <<>> /\ Self # s
  BY <1>2, One, Disjoint
<1>6. CASE \E i \in Instance : service' = [service EXCEPT ![s].instance = i]
  <2>1. service' \in Known /\ \A x \in Live : service'[x].type \in Type
    BY <1>2, <1>4, <1>6, Renamed
  <2>2. ASSUME NEW renamed, renamed \in {{}, {s}}, mdns_priv_init_pcb_probe(<<s>>, FALSE, renamed)
        PROVE  IInv'
    BY <1>1, <1>3, <1>5, <2>1, <2>2, ProbingOf
  <2> QED BY <1>1, <1>3, <2>2, RestartAll, RestartNoInstance
<1>7. CASE UNCHANGED service
  <2>1. ASSUME NEW renamed, renamed \in {{}, {s}}, mdns_priv_init_pcb_probe(<<s>>, FALSE, renamed)
        PROVE  IInv'
    BY <1>1, <1>3, <1>4, <1>5, <1>7, <2>1, ProbingOf
  <2> QED BY <1>1, <1>3, <1>7, <2>1, RestartAll, RestartNoInstance
<1> QED BY <1>1, <1>6, <1>7

LEMMA TxtConflictKeeps ==
  ASSUME IInv, NEW t \in Type, TxtConflict(t)
  PROVE  IInv'
<1> DEFINE none == {}
<1>1. PICK s \in Live : mdns_priv_init_pcb_probe(<<s>>, TRUE, none)
  BY DEF TxtConflict
<1>2. UNCHANGED <<services, service, hosts>> /\ s \in Srv
  BY Holds DEF TxtConflict
<1>3. /\ service \in Known /\ \A x \in Live : service[x].type \in Type
  BY DEF IInv, Typed
<1>4. <<s>> \in Seq(Srv) /\ IsInjective(<<s>>) /\ ToSet(<<s>>) = {s} /\ <<s>> # <<>>
  BY <1>2, One
<1>5. none \subseteq ToSet(<<s>>) \cup {Self}
  OBVIOUS
<1> HIDE DEF none
<1> QED BY <1>1, <1>2, <1>3, <1>4, <1>5, ProbingOf

LEMMA AddressConflictKeeps ==
  ASSUME IInv, AddressConflict
  PROVE  IInv'
<1> DEFINE list == <<>>
           none == {}
<1>1. UNCHANGED <<services, service, hosts>>
  BY DEF AddressConflict
<1>2. mdns_priv_restart_all_pcbs \/ mdns_priv_init_pcb_probe(list, TRUE, none)
  BY DEF AddressConflict
<1>3. list \in Seq(Srv) /\ IsInjective(list) /\ ToSet(list) \subseteq Live /\ none \subseteq ToSet(list) \cup {Self}
  BY DEF IsInjective, ToSet
<1>4. /\ service \in Known /\ \A x \in Live : service[x].type \in Type
  BY DEF IInv, Typed
<1> HIDE DEF list, none
<1>5. CASE mdns_priv_init_pcb_probe(list, TRUE, none)
  BY <1>1, <1>3, <1>4, <1>5, ProbingOf
<1> QED BY <1>1, <1>2, <1>5, RestartAll
(* The announcement of what was probed for                                  *)
LEMMA AnnouncementHolds ==
  ASSUME hosts \in Seq(Host), NEW p \in Packet,
         NEW q, q = mdns_priv_create_announce_from_probe(p)
  PROVE  /\ q \in Packet /\ q.multicast /\ q.servers = {} /\ q.additional = {}
         /\ p.servers \subseteq q.answers /\ q.answers \cap Srv = p.servers \cap Srv
<1> DEFINE S == p.servers \cap Srv
           A == S \cup HostsOf(S, service) \cup (p.servers \ Srv)
<1>1. HostsOf(S, service) \subseteq Address
  BY HostsAreNoServices
<1>2. A \subseteq Item /\ A \cap Srv = S /\ p.servers \subseteq A
  BY <1>1, Disjoint DEF Packet, Item
<1>3. q = [questions |-> <<>>, answers |-> A, servers |-> {}, additional |-> {}, multicast |-> TRUE]
  BY DEF mdns_priv_create_announce_from_probe, AnswerPacket
<1> HIDE DEF A
<1>4. <<>> \in Seq(Asking)
  OBVIOUS
<1>5. q \in Packet
  BY <1>2, <1>3, <1>4 DEF Packet
<1> QED BY <1>2, <1>3, <1>5

LEMMA ProbedOn ==
  ASSUME NEW h, NEW live, NEW count, NEW list, NEW state, NEW p,
         h.pcb.probe_services = list, h.pcb.state = state, h.tx[1] = p,
         \A s \in live \ h.unprobed : IF s \in ToSet(list) THEN count[s] = state - PCB_PROBE_1 /\ s \in Asked(p)
                                      ELSE count[s] = 3
  PROVE  IsProbed(h, live, count)
BY DEF IsProbed

LEMMA SendKeeps ==
  ASSUME IInv, SendPacket
  PROVE  IInv'
<1> DEFINE p == Head(tx)
<1>1. /\ tx # <<>>
      /\ \/ /\ pcb.state \in {PCB_PROBE_1, PCB_PROBE_1 + 1, PCB_ANNOUNCE_1, PCB_ANNOUNCE_1 + 1}
            /\ SendAfter(Tail(tx), p) /\ pcb' = [pcb EXCEPT !.state = @ + 1]
         \/ /\ pcb.state = PCB_PROBE_3
            /\ SendAfter(Tail(tx), mdns_priv_create_announce_from_probe(p))
            /\ pcb' = [state |-> PCB_ANNOUNCE_1, probe_services |-> <<>>,
                       probe_ip |-> FALSE, probe_running |-> FALSE]
         \/ /\ pcb.state \in {PCB_ANNOUNCE_3, PCB_RUNNING}
            /\ tx' = Tail(tx) /\ pcb' = [pcb EXCEPT !.state = PCB_RUNNING]
      /\ probed' = [s \in Srv |-> IF s \in Asked(p) /\ probed[s] < 3 THEN probed[s] + 1 ELSE probed[s]]
      /\ announced' = IF p.multicast THEN announced \cup (p.answers \cap (Srv \cup {Self})) ELSE announced
      /\ silenced' = silenced \ announced'
      /\ UNCHANGED <<services, service, hosts, instance, calls, unprobed>>
  BY DEF SendPacket
<1>2. /\ tx \in Seq(Packet) /\ pcb \in Pcb /\ unprobed \subseteq Srv /\ Live \subseteq Srv
      /\ pcb.state \in PCB_PROBE_1..PCB_RUNNING /\ (Probing <=> pcb.state \in ProbeStates)
      /\ IsScheduled(Now, Live) /\ IsProbed(Now, Live, probed)
      /\ IsAnnounced(Now, Live, announced \cup silenced)
      /\ Now.tx = tx /\ Now.pcb = pcb /\ Now.unprobed = unprobed
  BY Holds
<1>3. /\ probed \in [Srv -> 0..3] /\ hosts \in Seq(Host) /\ announced \cup silenced \subseteq Srv \cup {Self}
  BY DEF IInv, Typed
<1>4. /\ p = tx[1] /\ p \in Packet /\ Tail(tx) \in Seq(Packet) /\ Len(Tail(tx)) = Len(tx) - 1
      /\ ToSet(tx) = {p} \cup ToSet(Tail(tx)) /\ p \in ToSet(tx) /\ Len(tx) \in Nat
  BY <1>1, <1>2, HeadAndTail
<1> HIDE DEF p
<1>5. probed' \in [Srv -> 0..3]
  BY <1>1, <1>3
<1>6. /\ announced' \cup silenced' \subseteq Srv \cup {Self}
      /\ announced \cup silenced \subseteq announced' \cup silenced'
      /\ p.multicast => p.answers \cap (Srv \cup {Self}) \subseteq announced'
  BY <1>1, <1>3
<1>7. Live' = Live
  BY <1>1 DEF Live
<1>8. CASE pcb.state \notin ProbeStates
  <2>1. PICK x \in PCB_ANNOUNCE_1..PCB_RUNNING : pcb' = [pcb EXCEPT !.state = x]
    <3>1. pcb.state + 1 \in PCB_ANNOUNCE_1..PCB_RUNNING \/ pcb.state \in {PCB_ANNOUNCE_3, PCB_RUNNING}
      BY <1>1, <1>2, <1>8 DEF ProbeStates
    <3>2. pcb' = [pcb EXCEPT !.state = pcb.state + 1] \/ pcb' = [pcb EXCEPT !.state = PCB_RUNNING]
      BY <1>1, <1>8 DEF ProbeStates
    <3>3. PCB_RUNNING \in PCB_ANNOUNCE_1..PCB_RUNNING
      OBVIOUS
    <3>4. pcb.state \in {PCB_ANNOUNCE_3, PCB_RUNNING} => pcb' = [pcb EXCEPT !.state = PCB_RUNNING]
      BY <1>1
    <3> QED BY <3>1, <3>2, <3>3, <3>4
  <2>2. tx' \in Seq(Packet) /\ ToSet(tx') \subseteq ToSet(tx) /\ ToSet(Tail(tx)) \subseteq ToSet(tx')
    <3>1. CASE SendAfter(Tail(tx), p)
      BY <1>4, <3>1, SendAfterMembers
    <3>2. CASE tx' = Tail(tx)
      BY <1>4, <3>2
    <3> QED BY <1>1, <1>8, <3>1, <3>2 DEF ProbeStates
  <2>3. \A q \in ToSet(tx') : (q.answers \cup q.servers \cup q.additional) \cap Srv \subseteq Live
    BY <1>2, <2>2 DEF IsScheduled
  <2>4. ASSUME NEW s \in Live \cup {Self},
               s \in announced \cup silenced \/ (\E q \in ToSet(tx) : q.multicast /\ s \in q.answers)
        PROVE  s \in announced' \cup silenced' \/ (\E q \in ToSet(tx') : q.multicast /\ s \in q.answers)
    <3>1. CASE s \in announced \cup silenced
      BY <1>6, <3>1
    <3>2. CASE \E q \in ToSet(tx) : q.multicast /\ s \in q.answers
      <4>1. PICK q \in ToSet(tx) : q.multicast /\ s \in q.answers
        BY <3>2
      <4>2. CASE q = p
        BY <1>2, <1>6, <4>1, <4>2
      <4>3. CASE q \in ToSet(tx')
        BY <4>1, <4>3
      <4> QED BY <1>4, <2>2, <4>1, <4>2, <4>3
    <3> QED BY <2>4, <3>1, <3>2
  <2>5. \A s \in Srv : probed[s] = 3 => probed'[s] = 3
    BY <1>1, <1>3
  <2>6. ~Probing
    BY <1>2, <1>8
  <2> QED BY <1>1, <1>5, <1>6, <2>1, <2>2, <2>3, <2>4, <2>5, <2>6, RunsOn
(* While the interface probes there is one packet.                          *)
<1>9. ASSUME pcb.state \in ProbeStates
      PROVE  /\ Tail(tx) = <<>> /\ p.multicast /\ p.servers \cap Srv = ToSet(pcb.probe_services)
             /\ (pcb.probe_ip <=> ~(p.servers \subseteq Srv))
             /\ pcb.probe_services # <<>> \/ pcb.probe_ip
             /\ \A q, list : list = <<>> /\ q \in Packet /\ SendAfter(list, q) => tx' = <<q>>
  <2>1. /\ Len(tx) = 1 /\ p.multicast /\ p.servers \cap Srv = ToSet(pcb.probe_services)
        /\ (pcb.probe_ip <=> ~(p.servers \subseteq Srv))
        /\ pcb.probe_services # <<>> \/ pcb.probe_ip
    BY <1>2, <1>4, <1>9 DEF IsScheduled
  <2>2. Tail(tx) = <<>>
    <3> DEFINE t == Tail(tx)
    <3>1. t \in Seq(Packet) /\ Len(t) = 0
      BY <1>4, <2>1
    <3> HIDE DEF t
    <3>2. t = <<>>
      BY <3>1
    <3> QED BY <3>2 DEF t
  <2>3. ASSUME NEW q \in Packet, NEW list, list = <<>>, SendAfter(list, q) PROVE tx' = <<q>>
    <3>1. list \in Seq(Packet) /\ Len(list) = 0 /\ ToSet(list) = {}
      BY <2>3 DEF ToSet
    <3>2. tx' \in Seq(Packet) /\ Len(tx') = 1 /\ ToSet(tx') = {q}
      <4>1. tx' \in Seq(Packet) /\ Len(tx') = Len(list) + 1 /\ ToSet(tx') = ToSet(list) \cup {q}
        BY <2>3, <3>1, SendAfterMembers
      <4> QED BY <3>1, <4>1
    <3>3. tx'[1] = q
      BY <3>2 DEF ToSet
    <3> QED BY <3>2, <3>3
  <2> QED BY <2>1, <2>2, <2>3
<1>10. ASSUME pcb.state \in ProbeStates
       PROVE  \A s \in Live \ unprobed :
                 IF s \in ToSet(pcb.probe_services) THEN probed'[s] = pcb.state - PCB_PROBE_1 + 1 ELSE probed'[s] = 3
  <2> SUFFICES ASSUME NEW s \in Live \ unprobed
               PROVE  IF s \in ToSet(pcb.probe_services) THEN probed'[s] = pcb.state - PCB_PROBE_1 + 1 ELSE probed'[s] = 3
    OBVIOUS
  <2>1. s \in Srv /\ pcb.state \in 3..5
    BY <1>2, <1>10 DEF ProbeStates
  <2>2. IF s \in ToSet(pcb.probe_services) THEN probed[s] = pcb.state - PCB_PROBE_1 /\ s \in Asked(p)
        ELSE probed[s] = 3
    BY <1>2, <1>4 DEF IsProbed
  <2>3. CASE s \in ToSet(pcb.probe_services)
    <3>1. probed[s] = pcb.state - PCB_PROBE_1 /\ s \in Asked(p) /\ probed[s] < 3
      BY <2>1, <2>2, <2>3
    <3>2. probed'[s] = probed[s] + 1
      BY <1>1, <2>1, <3>1
    <3> QED BY <2>1, <2>3, <3>1, <3>2
  <2>4. CASE s \notin ToSet(pcb.probe_services)
    BY <1>1, <2>1, <2>2, <2>4
  <2> QED BY <2>3, <2>4
<1>11. /\ Now'.tx = tx' /\ Now'.pcb = pcb' /\ Now'.unprobed = unprobed
  BY <1>1 DEF Now
<1>12. ASSUME pcb.state \in {PCB_PROBE_1, PCB_PROBE_1 + 1}, SendAfter(Tail(tx), p),
              pcb' = [pcb EXCEPT !.state = @ + 1]
       PROVE  IInv'
  <2>0. pcb.state \in ProbeStates
    BY <1>12 DEF ProbeStates
  <2>1. tx' = <<p>>
    BY <1>4, <1>9, <1>12, <2>0
  <2>2. /\ pcb'.state = pcb.state + 1 /\ pcb'.state \in ProbeStates /\ pcb' \in Pcb
        /\ pcb'.probe_services = pcb.probe_services /\ pcb'.probe_ip = pcb.probe_ip
        /\ pcb'.probe_running = pcb.probe_running
    BY <1>2, <1>12 DEF Pcb, ProbeStates
  <2>3. tx' \in Seq(Packet) /\ tx'[1] = p /\ Len(tx') = 1 /\ ToSet(tx') = {p}
    BY <1>4, <2>1 DEF ToSet
  <2>4. Typed'
    <3>1. Now' \in Schedule
      BY <1>1, <1>2, <2>2, <2>3 DEF Now, Schedule
    <3> QED BY <1>1, <1>5, <1>6, <1>7, <3>1 DEF IInv, Typed
  <2>5. IsScheduled(Now', Live')
    <3>1. (p.answers \cup p.servers \cup p.additional) \cap Srv \subseteq Live
      BY <1>2, <1>4 DEF IsScheduled
    <3>2. ToSet(pcb.probe_services) \subseteq Live /\ IsInjective(pcb.probe_services) /\ pcb.probe_running
      BY <1>2, <2>0 DEF IsScheduled
    <3>3. /\ p.multicast /\ p.servers \cap Srv = ToSet(pcb.probe_services)
          /\ (pcb.probe_ip <=> ~(p.servers \subseteq Srv))
          /\ pcb.probe_services # <<>> \/ pcb.probe_ip
      BY <1>9, <2>0
    <3> QED BY <1>7, <1>11, <2>2, <2>3, <3>1, <3>2, <3>3 DEF IsScheduled
  <2>6. IsProbed(Now', Live', probed')
    <3> DEFINE list == pcb.probe_services
               state == pcb.state + 1
    <3>1. ASSUME NEW s \in Live \ unprobed
          PROVE  IF s \in ToSet(list) THEN probed'[s] = state - PCB_PROBE_1 /\ s \in Asked(p) ELSE probed'[s] = 3
      <4>1. s \in ToSet(pcb.probe_services) => s \in Asked(p)
        BY <1>2, <1>4 DEF IsProbed
      <4>2. pcb.state \in 3..5
        BY <2>0 DEF ProbeStates
      <4> QED BY <1>10, <2>0, <4>1, <4>2
    <3>2. /\ Now'.pcb.probe_services = list /\ Now'.pcb.state = state
          /\ Now'.tx[1] = p /\ Now'.unprobed = unprobed /\ Live' = Live
      BY <1>7, <1>11, <2>2, <2>3
    <3> HIDE DEF list, state
    <3>3. \A s \in Live' \ Now'.unprobed :
             IF s \in ToSet(list) THEN probed'[s] = state - PCB_PROBE_1 /\ s \in Asked(p) ELSE probed'[s] = 3
      BY <3>1, <3>2
    <3> QED BY <3>2, <3>3, ProbedOn
  <2>7. IsAnnounced(Now', Live', announced' \cup silenced')
    <3> SUFFICES ASSUME NEW s \in Live \cup {Self}
                 PROVE  s \in announced' \cup silenced' \cup unprobed \/ s \in p.servers
      BY <1>7, <1>11, <2>2, <2>3 DEF IsAnnounced, Waits
    <3>1. s \in announced \cup silenced \cup unprobed \/ s \in p.servers
      BY <1>2, <1>4, <2>0 DEF IsAnnounced, Waits
    <3> QED BY <1>6, <3>1
  <2> QED BY <2>4, <2>5, <2>6, <2>7 DEF IInv, Good
<1>13. ASSUME pcb.state = PCB_PROBE_3, SendAfter(Tail(tx), mdns_priv_create_announce_from_probe(p)),
              pcb' = [state |-> PCB_ANNOUNCE_1, probe_services |-> <<>>,
                      probe_ip |-> FALSE, probe_running |-> FALSE]
       PROVE  IInv'
  <2>0. pcb.state \in ProbeStates
    BY <1>13 DEF ProbeStates
  <2> DEFINE q == mdns_priv_create_announce_from_probe(p)
  <2>1. /\ q \in Packet /\ q.multicast /\ q.servers = {} /\ q.additional = {}
        /\ p.servers \subseteq q.answers /\ q.answers \cap Srv = p.servers \cap Srv
    BY <1>3, <1>4, AnnouncementHolds
  <2>2. SendAfter(Tail(tx), q)
    BY <1>13
  <2> HIDE DEF q
  <2>3. tx' = <<q>>
    BY <1>9, <2>0, <2>1, <2>2
  <2>4. tx' \in Seq(Packet) /\ ToSet(tx') = {q}
    BY <2>1, <2>3 DEF ToSet
  <2>5. /\ pcb'.state = PCB_ANNOUNCE_1 /\ pcb'.state \notin ProbeStates /\ pcb'.probe_services = <<>>
        /\ pcb'.probe_running = FALSE /\ pcb' \in Pcb /\ ToSet(pcb'.probe_services) = {}
        /\ IsInjective(pcb'.probe_services)
    <3>1. <<>> \in Seq(Srv) /\ ToSet(<<>>) = {} /\ IsInjective(<<>>)
      BY DEF ToSet, IsInjective
    <3> QED BY <1>13, <3>1 DEF Pcb, ProbeStates
  <2>6. Typed'
    <3>1. Now' \in Schedule
      BY <1>1, <1>2, <2>4, <2>5 DEF Now, Schedule
    <3> QED BY <1>1, <1>5, <1>6, <1>7, <3>1 DEF IInv, Typed
  <2>7. IsScheduled(Now', Live')
    <3>1. p.servers \cap Srv \subseteq Live
      BY <1>2, <1>4 DEF IsScheduled
    <3>2. (q.answers \cup q.servers \cup q.additional) \cap Srv \subseteq Live
      BY <2>1, <3>1
    <3> QED BY <1>7, <1>11, <2>4, <2>5, <3>2 DEF IsScheduled
  <2>8. IsProbed(Now', Live', probed')
    <3> SUFFICES ASSUME NEW s \in Live \ unprobed PROVE probed'[s] = 3
      BY <1>7, <1>11, <2>5 DEF IsProbed
    <3> QED BY <1>10, <1>13, <2>0
  <2>9. IsAnnounced(Now', Live', announced' \cup silenced')
    <3> SUFFICES ASSUME NEW s \in Live \cup {Self}
                 PROVE  s \in announced' \cup silenced' \cup unprobed \/ s \in q.answers
      BY <1>7, <1>11, <2>1, <2>4, <2>5 DEF IsAnnounced, Waits
    <3>1. s \in announced \cup silenced \cup unprobed \/ s \in p.servers
      BY <1>2, <1>4, <2>0 DEF IsAnnounced, Waits
    <3> QED BY <1>6, <2>1, <3>1
  <2> QED BY <2>6, <2>7, <2>8, <2>9 DEF IInv, Good
<1>14. pcb.state \in ProbeStates => pcb.state \in {PCB_PROBE_1, PCB_PROBE_1 + 1} \/ pcb.state = PCB_PROBE_3
  BY DEF ProbeStates
<1>15. pcb.state \in {PCB_PROBE_1, PCB_PROBE_1 + 1} =>
          SendAfter(Tail(tx), p) /\ pcb' = [pcb EXCEPT !.state = @ + 1]
  BY <1>1
<1>16. pcb.state = PCB_PROBE_3 =>
          /\ SendAfter(Tail(tx), mdns_priv_create_announce_from_probe(p))
          /\ pcb' = [state |-> PCB_ANNOUNCE_1, probe_services |-> <<>>,
                     probe_ip |-> FALSE, probe_running |-> FALSE]
  BY <1>1
<1> QED BY <1>8, <1>12, <1>13, <1>14, <1>15, <1>16

(* A step that changes nothing but the delegated hosts                      *)
LEMMA HostsKeep ==
  ASSUME IInv, hosts' \in Seq(Host),
         UNCHANGED <<services, service, pcb, tx, probed, announced, unprobed, silenced>>
  PROVE  IInv'
<1>1. Now' = Now /\ Live' = Live
  BY DEF Now, Live
<1> DEFINE settled == announced \cup silenced
<1>2. settled' = settled
  OBVIOUS
<1>3. Typed'
  BY <1>1 DEF IInv, Typed
<1>4. IsScheduled(Now', Live') /\ IsProbed(Now', Live', probed') /\ IsAnnounced(Now', Live', settled')
  BY <1>1, <1>2, Holds
<1> QED BY <1>3, <1>4 DEF IInv, Good

(* A list of subtypes that is taken in but not announced                    *)
LEMMA SubtypeKeeps ==
  ASSUME IInv, NEW s \in Live, announced' = announced \ {s}, silenced' = silenced \cup {s},
         UNCHANGED <<services, service, hosts, pcb, tx, probed, unprobed>>
  PROVE  IInv'
<1>1. Now' = Now /\ Live' = Live /\ Live \subseteq Srv
  BY Holds DEF Now, Live
<1> DEFINE settled == announced \cup silenced
<1>2. settled \subseteq settled' /\ settled' \subseteq settled \cup {s}
  OBVIOUS
<1>3. settled' \subseteq Srv \cup {Self}
  BY <1>1, <1>2 DEF IInv, Typed
<1>4. Typed'
  BY <1>1, <1>3 DEF IInv, Typed
<1>5. IsAnnounced(Now, Live, settled')
  <2>1. IsAnnounced(Now, Live, settled)
    BY Holds
  <2> HIDE DEF settled
  <2> QED BY <1>2, <2>1 DEF IsAnnounced
<1>6. IsScheduled(Now', Live') /\ IsProbed(Now', Live', probed') /\ IsAnnounced(Now', Live', settled')
  BY <1>1, <1>5, Holds
<1> QED BY <1>4, <1>6 DEF IInv, Good

LEMMA RenameKeeps ==
  ASSUME IInv, NEW t, NEW h, NEW i, NEW new \in Instance,
         mdns_service_instance_name_set_for_host(i, t, h, new)
  PROVE  IInv'
<1>1. PICK s \in Live : service' = [service EXCEPT ![s].instance = new] /\ mdns_priv_init_pcb_probe(<<s>>, FALSE, {s})
  BY DEF mdns_service_instance_name_set_for_host
<1>2. s \in Srv /\ Live \subseteq Srv
  BY Holds
<1>3. service \in Known /\ \A x \in Live : service[x].type \in Type
  BY DEF IInv, Typed
<1>4. service' \in Known /\ \A x \in Srv : service'[x].type = service[x].type
  BY <1>1, <1>2, <1>3, Renamed
<1>5. <<s>> \in Seq(Srv) /\ IsInjective(<<s>>) /\ ToSet(<<s>>) = {s} /\ <<s>> # <<>>
  BY <1>2, One
<1>6. {s} \subseteq {s} \cup {Self} /\ Self \notin {s}
  BY <1>2, Disjoint
<1>7. UNCHANGED <<services, hosts>>
  BY DEF mdns_service_instance_name_set_for_host
<1>8. ToSet(<<s>>) \subseteq Live /\ \A x \in Live : service'[x].type \in Type
  BY <1>2, <1>3, <1>4, <1>5
<1> QED BY <1>1, <1>4, <1>5, <1>6, <1>7, <1>8, ProbingOf

LEMMA RemoveHostKeeps ==
  ASSUME IInv, NEW h \in Host \cup {Self}, delegate_hostname_remove(h)
  PROVE  IInv'
<1> DEFINE others == {s \in Live : service[s].host # h}
           list == Without(services, others)
<1>1. FreeServices(list) /\ hosts' = Without(hosts, {h})
  BY DEF delegate_hostname_remove
<1> HIDE DEF others
<1>2. list \in Seq(Srv)
  BY WithoutElements DEF IInv, Typed
<1>3. hosts' \in Seq(Host)
  BY <1>1, WithoutElements DEF IInv, Typed
<1> HIDE DEF list
<1> QED BY <1>1, <1>2, <1>3, FreeKeeps

(* What each call, each action of the service task, each packet of others   *)
(* and each packet that is sent does                                        *)
LEMMA NextKeeps == IInv /\ [Next]_vars => IInv'
<1> SUFFICES ASSUME IInv, [Next]_vars PROVE IInv'
  OBVIOUS
<1>1. ASSUME NEW t \in Type, NEW h \in Host \cup {Self}, NEW i \in Instance \cup {None},
             \/ mdns_service_add_for_host(i, t, h)
             \/ mdns_service_port_set_for_host(i, t, h)
             \/ mdns_service_txt_set_for_host(i, t, h)
             \/ \E new \in Instance : mdns_service_instance_name_set_for_host(i, t, h, new)
             \/ mdns_service_remove_for_host(i, t, h)
      PROVE  IInv'
  <2>1. CASE mdns_service_add_for_host(i, t, h)
    BY <2>1, AddKeeps
  <2>2. CASE mdns_service_port_set_for_host(i, t, h)
    BY <2>2, AnnounceKeeps DEF mdns_service_port_set_for_host, Announce
  <2>3. CASE mdns_service_txt_set_for_host(i, t, h)
    BY <2>3, AnnounceKeeps DEF mdns_service_txt_set_for_host, Announce
  <2>4. CASE \E new \in Instance : mdns_service_instance_name_set_for_host(i, t, h, new)
    BY <2>4, RenameKeeps
  <2>5. CASE mdns_service_remove_for_host(i, t, h)
    <3>1. PICK s \in Live : FreeServices(<<s>>)
      BY <2>5 DEF mdns_service_remove_for_host
    <3>2. <<s>> \in Seq(Srv) /\ hosts' \in Seq(Host)
      BY <2>5, Holds, One DEF mdns_service_remove_for_host, IInv, Typed
    <3> QED BY <3>1, <3>2, FreeKeeps
  <2> QED BY <1>1, <2>1, <2>2, <2>3, <2>4, <2>5
<1>2. ASSUME NEW t \in Type, NEW h \in Host \cup {Self, None}, NEW i \in Instance \cup {None},
             mdns_service_subtype_add_multiple_items_for_host(i, t, h)
      PROVE  IInv'
  <2>1. CASE Announce(i, t, h, FALSE)
    BY <2>1, AnnounceKeeps DEF Announce
  <2>2. CASE ~Announce(i, t, h, FALSE)
    BY <1>2, <2>2, SubtypeKeeps DEF mdns_service_subtype_add_multiple_items_for_host
  <2> QED BY <2>1, <2>2
<1>3. CASE mdns_service_remove_all
  <2>1. FreeServices(services) /\ services \in Seq(Srv) /\ hosts' \in Seq(Host)
    BY <1>3 DEF mdns_service_remove_all, IInv, Typed
  <2> QED BY <2>1, FreeKeeps
<1>4. CASE HostnameSet
  BY <1>4, RestartAll DEF HostnameSet
<1>5. ASSUME NEW i \in Instance, InstanceSet(i) PROVE IInv'
  BY <1>5, RestartNoInstance DEF InstanceSet
<1>6. ASSUME NEW h \in Host, mdns_priv_delegate_hostname_add(h) PROVE IInv'
  <2>1. hosts' = <<h>> \o hosts /\ hosts \in Seq(Host)
    BY <1>6 DEF mdns_priv_delegate_hostname_add, IInv, Typed
  <2>2. hosts' \in Seq(Host)
    BY <2>1
  <2> QED BY <1>6, <2>2, HostsKeep DEF mdns_priv_delegate_hostname_add
<1>7. ASSUME NEW h \in Host \cup {Self}, delegate_hostname_remove(h) PROVE IInv'
  BY <1>7, RemoveHostKeeps
<1>8. CASE mdns_priv_create_answer_from_parsed_packet
  BY <1>8, AnswerKeeps
<1>9. ASSUME NEW t \in Type, SrvConflict(t) \/ TxtConflict(t) PROVE IInv'
  BY <1>9, SrvConflictKeeps, TxtConflictKeeps
<1>10. CASE AddressConflict
  BY <1>10, AddressConflictKeeps
<1>11. CASE SendPacket
  BY <1>11, SendKeeps
<1>12. CASE UNCHANGED vars
  <2>1. hosts' \in Seq(Host)
    BY <1>12 DEF vars, IInv, Typed
  <2> QED BY <1>12, <2>1, HostsKeep DEF vars
<1> QED BY <1>1, <1>2, <1>3, <1>4, <1>5, <1>6, <1>7, <1>8, <1>9, <1>10, <1>11, <1>12 DEF Next

LEMMA Invariance == Spec => []IInv
BY InitHolds, NextKeeps, PTL DEF Spec

-----------------------------------------------------------------------------
(* Whatever is added, renamed, contested and removed, in any order and with *)
(* any number of services freed at once, no packet that waits and no entry  *)
(* of the list of what is probed for points to a service that was freed.    *)
THEOREM NoDanglingServices == Spec => []OnlyLiveAreScheduled
<1>1. IInv => OnlyLiveAreScheduled
  <2> SUFFICES ASSUME IInv PROVE OnlyLiveAreScheduled
    OBVIOUS
  <2>1. IsScheduled(Now, Live) /\ Now.tx = tx /\ Now.pcb = pcb /\ (Probing <=> pcb.state \in ProbeStates)
    BY Holds
  <2>2. \A k \in DOMAIN tx : tx[k] \in ToSet(tx)
    BY DEF ToSet
  <2> QED BY <2>1, <2>2 DEF OnlyLiveAreScheduled, IsScheduled
<1> QED BY <1>1, Invariance, PTL

(* When the device answers, every service that the code did not stop        *)
(* probing for has had three probes since it was last begun with.           *)
THEOREM ThreeProbesFirst == Spec => []ProbedBeforeAnswering
<1>1. IInv => ProbedBeforeAnswering
  <2> SUFFICES ASSUME IInv, ~Probing, NEW s \in Live \ unprobed PROVE probed[s] = 3
    BY DEF ProbedBeforeAnswering
  <2>1. /\ IsScheduled(Now, Live) /\ IsProbed(Now, Live, probed)
        /\ Now.pcb = pcb /\ Now.unprobed = unprobed /\ (Probing <=> pcb.state \in ProbeStates)
    BY Holds
  <2>2. ToSet(pcb.probe_services) = {}
    BY <2>1 DEF IsScheduled, ToSet
  <2> QED BY <2>1, <2>2 DEF IsProbed
<1> QED BY <1>1, Invariance, PTL

(* When nothing waits any more, everyone has heard of the device and of its *)
(* services as they are, save those whose announcement the code drops.      *)
THEOREM AllAnnounced == Spec => []AnnouncedWhenQuiet
<1>1. IInv => AnnouncedWhenQuiet
  <2> SUFFICES ASSUME IInv, pcb.state = PCB_RUNNING, tx = <<>>, NEW s \in Live \cup {Self}
               PROVE  s \in announced \cup unprobed \cup silenced
    BY DEF AnnouncedWhenQuiet
  <2>1. /\ IsAnnounced(Now, Live, announced \cup silenced)
        /\ Now.tx = tx /\ Now.pcb = pcb /\ Now.unprobed = unprobed
    BY Holds
  <2>2. ToSet(tx) = {} /\ pcb.state \notin ProbeStates
    BY DEF ToSet, ProbeStates
  <2>3. ~Waits(Now, s)
    BY <2>1, <2>2 DEF Waits
  <2> QED BY <2>1, <2>3 DEF IsAnnounced
<1> QED BY <1>1, Invariance, PTL
=============================================================================
