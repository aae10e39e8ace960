---------------------------- MODULE MdnsResponder ----------------------------
(***************************************************************************)
(* The services this device offers (src/managed_components/                 *)
(* espressif__mdns/mdns_responder.c) and the packets scheduled for them     *)
(* (mdns_send.c, mdns_pcb.c).  A service that is added or renamed is probed *)
(* for three times and then announced; one that is removed says goodbye and *)
(* must leave the list of services being probed for and every packet that   *)
(* waits.  Questions of others and conflicts with them come in between.     *)
(* Every step holds the service lock; the calls that go through the action  *)
(* queue (a new name of the host or of the default instance, delegated      *)
(* hosts) are seen when the service task executes them.  Memory is only     *)
(* short where the code counts services, there is one interface and one     *)
(* protocol, and it is up: MdnsTransmit has several that come and go.       *)
(* An answer is either about a service (its PTR, SRV and TXT records) or    *)
(* about the addresses of a host; one that another device gives as well is  *)
(* not taken back.  A name of a host stands for itself: that of the device  *)
(* is Self, whatever it is renamed to.                                      *)
(***************************************************************************)
EXTENDS Naturals, Lists

CONSTANTS
    Srv,          \* the addresses at which the heap can place a service, each used once
    Type,         \* service types
    Instance,     \* names of instances
    Host,         \* hosts that can be delegated
    Self,         \* this device
    None,         \* NULL
    MaxServices,  \* MDNS_MAX_SERVICES
    MaxCalls,     \* bound: calls and packets received
    MaxPackets    \* bound: packets waiting when a question comes

ASSUME NoneAssumption == None \notin Instance \cup Type \cup Srv
ASSUME HostAssumption == Self \notin Host /\ (Host \cup {Self}) \cap Srv = {}

VARIABLES
    services,   \* the chain, newest first
    service,    \* what is at each address
    hosts,      \* the delegated hosts, newest first
    instance,   \* the default name of an instance; without one it is that of the host
    pcb,        \* state, services probed for, whether the address is too, whether it probes
    tx,         \* s_tx_queue_head: the packets that wait, soonest first
    calls,      \* calls and packets so far
    probed,     \* history: the probes for each service since it was last begun with
    announced,  \* history: what all have heard of as it is now, services and Self
    unprobed,   \* history: the services the code stopped probing for
    silenced    \* history: what the code does not announce, or stopped to before anyone heard

vars == <<services, service, hosts, instance, pcb, tx, calls, probed, announced, unprobed, silenced>>

PCB_PROBE_1 == 3
PCB_PROBE_3 == 5
PCB_ANNOUNCE_1 == 6
PCB_ANNOUNCE_3 == 8
PCB_RUNNING == 9

Live == ToSet(services)
Address == Host \cup {Self, None}

TypeOK ==
    /\ Live \subseteq Srv /\ IsInjective(services)
    /\ service \in [Srv -> [type : Type \cup {None}, instance : Instance \cup {None}, host : Address]]
    /\ ToSet(hosts) \subseteq Host /\ IsInjective(hosts) /\ instance \in Instance \cup {None}
    /\ pcb.state \in PCB_PROBE_1..PCB_RUNNING /\ pcb.probe_ip \in BOOLEAN /\ pcb.probe_running \in BOOLEAN
    /\ ToSet(pcb.probe_services) \subseteq Srv
    /\ \A k \in DOMAIN tx : /\ tx[k].answers \cup tx[k].servers \cup tx[k].additional \subseteq Srv \cup Address
                            /\ tx[k].multicast \in BOOLEAN
    /\ calls \in 0..MaxCalls /\ probed \in [Srv -> 0..3]
    /\ announced \cup silenced \subseteq Srv \cup {Self} /\ unprobed \subseteq Srv

-----------------------------------------------------------------------------
(* Names and packets                                                        *)

(* The name others know a service by                                        *)
NameOf(s) == IF service[s].instance = None THEN instance ELSE service[s].instance

(* A call that names no instance, or no host, means the first service.      *)
Matches(s, i, type, host) ==
    /\ service[s].type = type
    /\ host # None => service[s].host = host
    /\ i # None => NameOf(s) = i

mdns_utils_get_service_item_instance(i, type, host) ==
    LET k == SelectInSeq(services, LAMBDA s : Matches(s, i, type, host))
    IN  IF k = 0 THEN None ELSE services[k]

mdns_utils_get_service_item(type) ==
    LET k == SelectInSeq(services, LAMBDA s : service[s].type = type)
    IN  IF k = 0 THEN None ELSE services[k]

get_host_item(host) == IF host \in ToSet(hosts) \cup {Self} THEN host ELSE None
HostsOf(S, known) == {get_host_item(known[s].host) : s \in S}

(* A question for a service holds pointers to its names, one for a host to  *)
(* the name of the device, or to the copy the service has of its host's.    *)
Question(type, of) == [type |-> type, of |-> of]

ProbePacket(list, ip, known) ==
    [questions |-> [k \in DOMAIN list |-> Question("service", list[k])]
                     \o (IF ip THEN <<Question("host", Self)>>
                                      \o [k \in DOMAIN list |-> Question("host", list[k])]
                         ELSE <<>>),
     answers |-> {},
     servers |-> ToSet(list) \cup (IF ~ip THEN {} ELSE IF list = <<>> THEN {Self} ELSE HostsOf(ToSet(list), known)),
     additional |-> {}, multicast |-> TRUE]

AnswerPacket(answers, servers, additional, multicast) ==
    [questions |-> <<>>, answers |-> answers, servers |-> servers,
     additional |-> additional, multicast |-> multicast]

BugAnnounceFromProbe(p) ==
    LET S == p.servers \cap Srv
    IN  AnswerPacket(S \cup HostsOf(S, service), {}, {}, TRUE)

mdns_priv_create_announce_from_probe(p) ==
    LET S == p.servers \cap Srv
    IN  AnswerPacket(S \cup HostsOf(S, service) \cup (p.servers \ Srv), {}, {}, TRUE)

(* The list with p scheduled: by its time it may come anywhere.             *)
SendAfter(list, p) == tx' \in {InsertAt(list, k, p) : k \in 1..Len(list) + 1}

(* MDNS.begin has set the name of the device, and it is being probed for.   *)
Init ==
    /\ services = <<>> /\ hosts = <<>> /\ instance = None /\ calls = 0
    /\ service = [s \in Srv |-> [type |-> None, instance |-> None, host |-> None]]
    /\ pcb = [state |-> PCB_PROBE_1, probe_services |-> <<>>, probe_ip |-> TRUE, probe_running |-> TRUE]
    /\ tx = <<ProbePacket(<<>>, TRUE, service)>>
    /\ probed = [s \in Srv |-> 0] /\ announced = {} /\ unprobed = {} /\ silenced = {}

Probing == pcb.state \in PCB_PROBE_1..PCB_PROBE_3
Announcing == pcb.state \in PCB_ANNOUNCE_1..PCB_ANNOUNCE_3

Call == calls < MaxCalls /\ calls' = calls + 1

-----------------------------------------------------------------------------
(* The list, and what was being probed for already                          *)
BugJoined(list, old) == list

init_probe_new_service(list, old) == Without(list, ToSet(old)) \o old

(* Probing.  All that waited is dropped; what was being probed for (`old'   *)
(* is empty when it was cleared) goes on with the list, from the first      *)
(* probe.  What is `renamed' is not known by its new name.                  *)

InitProbe(list, ip, old, renamed) ==
    LET new == IF Probing THEN init_probe_new_service(list, old) ELSE list
        all == ToSet(new)
        with_ip == pcb.probe_ip \/ ip
        p == ProbePacket(new, with_ip, service')
        waiting == (UNION {tx[k].answers : k \in DOMAIN tx}) \cap (Srv \cup {Self})
        left_out == IF with_ip THEN {Self} ELSE {}
    IN  /\ pcb' = [state |-> PCB_PROBE_1, probe_services |-> new, probe_ip |-> with_ip, probe_running |-> TRUE]
        /\ tx' = <<p>>
        /\ probed' = [s \in Srv |-> IF s \in all THEN 0 ELSE probed[s]]
        /\ announced' = announced \ renamed
        /\ unprobed' = (unprobed \cup (ToSet(pcb.probe_services) \ ToSet(old))) \ all
        /\ silenced' = (silenced \cup (waiting \ announced) \cup left_out) \ p.servers

mdns_priv_init_pcb_probe(list, ip, renamed) == InitProbe(list, ip, pcb.probe_services, renamed)

(* mdns_priv_probe_all_pcbs with clear_old_probe                            *)
ProbeAfresh(list, ip, renamed) == InitProbe(list, ip, <<>>, renamed)

mdns_priv_restart_all_pcbs == ProbeAfresh(services, TRUE, Live \cup {Self})

NoInstance == Without(services, {s \in Live : service[s].instance # None})

mdns_priv_restart_all_pcbs_no_instance ==
    \/ NoInstance # <<>> /\ ProbeAfresh(NoInstance, FALSE, ToSet(NoInstance))
    \/ NoInstance = <<>> /\ UNCHANGED <<pcb, tx, probed, announced, unprobed, silenced>>

-----------------------------------------------------------------------------
(* Calls of the interface                                                   *)

mdns_service_add_for_host(i, type, host) ==
    /\ Call /\ Len(services) < MaxServices
    /\ mdns_utils_get_service_item_instance(i, type, host) = None
    /\ \E s \in Srv :
         /\ service[s].type = None
         /\ service' = [service EXCEPT ![s] = [type |-> type, instance |-> i, host |-> host]]
         /\ services' = <<s>> \o services
         /\ mdns_priv_init_pcb_probe(<<s>>, FALSE, {})
    /\ UNCHANGED <<hosts, instance>>

(* What is being announced takes the first packet that waits, whoever it is *)
(* for; while the service is probed for, it is probed for anew.             *)
mdns_priv_pcb_announce(s, ip) ==
    LET host == IF ip THEN HostsOf({s}, service) ELSE {} IN
    \/ Probing /\ mdns_priv_init_pcb_probe(<<s>>, ip, {s})
    \/ /\ Announcing /\ tx # <<>>
       /\ tx' = [tx EXCEPT ![1].answers = @ \cup {s} \cup host]
       /\ pcb' = [pcb EXCEPT !.state = PCB_ANNOUNCE_1]
       /\ announced' = announced \ {s}
       /\ silenced' = IF Head(tx).multicast THEN silenced \ {s} ELSE silenced \cup {s}
       /\ UNCHANGED <<probed, unprobed>>
    \/ /\ Announcing /\ tx = <<>>
       /\ announced' = announced \ {s} /\ silenced' = silenced \cup {s}
       /\ UNCHANGED <<tx, pcb, probed, unprobed>>
    \/ /\ pcb.state = PCB_RUNNING
       /\ SendAfter(tx, AnswerPacket({s}, host, {}, TRUE))
       /\ pcb' = [pcb EXCEPT !.state = PCB_ANNOUNCE_1]
       /\ announced' = announced \ {s} /\ silenced' = silenced \ {s}
       /\ UNCHANGED <<probed, unprobed>>

Announce(i, type, host, ip) ==
    /\ Call
    /\ UNCHANGED <<services, service, hosts, instance>>
    /\ \E s \in Live : /\ s = mdns_utils_get_service_item_instance(i, type, host)
                       /\ mdns_priv_pcb_announce(s, ip)

mdns_service_port_set_for_host(i, type, host) == Announce(i, type, host, TRUE)
mdns_service_txt_set_for_host(i, type, host) == Announce(i, type, host, FALSE)

(* A list that names a subtype twice, or one the service has already, is    *)
(* taken in up to there, and that is not announced.                         *)
mdns_service_subtype_add_multiple_items_for_host(i, type, host) ==
    \/ Announce(i, type, host, FALSE)
    \/ /\ Call
       /\ \E s \in Live : /\ s = mdns_utils_get_service_item_instance(i, type, host)
                          /\ announced' = announced \ {s} /\ silenced' = silenced \cup {s}
       /\ UNCHANGED <<services, service, hosts, instance, pcb, tx, probed, unprobed>>

mdns_service_instance_name_set_for_host(i, type, host, new) ==
    /\ Call
    /\ \E s \in Live : /\ s = mdns_utils_get_service_item_instance(i, type, host)
                       /\ service' = [service EXCEPT ![s].instance = new]
                       /\ mdns_priv_init_pcb_probe(<<s>>, FALSE, {s})
    /\ UNCHANGED <<services, hosts, instance>>

(* Every answer about the service leaves the packet.                        *)
BugWithoutAnswers(p, s) == [p EXCEPT !.answers = @ \ {s}, !.servers = @ \ {s}]

dealloc_scheduled_service_answers(p, s) ==
    [p EXCEPT !.answers = @ \ {s}, !.servers = @ \ {s}, !.additional = @ \ {s}]

(* A service that is being probed for leaves the list when the first packet *)
(* is walked through, and the first question for its type leaves that       *)
(* packet, which need not be its own; with nothing left to probe for, or to *)
(* answer in an announcement, probing or announcing is over.  Of `h', the   *)
(* packets, the pcb and the services that are not probed for any more.      *)
IsProbedFor(h, s) ==
    h.tx # <<>> /\ h.pcb.state \in PCB_PROBE_1..PCB_PROBE_3 /\ s \in ToSet(h.pcb.probe_services)

QuestionAbout(p, s) ==
    SelectInSeq(p.questions, LAMBDA q : q.type = "service" /\ service[q.of].type = service[s].type)

mdns_priv_pcb_check_probing_services(h, s) ==
    LET list == Without(h.pcb.probe_services, {s})
        removed_answers(p) == p.answers # {} /\ dealloc_scheduled_service_answers(p, s).answers = {}
        over == h.pcb.state \in PCB_ANNOUNCE_1..PCB_ANNOUNCE_3 /\ \E k \in DOMAIN h.tx : removed_answers(h.tx[k])
    IN  IF ~IsProbedFor(h, s)
        THEN IF over THEN [h.pcb EXCEPT !.state = PCB_RUNNING] ELSE h.pcb
        ELSE IF list = <<>> /\ ~h.pcb.probe_ip
             THEN [h.pcb EXCEPT !.probe_services = <<>>, !.probe_running = FALSE, !.state = PCB_RUNNING]
             ELSE [h.pcb EXCEPT !.probe_services = list]

mdns_priv_remove_scheduled_service_packets(h, s) ==
    LET k == IF IsProbedFor(h, s) THEN QuestionAbout(h.tx[1], s) ELSE 0
        rest == [j \in DOMAIN h.tx |->
                    LET p == dealloc_scheduled_service_answers(h.tx[j], s)
                    IN  IF j = 1 /\ k # 0 THEN [p EXCEPT !.questions = RemoveAt(@, k)] ELSE p]
        empty == {p \in ToSet(rest) : p.questions = <<>> /\ p.answers \cup p.servers \cup p.additional = {}}
    IN  [tx |-> Without(rest, empty),
         pcb |-> mdns_priv_pcb_check_probing_services(h, s),
         unprobed |-> IF k = 0 THEN h.unprobed ELSE h.unprobed \cup {h.tx[1].questions[k].of}]

(* The services of the list are freed, one after the other.                 *)
FreeServices(list) ==
    LET freed[k \in 0..Len(list)] ==
            IF k = 0 THEN [tx |-> tx, pcb |-> pcb, unprobed |-> unprobed]
            ELSE mdns_priv_remove_scheduled_service_packets(freed[k - 1], list[k])
        h == freed[Len(list)]
    IN  /\ services' = Without(services, ToSet(list))
        /\ tx' = h.tx /\ pcb' = h.pcb /\ unprobed' = h.unprobed
        /\ UNCHANGED <<service, instance, probed, announced, silenced>>

mdns_service_remove_for_host(i, type, host) ==
    /\ Call
    /\ \E s \in Live : /\ s = mdns_utils_get_service_item_instance(i, type, host)
                       /\ FreeServices(<<s>>)
    /\ UNCHANGED hosts

mdns_service_remove_all == Call /\ services # <<>> /\ FreeServices(services) /\ UNCHANGED hosts

-----------------------------------------------------------------------------
(* The actions of the service task                                          *)

HostnameSet == Call /\ UNCHANGED <<services, service, hosts, instance>> /\ mdns_priv_restart_all_pcbs

InstanceSet(i) ==
    /\ Call /\ instance' = i
    /\ UNCHANGED <<services, service, hosts>>
    /\ mdns_priv_restart_all_pcbs_no_instance

mdns_priv_delegate_hostname_add(host) ==
    /\ Call /\ ~Contains(hosts, host) /\ hosts' = <<host>> \o hosts
    /\ UNCHANGED <<services, service, instance, pcb, tx, probed, announced, unprobed, silenced>>

(* Asked to remove the device itself it frees the services of the device.   *)
delegate_hostname_remove(host) ==
    /\ Call /\ hosts' = Without(hosts, {host})
    /\ FreeServices(Without(services, {s \in Live : service[s].host # host}))

-----------------------------------------------------------------------------
(* Packets from others                                                      *)

(* Of all hosts the newest is left out, and NULL put in at the end.         *)
append_host_list == {Self} \cup (IF hosts = <<>> THEN {} ELSE ToSet(Tail(hosts)) \cup {None})

(* The services or the hosts that a question is answered with, the services *)
(* perhaps with more about them: those of a type, an instance, an address   *)
AnswersTo ==
    LET about == {{s \in Live : service[s].type = t} : t \in Type} \cup {{s} : s \in Live}
        addresses == {{get_host_item(h)} : h \in ToSet(hosts) \cup {Self}} \cup {append_host_list}
    IN  {[answers |-> S, additional |-> S] : S \in about}
          \cup {[answers |-> A, additional |-> {}] : A \in about \cup addresses}

(* One that others may answer too is answered after a while.                *)
mdns_priv_create_answer_from_parsed_packet ==
    /\ Call /\ pcb.state > PCB_PROBE_3 /\ Len(tx) < MaxPackets
    /\ \E a \in AnswersTo, multicast \in BOOLEAN :
          /\ a.answers # {}
          /\ SendAfter(tx, AnswerPacket(a.answers, {}, a.additional, multicast))
    /\ UNCHANGED <<services, service, hosts, instance, pcb, probed, announced, unprobed, silenced>>

(* Someone else has an instance of the type, whichever of them: it is the   *)
(* first service of the type that gives way.                                *)
SrvConflict(type) ==
    /\ Call /\ UNCHANGED <<services, hosts>>
    /\ \E s \in Live :
         /\ s = mdns_utils_get_service_item(type)
         /\ \/ /\ pcb.probe_running /\ service[s].instance # None
               /\ \E i \in Instance \ {service[s].instance} : service' = [service EXCEPT ![s].instance = i]
               /\ UNCHANGED instance
               /\ mdns_priv_init_pcb_probe(<<s>>, FALSE, {s})
            \/ /\ pcb.probe_running /\ service[s].instance = None /\ instance # None
               /\ instance' \in Instance \ {instance} /\ UNCHANGED service
               /\ mdns_priv_restart_all_pcbs_no_instance
            \/ /\ pcb.probe_running /\ service[s].instance = None /\ instance = None
               /\ UNCHANGED <<service, instance>>
               /\ mdns_priv_restart_all_pcbs
            \/ /\ ~pcb.probe_running /\ UNCHANGED <<service, instance>>
               /\ mdns_priv_init_pcb_probe(<<s>>, FALSE, {})

TxtConflict(type) ==
    /\ Call /\ ~pcb.probe_running
    /\ UNCHANGED <<services, service, hosts, instance>>
    /\ \E s \in Live : /\ s = mdns_utils_get_service_item(type)
                       /\ mdns_priv_init_pcb_probe(<<s>>, TRUE, {})

AddressConflict ==
    /\ Call /\ UNCHANGED <<services, service, hosts, instance>>
    /\ \/ pcb.probe_running /\ mdns_priv_restart_all_pcbs
       \/ ~pcb.probe_running /\ mdns_priv_init_pcb_probe(<<>>, TRUE, {})

-----------------------------------------------------------------------------
(* The first packet is sent, and scheduled again, made an announcement or   *)
(* freed, by the state alone.                                               *)
Asked(p) == {p.questions[k].of : k \in {j \in DOMAIN p.questions : p.questions[j].type = "service"}}

SendPacket ==
    /\ tx # <<>>
    /\ LET p == Head(tx) IN
         /\ \/ /\ pcb.state \in {PCB_PROBE_1, PCB_PROBE_1 + 1, PCB_ANNOUNCE_1, PCB_ANNOUNCE_1 + 1}
               /\ SendAfter(Tail(tx), p) /\ pcb' = [pcb EXCEPT !.state = @ + 1]
            \/ /\ pcb.state = PCB_PROBE_3
               /\ SendAfter(Tail(tx), mdns_priv_create_announce_from_probe(p))
               /\ pcb' = [state |-> PCB_ANNOUNCE_1, probe_services |-> <<>>,
                          probe_ip |-> FALSE, probe_running |-> FALSE]
            \/ /\ pcb.state \in {PCB_ANNOUNCE_3, PCB_RUNNING}
               /\ tx' = Tail(tx) /\ pcb' = [pcb EXCEPT !.state = PCB_RUNNING]
         /\ probed' = [s \in Srv |-> IF s \in Asked(p) /\ probed[s] < 3 THEN probed[s] + 1 ELSE probed[s]]
         /\ announced' = IF p.multicast THEN announced \cup (p.answers \cap (Srv \cup {Self})) ELSE announced
         /\ silenced' = silenced \ announced'
    /\ UNCHANGED <<services, service, hosts, instance, calls, unprobed>>

Next ==
    \/ \E t \in Type, h \in Host \cup {Self}, i \in Instance \cup {None} :
          \/ mdns_service_add_for_host(i, t, h)
          \/ mdns_service_port_set_for_host(i, t, h)
          \/ mdns_service_txt_set_for_host(i, t, h)
          \/ \E new \in Instance : mdns_service_instance_name_set_for_host(i, t, h, new)
          \/ mdns_service_remove_for_host(i, t, h)
    \/ \E t \in Type, h \in Host \cup {Self, None}, i \in Instance \cup {None} :
          mdns_service_subtype_add_multiple_items_for_host(i, t, h)
    \/ mdns_service_remove_all \/ HostnameSet
    \/ \E i \in Instance : InstanceSet(i)
    \/ \E h \in Host : mdns_priv_delegate_hostname_add(h)
    \/ \E h \in Host \cup {Self} : delegate_hostname_remove(h)
    \/ mdns_priv_create_answer_from_parsed_packet
    \/ \E t \in Type : SrvConflict(t) \/ TxtConflict(t)
    \/ AddressConflict \/ SendPacket

Spec == Init /\ [][Next]_vars

-----------------------------------------------------------------------------
(* Nothing that waits answers for a service that was freed, and none of     *)
(* them is in the list of those being probed for, which has no service      *)
(* twice, and is empty when nothing is probed for: the pointers the packets *)
(* and the pcb hold across calls are live                                   *)
(* (mdns_priv_remove_scheduled_service_packets).                            *)
OnlyLiveAreScheduled ==
    /\ \A k \in DOMAIN tx : (tx[k].answers \cup tx[k].servers \cup tx[k].additional) \cap Srv \subseteq Live
    /\ ToSet(pcb.probe_services) \subseteq Live /\ IsInjective(pcb.probe_services)
    /\ pcb.probe_running <=> Probing
    /\ ~Probing => pcb.probe_services = <<>>

(* When the device answers, it has probed three times for every service     *)
(* under the name it has, whatever was added, renamed, removed or contested *)
(* meanwhile; except for those whose probing is dropped by a new default    *)
(* name of the instances, which starts over with the services that bear it, *)
(* and those whose question was removed with another service of the type.   *)
ProbedBeforeAnswering ==
    ~Probing => \A s \in Live \ unprobed : probed[s] = 3

(* When all is quiet everyone has heard of the device and of every service  *)
(* as they are now, except of those whose announcement was dropped when     *)
(* something else began to be probed for, or put into an answer for a       *)
(* single asker, and of the device when it is probed for only together with *)
(* services of delegated hosts.                                             *)
AnnouncedWhenQuiet ==
    pcb.state = PCB_RUNNING /\ tx = <<>> => Live \cup {Self} \subseteq announced \cup unprobed \cup silenced

(* mdns_send.c, line 1776: "Find, remove and free answers and scheduled     *)
(* packets for service"                                                     *)
NothingLeftOfRemoved ==
    \A k \in DOMAIN tx : \A q \in ToSet(tx[k].questions) : q.of \in Live \cup {Self}
=============================================================================
