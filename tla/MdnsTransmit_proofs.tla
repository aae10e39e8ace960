------------------------- MODULE MdnsTransmit_proofs -------------------------
(* What holds of probing and announcing for any number of pcbs, packets,    *)
(* actions and events.                                                      *)
EXTENDS MdnsTransmit, SequenceTheorems, TLAPS

(* A pcb in the n-th probing state has sent n - 1 probes at least.          *)
ProbesCounted == \A q \in Pcb : Probing(q) => probes[q] >= pcb[q].state - PCB_PROBE_1

(* What a probing pcb has scheduled is one probe and nothing else, and if   *)
(* it is ready and had memory, that probe is there.                         *)
OnlyProbes == \A p \in Packet : \A q \in Pcb :
                  packet[p].pcb = q /\ Probing(q) => packet[p].kind = "probe"
AtMostOne == \A p, r \in Packet : \A q \in Pcb :
                 packet[p].pcb = q /\ packet[r].pcb = q /\ Probing(q) => p = r
AtLeastOne == \A q \in Pcb \ starved :
                  pcb[q].ready /\ Probing(q) => \E p \in Packet : packet[p].pcb = q

PInv == ProbesCounted /\ OnlyProbes /\ AtMostOne /\ AtLeastOne /\ ProbedBeforeAnnouncing

IInv == TypeOK /\ PInv

(* The list after packets are freed.                                        *)
LEMMA WithoutFacts ==
    ASSUME packet \in [Packet -> Packets], NEW D \in SUBSET Packet
    PROVE  /\ Without(D) \in [Packet -> Packets]
           /\ \A p \in Packet : /\ p \in D => Without(D)[p].pcb = NoPcb
                                /\ p \notin D => /\ Without(D)[p].pcb = packet[p].pcb
                                                 /\ Without(D)[p].kind = packet[p].kind
<1>1. ASSUME NEW p \in Packet PROVE Without(D)[p] \in Packets
    BY DEF Without, Packets, Freed, Allocated
<1>2. Without(D) \in [Packet -> Packets]
    BY <1>1 DEF Without
<1>3. ASSUME NEW p \in Packet
      PROVE  /\ p \in D => Without(D)[p].pcb = NoPcb
             /\ p \notin D => /\ Without(D)[p].pcb = packet[p].pcb
                              /\ Without(D)[p].kind = packet[p].kind
    BY DEF Without, Packets, Freed, Allocated
<1> QED BY <1>2, <1>3

(* The list after a packet is scheduled.                                    *)
LEMMA ScheduledFacts ==
    ASSUME NEW packets \in [Packet -> Packets], NEW p \in Packet, NEW q \in Pcb,
           NEW kind \in {"probe", "announce", "response"}
    PROVE  /\ Scheduled(packets, p, q, kind) \in [Packet -> Packets]
           /\ Scheduled(packets, p, q, kind)[p].pcb = q
           /\ Scheduled(packets, p, q, kind)[p].kind = kind
           /\ \A r \in Packet \ {p} : Scheduled(packets, p, q, kind)[r] = packets[r]
<1>1. Allocated(q, kind) \in Packets
    BY DEF Allocated, Packets
<1>2. Allocated(q, kind).pcb = q /\ Allocated(q, kind).kind = kind
    BY DEF Allocated
<1> QED BY <1>1, <1>2 DEF Scheduled

-----------------------------------------------------------------------------
(* The part of the type invariant that the actions of the service task      *)
(* disturb.                                                                 *)
TypePart == /\ hostname \in BOOLEAN
            /\ pcb \in [Pcb -> Pcbs]
            /\ packet \in [Packet -> Packets]
            /\ probes \in [Pcb -> 0..3]
            /\ starved \subseteq Pcb

LEMMA ProbeType ==
    ASSUME TypePart, NEW Q \in SUBSET Pcb, NEW D \in SUBSET Packet,
           NEW before \in [Pcb -> Pcbs], Probe(Q, D, before)
    PROVE  /\ pcb' \in [Pcb -> Pcbs] /\ packet' \in [Packet -> Packets]
           /\ probes' \in [Pcb -> 0..3] /\ starved' \subseteq Pcb
<1>. PICK N \in SUBSET (Free \cup D) : \E new \in [N -> Q] : ProbeAt(N, new, Q, D, before)
    BY DEF Probe
<1>1. PICK new \in [N -> Q] : ProbeAt(N, new, Q, D, before)
    OBVIOUS
<1>2. packet' \in [Packet -> Packets]
    <2>1. Without(D) \in [Packet -> Packets]
        BY WithoutFacts DEF TypePart
    <2>2. \A p \in N : Allocated(new[p], "probe") \in Packets
        BY DEF Allocated, Packets
    <2> QED BY <1>1, <2>1, <2>2 DEF ProbeAt
<1>3. pcb' \in [Pcb -> Pcbs]
    <2>1. ASSUME NEW q \in Pcb PROVE pcb'[q] \in Pcbs
        <3>1. before[q] \in Pcbs
            OBVIOUS
        <3>2. [ready |-> before[q].ready, state |-> PCB_PROBE_1, running |-> TRUE] \in Pcbs
            BY <3>1 DEF Pcbs, PCB_OFF, PCB_PROBE_1, PCB_RUNNING
        <3>3. [before[q] EXCEPT !.running = FALSE] \in Pcbs
            BY <3>1 DEF Pcbs
        <3> QED BY <1>1, <3>1, <3>2, <3>3 DEF ProbeAt
    <2> QED BY <1>1, <2>1 DEF ProbeAt
<1>4. probes' \in [Pcb -> 0..3]
    BY <1>1 DEF ProbeAt, TypePart
<1>5. starved' \subseteq Pcb
    BY <1>1 DEF ProbeAt, TypePart
<1> QED BY <1>2, <1>3, <1>4, <1>5

LEMMA RunNamelessType ==
    ASSUME TypePart, NEW Q \in SUBSET Pcb, NEW D \in SUBSET Packet,
           NEW before \in [Pcb -> Pcbs], RunNameless(Q, D, before)
    PROVE  /\ pcb' \in [Pcb -> Pcbs] /\ packet' \in [Packet -> Packets]
           /\ probes' \in [Pcb -> 0..3] /\ starved' \subseteq Pcb
<1>1. packet' \in [Packet -> Packets]
    BY WithoutFacts DEF TypePart, RunNameless
<1>2. ASSUME NEW q \in Pcb PROVE pcb'[q] \in Pcbs
    <2>1. before[q] \in Pcbs
        OBVIOUS
    <2>2. [before[q] EXCEPT !.state = PCB_RUNNING] \in Pcbs
        BY <2>1 DEF Pcbs, PCB_OFF, PCB_PROBE_1, PCB_RUNNING
    <2> QED BY <2>1, <2>2 DEF RunNameless
<1> QED BY <1>1, <1>2 DEF RunNameless, TypePart

(* Beginning to probe, with or without a name.                              *)
LEMMA InitProbeType ==
    ASSUME TypePart, NEW q \in Pcb, NEW before \in [Pcb -> Pcbs],
           mdns_priv_init_pcb_probe(q, before)
    PROVE  TypePart'
<1>1. {q} \in SUBSET Pcb /\ Of(q) \in SUBSET Packet
    BY DEF Of
<1>2. CASE hostname /\ Probe({q}, Of(q), before)
    BY <1>1, <1>2, ProbeType DEF TypePart, mdns_priv_init_pcb_probe
<1>3. CASE ~hostname /\ RunNameless({q}, Of(q), before)
    BY <1>1, <1>3, RunNamelessType DEF TypePart, mdns_priv_init_pcb_probe
<1> QED BY <1>2, <1>3 DEF mdns_priv_init_pcb_probe

LEMMA RestartType ==
    ASSUME TypePart, hostname' \in BOOLEAN, mdns_priv_restart_all_pcbs
    PROVE  TypePart'
<1>1. {q \in Pcb : pcb[q].ready} \in SUBSET Pcb /\ Packet \ Free \in SUBSET Packet
    OBVIOUS
<1> QED BY <1>1, ProbeType DEF TypePart, mdns_priv_restart_all_pcbs

-----------------------------------------------------------------------------
(* Probing afresh, for one pcb or for all that are ready: what is scheduled *)
(* for the pcbs of Q goes, and of the others at most what belongs to a pcb  *)
(* that is not ready.                                                       *)
LEMMA ProbeInv ==
    ASSUME IInv, NEW Q \in SUBSET Pcb, NEW D \in SUBSET Packet, NEW before \in [Pcb -> Pcbs],
           hostname' \in BOOLEAN,
           \A p \in Packet : packet[p].pcb \in Q => p \in D,
           \A p \in D : packet[p].pcb \in Q \/ ~pcb[packet[p].pcb].ready,
           \A q \in Q : before[q].state = pcb[q].state,
           \A q \in Pcb \ Q : before[q] = pcb[q],
           hostname \/ \A q \in Pcb \ Q : ~pcb[q].ready,
           Probe(Q, D, before)
    PROVE  PInv'
<1>. USE NoPcbAssumption
<1>. PICK N \in SUBSET (Free \cup D) : \E new \in [N -> Q] :
         /\ \A p, r \in N : new[p] = new[r] => p = r
         /\ ProbeAt(N, new, Q, D, before)
    BY DEF Probe
<1>1. PICK new \in [N -> Q] :
          /\ \A p, r \in N : new[p] = new[r] => p = r
          /\ ProbeAt(N, new, Q, D, before)
    OBVIOUS
<1> DEFINE Started == {new[p] : p \in N}
<1>2. Started \subseteq Q
    OBVIOUS
<1>3. N \subseteq Packet
    BY DEF Free
<1>4. ASSUME NEW q \in Started
      PROVE  /\ pcb'[q].state = PCB_PROBE_1 /\ probes'[q] = 0
             /\ q \notin starved'
    BY <1>1, <1>2 DEF ProbeAt
<1>5. ASSUME NEW q \in Q \ Started
      PROVE  pcb'[q].state = pcb[q].state /\ probes'[q] = probes[q] /\ q \in starved'
    <2>1. pcb'[q] = [before[q] EXCEPT !.running = FALSE]
        BY <1>1 DEF ProbeAt
    <2>2. before[q] \in Pcbs /\ before[q].state = pcb[q].state
        OBVIOUS
    <2>3. pcb'[q].state = pcb[q].state
        BY <2>1, <2>2 DEF Pcbs
    <2> QED BY <1>1, <2>3 DEF ProbeAt
<1>6. ASSUME NEW q \in Pcb \ Q
      PROVE  /\ pcb'[q] = pcb[q] /\ probes'[q] = probes[q]
             /\ q \in starved' <=> q \in starved
    BY <1>1, <1>2 DEF ProbeAt
<1>7. ASSUME NEW p \in N PROVE packet'[p].pcb = new[p] /\ packet'[p].kind = "probe"
    BY <1>1, <1>3 DEF ProbeAt, Allocated
<1>8. ASSUME NEW p \in Packet \ N
      PROVE  /\ packet'[p].pcb # NoPcb => p \notin D
             /\ p \notin D => packet'[p].pcb = packet[p].pcb /\ packet'[p].kind = packet[p].kind
    BY <1>1, WithoutFacts DEF ProbeAt, IInv, TypeOK
<1>9. ProbesCounted'
    <2>1. ASSUME NEW q \in Pcb, Probing(q)' PROVE probes'[q] >= pcb'[q].state - PCB_PROBE_1
        <3>1. CASE q \in Started
            BY <1>4, <3>1 DEF PCB_PROBE_1
        <3>2. CASE q \in Q \ Started
            BY <1>5, <2>1, <3>2 DEF IInv, PInv, ProbesCounted, Probing
        <3>3. CASE q \in Pcb \ Q
            BY <1>6, <2>1, <3>3 DEF IInv, PInv, ProbesCounted, Probing
        <3> QED BY <3>1, <3>2, <3>3
    <2> QED BY <2>1 DEF ProbesCounted
<1>10. ASSUME NEW p \in Packet, NEW q \in Pcb, packet'[p].pcb = q, Probing(q)'
       PROVE  \/ p \in N /\ new[p] = q
              \/ p \notin N /\ q \notin Q /\ packet[p].pcb = q /\ packet'[p].kind = packet[p].kind /\ Probing(q)
    <2>1. CASE p \in N
        BY <1>7, <1>10, <2>1
    <2>2. CASE p \notin N
        <3>1. p \notin D /\ packet[p].pcb = q /\ packet'[p].kind = packet[p].kind
            BY <1>8, <1>10, <2>2
        <3>2. q \notin Q
            BY <3>1
        <3>3. Probing(q)
            BY <1>6, <1>10, <3>2 DEF Probing
        <3> QED BY <2>2, <3>1, <3>2, <3>3
    <2> QED BY <2>1, <2>2
<1>11. OnlyProbes'
    BY <1>7, <1>10 DEF IInv, PInv, OnlyProbes
<1>12. AtMostOne'
    <2>1. ASSUME NEW p \in Packet, NEW r \in Packet, NEW q \in Pcb,
                 packet'[p].pcb = q, packet'[r].pcb = q, Probing(q)'
          PROVE  p = r
        <3>1. CASE p \in N
            BY <1>1, <1>10, <2>1, <3>1
        <3>2. CASE p \notin N
            <4>1. q \notin Q /\ packet[p].pcb = q /\ Probing(q)
                BY <1>10, <2>1, <3>2
            <4>2. r \notin N /\ packet[r].pcb = q
                BY <1>10, <2>1, <4>1
            <4> QED BY <4>1, <4>2 DEF IInv, PInv, AtMostOne
        <3> QED BY <3>1, <3>2
    <2> QED BY <2>1 DEF AtMostOne
<1>13. AtLeastOne'
    <2>1. ASSUME NEW q \in Pcb, q \notin starved', pcb'[q].ready, Probing(q)'
          PROVE  \E p \in Packet : packet'[p].pcb = q
        <3>1. CASE q \in Started
            BY <1>3, <1>7, <3>1
        <3>2. CASE q \in Q \ Started
            BY <1>5, <2>1, <3>2
        <3>3. CASE q \in Pcb \ Q
            <4>1. q \notin starved /\ pcb[q].ready /\ Probing(q)
                BY <1>6, <2>1, <3>3 DEF Probing
            <4>2. PICK p \in Packet : packet[p].pcb = q
                BY <4>1 DEF IInv, PInv, AtLeastOne
            <4>3. p \notin D /\ p \notin N
                BY <3>3, <4>1, <4>2 DEF Free
            <4> QED BY <1>8, <4>2, <4>3
        <3> QED BY <3>1, <3>2, <3>3
    <2> QED BY <2>1 DEF AtLeastOne
<1>14. ProbedBeforeAnnouncing'
    <2>1. ASSUME NEW q \in Pcb, q \notin starved', hostname', pcb'[q].ready, pcb'[q].state > PCB_PROBE_3
          PROVE  probes'[q] = 3
        <3>1. CASE q \in Started
            BY <1>4, <2>1, <3>1 DEF PCB_PROBE_1, PCB_PROBE_3
        <3>2. CASE q \in Q \ Started
            BY <1>5, <2>1, <3>2
        <3>3. CASE q \in Pcb \ Q
            BY <1>6, <2>1, <3>3 DEF IInv, PInv, ProbedBeforeAnnouncing
        <3> QED BY <3>1, <3>2, <3>3
    <2> QED BY <2>1 DEF ProbedBeforeAnnouncing
<1> QED BY <1>9, <1>11, <1>12, <1>13, <1>14 DEF PInv

-----------------------------------------------------------------------------
(* An action that concerns one pcb q leaves the others, and what is         *)
(* scheduled for them, as it was: what holds for q is then enough.          *)
OthersKept(q) ==
    /\ hostname' = hostname
    /\ \A o \in Pcb \ {q} : /\ pcb'[o] = pcb[o] /\ probes'[o] = probes[o]
                            /\ o \in starved' <=> o \in starved
    /\ \A p \in Packet : \A o \in Pcb \ {q} :
           /\ packet'[p].pcb = o <=> packet[p].pcb = o
           /\ packet[p].pcb = o => packet'[p].kind = packet[p].kind

HoldsFor(q) ==
    /\ Probing(q) => probes[q] >= pcb[q].state - PCB_PROBE_1
    /\ Probing(q) => \A p \in Packet : packet[p].pcb = q => packet[p].kind = "probe"
    /\ Probing(q) => \A p, r \in Packet : packet[p].pcb = q /\ packet[r].pcb = q => p = r
    /\ q \notin starved /\ pcb[q].ready /\ Probing(q) => \E p \in Packet : packet[p].pcb = q
    /\ q \notin starved /\ hostname /\ pcb[q].ready /\ pcb[q].state > PCB_PROBE_3 => probes[q] = 3

LEMMA PInvIsOfEach == PInv <=> \A q \in Pcb : HoldsFor(q)
<1>1. PInv => \A q \in Pcb : HoldsFor(q)
    BY DEF PInv, HoldsFor, ProbesCounted, OnlyProbes, AtMostOne, AtLeastOne, ProbedBeforeAnnouncing
<1>2. (\A q \in Pcb : HoldsFor(q)) => PInv
    BY DEF PInv, HoldsFor, ProbesCounted, OnlyProbes, AtMostOne, AtLeastOne, ProbedBeforeAnnouncing
<1> QED BY <1>1, <1>2

LEMMA NextPInvOfEach == ASSUME \A q \in Pcb : HoldsFor(q)' PROVE PInv'
    BY DEF PInv, HoldsFor, ProbesCounted, OnlyProbes, AtMostOne, AtLeastOne, ProbedBeforeAnnouncing

LEMMA OthersHold ==
    ASSUME PInv, NEW q \in Pcb, OthersKept(q), HoldsFor(q)'
    PROVE  PInv'
<1>1. ASSUME NEW o \in Pcb \ {q} PROVE HoldsFor(o)'
    <2>1. HoldsFor(o)
        BY PInvIsOfEach
    <2> QED BY <2>1 DEF HoldsFor, OthersKept, Probing
<1>2. \A o \in Pcb : HoldsFor(o)'
    BY <1>1
<1> QED BY <1>2, NextPInvOfEach

(* Nothing that the invariant speaks of changes.                            *)
LEMMA NothingChanged ==
    ASSUME PInv, UNCHANGED <<hostname, pcb, probes, starved>>,
           \A p \in Packet : packet'[p].pcb = packet[p].pcb /\ packet'[p].kind = packet[p].kind
    PROVE  PInv'
<1>1. ASSUME NEW q \in Pcb PROVE HoldsFor(q)'
    <2>1. HoldsFor(q)
        BY PInvIsOfEach
    <2> QED BY <2>1 DEF HoldsFor, Probing
<1> QED BY <1>1, NextPInvOfEach

-----------------------------------------------------------------------------
(* The actions of the service task, one lemma each                          *)

LEMMA RunNamelessInv ==
    ASSUME IInv, NEW q \in Pcb, NEW before \in [Pcb -> Pcbs],
           ~hostname, UNCHANGED hostname, \A o \in Pcb \ {q} : before[o] = pcb[o],
           RunNameless({q}, Of(q), before)
    PROVE  PInv'
<1>. USE NoPcbAssumption
<1>1. \A p \in Packet : /\ p \in Of(q) => packet'[p].pcb = NoPcb
                        /\ p \notin Of(q) => packet'[p].pcb = packet[p].pcb /\ packet'[p].kind = packet[p].kind
    <2>1. Of(q) \in SUBSET Packet /\ packet \in [Packet -> Packets]
        BY DEF Of, IInv, TypeOK
    <2> QED BY <2>1, WithoutFacts DEF RunNameless
<1>2. pcb'[q].state = PCB_RUNNING
    <2>1. before[q] \in Pcbs
        OBVIOUS
    <2> QED BY <2>1 DEF RunNameless, Pcbs
<1>3. OthersKept(q)
    <2>1. ASSUME NEW o \in Pcb \ {q} PROVE pcb'[o] = pcb[o]
        BY DEF RunNameless
    <2> QED BY <1>1, <2>1 DEF OthersKept, RunNameless, Of
<1>4. HoldsFor(q)'
    BY <1>2 DEF HoldsFor, Probing, PCB_RUNNING, PCB_PROBE_1, PCB_PROBE_3
<1> QED BY <1>3, <1>4, OthersHold DEF IInv

LEMMA InitProbeInv ==
    ASSUME IInv, NEW q \in Pcb, NEW before \in [Pcb -> Pcbs],
           before[q].state = pcb[q].state, \A o \in Pcb \ {q} : before[o] = pcb[o],
           mdns_priv_init_pcb_probe(q, before)
    PROVE  PInv'
<1>1. CASE hostname /\ Probe({q}, Of(q), before)
    <2>1. {q} \in SUBSET Pcb /\ Of(q) \in SUBSET Packet
        BY DEF Of
    <2>2. hostname' \in BOOLEAN
        BY DEF mdns_priv_init_pcb_probe, IInv, TypeOK
    <2>3. \A p \in Packet : packet[p].pcb \in {q} <=> p \in Of(q)
        BY DEF Of
    <2> QED BY <1>1, <2>1, <2>2, <2>3, ProbeInv
<1>2. CASE ~hostname /\ RunNameless({q}, Of(q), before)
    BY <1>2, RunNamelessInv DEF mdns_priv_init_pcb_probe
<1> QED BY <1>1, <1>2 DEF mdns_priv_init_pcb_probe

LEMMA RestartInv ==
    ASSUME IInv, hostname' \in BOOLEAN, mdns_priv_restart_all_pcbs
    PROVE  PInv'
<1>. USE NoPcbAssumption
<1> DEFINE Q == {q \in Pcb : pcb[q].ready}
           D == Packet \ Free
<1>1. Q \in SUBSET Pcb /\ D \in SUBSET Packet
    OBVIOUS
<1>2. \A p \in Packet : packet[p].pcb \in Q => p \in D
    BY DEF Free
<1>3. \A p \in D : packet[p].pcb \in Q \/ ~pcb[packet[p].pcb].ready
    BY DEF Free, IInv, TypeOK, Packets
<1>4. pcb \in [Pcb -> Pcbs]
    BY DEF IInv, TypeOK
<1>5. \A q \in Pcb \ Q : ~pcb[q].ready
    OBVIOUS
<1> QED BY <1>1, <1>2, <1>3, <1>4, <1>5, ProbeInv DEF mdns_priv_restart_all_pcbs

LEMMA EnableInv ==
    ASSUME IInv, NEW q \in Pcb, mdns_priv_pcb_enable(q)
    PROVE  TypePart' /\ PInv'
<1>1. TypePart /\ pcb \in [Pcb -> Pcbs]
    BY DEF IInv, TypeOK, TypePart
<1>2. CASE mdns_priv_init_pcb_probe(q, pcb)
    BY <1>1, <1>2, InitProbeInv, InitProbeType
<1>3. CASE mdns_priv_init_pcb_probe(q, [pcb EXCEPT ![q].ready = TRUE])
    <2> DEFINE before == [pcb EXCEPT ![q].ready = TRUE]
    <2>1. pcb[q] \in Pcbs
        BY <1>1
    <2>2. before[q] \in Pcbs /\ before[q].state = pcb[q].state
        BY <1>1, <2>1 DEF Pcbs
    <2>3. before \in [Pcb -> Pcbs] /\ \A o \in Pcb \ {q} : before[o] = pcb[o]
        BY <1>1, <2>2
    <2> HIDE DEF before
    <2>4. mdns_priv_init_pcb_probe(q, before)
        BY <1>3 DEF before
    <2> QED BY <1>1, <2>2, <2>3, <2>4, InitProbeInv, InitProbeType
<1>4. CASE NoChange
    BY <1>1, <1>4, NothingChanged DEF NoChange, IInv, TypePart
<1> QED BY <1>2, <1>3, <1>4 DEF mdns_priv_pcb_enable

LEMMA DisableInv ==
    ASSUME IInv, NEW q \in Pcb, mdns_priv_pcb_disable(q)
    PROVE  TypePart' /\ PInv'
<1>. USE NoPcbAssumption
<1>1. TypePart /\ pcb[q] \in Pcbs
    BY DEF IInv, TypeOK, TypePart
<1>2. Of(q) \in SUBSET Packet
    BY DEF Of
<1>3. CASE /\ pcb[q].ready
           /\ packet' = Without(Of(q))
           /\ pcb' = [pcb EXCEPT ![q] = [ready |-> FALSE, state |-> PCB_OFF, running |-> FALSE]]
    <2>1. [ready |-> FALSE, state |-> PCB_OFF, running |-> FALSE] \in Pcbs
        BY DEF Pcbs
    <2>2. TypePart'
        BY <1>1, <1>2, <1>3, <2>1, WithoutFacts DEF TypePart, mdns_priv_pcb_disable
    <2>3. OthersKept(q)
        BY <1>1, <1>2, <1>3, WithoutFacts DEF OthersKept, TypePart, mdns_priv_pcb_disable, Of
    <2>4. pcb'[q].state = PCB_OFF
        BY <1>1, <1>3 DEF TypePart
    <2>5. HoldsFor(q)'
        BY <2>4 DEF HoldsFor, Probing, PCB_OFF, PCB_PROBE_1, PCB_PROBE_3
    <2> QED BY <2>2, <2>3, <2>5, OthersHold DEF IInv
<1>4. CASE pcb' = [pcb EXCEPT ![q].state = PCB_OFF] /\ UNCHANGED packet
    <2>1. [pcb[q] EXCEPT !.state = PCB_OFF] \in Pcbs
        BY <1>1 DEF Pcbs
    <2>2. TypePart'
        BY <1>1, <1>4, <2>1 DEF TypePart, mdns_priv_pcb_disable
    <2>3. OthersKept(q)
        BY <1>1, <1>4 DEF OthersKept, TypePart, mdns_priv_pcb_disable
    <2>4. pcb'[q].state = PCB_OFF
        BY <1>1, <1>4 DEF TypePart, Pcbs
    <2>5. HoldsFor(q)'
        BY <2>4 DEF HoldsFor, Probing, PCB_OFF, PCB_PROBE_1, PCB_PROBE_3
    <2> QED BY <2>2, <2>3, <2>5, OthersHold DEF IInv
<1> QED BY <1>3, <1>4 DEF mdns_priv_pcb_disable

(* Setting the state of a pcb that is past probing to another such state.   *)
LEMMA StateSet ==
    ASSUME TypePart, NEW q \in Pcb, NEW state \in {PCB_OFF} \cup PCB_PROBE_1..PCB_RUNNING,
           pcb' = [pcb EXCEPT ![q].state = state]
    PROVE  /\ pcb' \in [Pcb -> Pcbs]
           /\ pcb'[q].state = state /\ pcb'[q].ready = pcb[q].ready
           /\ \A o \in Pcb \ {q} : pcb'[o] = pcb[o]
<1>1. pcb[q] \in Pcbs
    BY DEF TypePart
<1>2. [pcb[q] EXCEPT !.state = state] \in Pcbs
    BY <1>1 DEF Pcbs
<1>3. pcb'[q] = [pcb[q] EXCEPT !.state = state]
    BY DEF TypePart
<1>4. pcb'[q].state = state /\ pcb'[q].ready = pcb[q].ready
    BY <1>1, <1>3 DEF Pcbs
<1> QED BY <1>2, <1>4 DEF TypePart

(* Scheduling at a free address disturbs no other packet.                   *)
LEMMA ScheduledAtFree ==
    ASSUME TypePart, NEW q \in Pcb, NEW p \in Free,
           NEW kind \in {"probe", "announce", "response"},
           packet' = Scheduled(packet, p, q, kind)
    PROVE  /\ packet' \in [Packet -> Packets]
           /\ \A r \in Packet : \A o \in Pcb \ {q} :
                  /\ packet'[r].pcb = o <=> packet[r].pcb = o
                  /\ packet[r].pcb = o => packet'[r].kind = packet[r].kind
<1>1. p \in Packet /\ packet[p].pcb = NoPcb
    BY DEF Free
<1>2. packet \in [Packet -> Packets]
    BY DEF TypePart
<1>3. /\ packet' \in [Packet -> Packets] /\ packet'[p].pcb = q
      /\ \A r \in Packet \ {p} : packet'[r] = packet[r]
    BY <1>1, <1>2, ScheduledFacts
<1> QED BY <1>1, <1>3, NoPcbAssumption

LEMMA AnnounceAnewInv ==
    ASSUME IInv, NEW q \in Pcb, pcb[q].state = PCB_RUNNING, AnnounceAnew(q)
    PROVE  TypePart' /\ PInv'
<1>1. TypePart
    BY DEF IInv, TypeOK, TypePart
<1>2. PCB_ANNOUNCE_1 \in {PCB_OFF} \cup PCB_PROBE_1..PCB_RUNNING
    BY DEF PCB_ANNOUNCE_1, PCB_PROBE_1, PCB_RUNNING
<1>3. /\ pcb' \in [Pcb -> Pcbs]
      /\ pcb'[q].state = PCB_ANNOUNCE_1 /\ pcb'[q].ready = pcb[q].ready
      /\ \A o \in Pcb \ {q} : pcb'[o] = pcb[o]
    BY <1>1, <1>2, StateSet DEF AnnounceAnew
<1>4. HoldsFor(q)
    BY PInvIsOfEach DEF IInv
<1>5. starved' = starved \/ starved' = starved \cup {q}
    BY DEF AnnounceAnew
<1>6. HoldsFor(q)'
    BY <1>3, <1>4, <1>5 DEF HoldsFor, Probing, AnnounceAnew, PCB_ANNOUNCE_1, PCB_RUNNING, PCB_PROBE_1, PCB_PROBE_3
<1>7. /\ packet' \in [Packet -> Packets]
      /\ \A r \in Packet : \A o \in Pcb \ {q} :
             /\ packet'[r].pcb = o <=> packet[r].pcb = o
             /\ packet[r].pcb = o => packet'[r].kind = packet[r].kind
    <2>1. CASE UNCHANGED packet
        BY <1>1, <2>1 DEF TypePart
    <2>2. CASE \E p \in Free : packet' = Scheduled(packet, p, q, "announce")
        BY <1>1, <2>2, ScheduledAtFree
    <2> QED BY <2>1, <2>2 DEF AnnounceAnew
<1>8. OthersKept(q)
    BY <1>3, <1>5, <1>7 DEF OthersKept, AnnounceAnew
<1>9. TypePart'
    BY <1>1, <1>3, <1>5, <1>7 DEF TypePart, AnnounceAnew
<1> QED BY <1>6, <1>8, <1>9, OthersHold DEF IInv

LEMMA AnnounceInv ==
    ASSUME IInv, NEW q \in Pcb, mdns_priv_pcb_announce(q)
    PROVE  TypePart' /\ PInv'
<1>1. TypePart /\ pcb \in [Pcb -> Pcbs]
    BY DEF IInv, TypeOK, TypePart
<1>2. CASE mdns_priv_init_pcb_probe(q, pcb)
    BY <1>1, <1>2, InitProbeInv, InitProbeType
<1>3. CASE /\ Announcing(q)
           /\ pcb' = [pcb EXCEPT ![q].state = PCB_ANNOUNCE_1]
           /\ UNCHANGED <<hostname, packet, probes, starved>>
    <2>1. PCB_ANNOUNCE_1 \in {PCB_OFF} \cup PCB_PROBE_1..PCB_RUNNING
        BY DEF PCB_ANNOUNCE_1, PCB_PROBE_1, PCB_RUNNING
    <2>2. /\ pcb' \in [Pcb -> Pcbs]
          /\ pcb'[q].state = PCB_ANNOUNCE_1 /\ pcb'[q].ready = pcb[q].ready
          /\ \A o \in Pcb \ {q} : pcb'[o] = pcb[o]
        BY <1>1, <1>3, <2>1, StateSet
    <2>3. HoldsFor(q)
        BY PInvIsOfEach DEF IInv
    <2>4. HoldsFor(q)'
        BY <1>3, <2>2, <2>3 DEF HoldsFor, Announcing, Probing, PCB_ANNOUNCE_1, PCB_ANNOUNCE_3, PCB_PROBE_1, PCB_PROBE_3
    <2>5. OthersKept(q)
        BY <1>3, <2>2 DEF OthersKept
    <2>6. TypePart'
        BY <1>1, <1>3, <2>2 DEF TypePart
    <2> QED BY <2>4, <2>5, <2>6, OthersHold DEF IInv
<1>4. CASE pcb[q].state = PCB_RUNNING /\ AnnounceAnew(q)
    BY <1>4, AnnounceAnewInv
<1>5. CASE NoChange
    BY <1>1, <1>5, NothingChanged DEF NoChange, IInv, TypePart
<1> QED BY <1>2, <1>3, <1>4, <1>5 DEF mdns_priv_pcb_announce

LEMMA QuestionInv ==
    ASSUME IInv, NEW q \in Pcb, Question(q)
    PROVE  TypePart' /\ PInv'
<1>1. TypePart
    BY DEF IInv, TypeOK, TypePart
<1>2. CASE NoChange
    BY <1>1, <1>2, NothingChanged DEF NoChange, IInv, TypePart
<1>3. CASE /\ pcb[q].state > PCB_PROBE_3
           /\ \E p \in Free : packet' = Scheduled(packet, p, q, "response")
           /\ UNCHANGED <<hostname, pcb, probes, starved>>
    <2>1. /\ packet' \in [Packet -> Packets]
          /\ \A r \in Packet : \A o \in Pcb \ {q} :
                 /\ packet'[r].pcb = o <=> packet[r].pcb = o
                 /\ packet[r].pcb = o => packet'[r].kind = packet[r].kind
        BY <1>1, <1>3, ScheduledAtFree
    <2>2. HoldsFor(q)
        BY PInvIsOfEach DEF IInv
    <2>3. pcb[q].state \in {PCB_OFF} \cup PCB_PROBE_1..PCB_RUNNING
        BY <1>1 DEF TypePart, Pcbs
    <2>4. ~Probing(q)'
        BY <1>3, <2>3 DEF Probing, PCB_OFF, PCB_PROBE_1, PCB_PROBE_3, PCB_RUNNING
    <2>5. HoldsFor(q)'
        BY <1>3, <2>2, <2>4 DEF HoldsFor
    <2>6. OthersKept(q)
        BY <1>3, <2>1 DEF OthersKept
    <2>7. TypePart'
        BY <1>1, <1>3, <2>1 DEF TypePart
    <2> QED BY <2>5, <2>6, <2>7, OthersHold DEF IInv
<1> QED BY <1>2, <1>3 DEF Question

LEMMA ConflictInv ==
    ASSUME IInv, NEW q \in Pcb, Conflict(q)
    PROVE  TypePart' /\ PInv'
<1>1. TypePart /\ pcb \in [Pcb -> Pcbs]
    BY DEF IInv, TypeOK, TypePart
<1>2. CASE UNCHANGED hostname /\ mdns_priv_restart_all_pcbs
    BY <1>1, <1>2, RestartInv, RestartType DEF TypePart
<1>3. CASE mdns_priv_init_pcb_probe(q, pcb)
    BY <1>1, <1>3, InitProbeInv, InitProbeType
<1>4. CASE NoChange
    BY <1>1, <1>4, NothingChanged DEF NoChange, IInv, TypePart
<1> QED BY <1>2, <1>3, <1>4 DEF Conflict

(* A packet of q is sent: it goes, and one of q comes at its address or at  *)
(* a free one, or none does.                                                *)
LEMMA SentAndScheduled ==
    ASSUME TypePart, NEW q \in Pcb, NEW p \in Packet, packet[p].pcb = q,
           NEW a \in Free \cup {p}, NEW kind \in {"probe", "announce", "response"},
           packet' = Scheduled(Without({p}), a, q, kind)
    PROVE  /\ packet' \in [Packet -> Packets]
           /\ packet'[a].pcb = q /\ packet'[a].kind = kind
           /\ \A r \in Packet \ {a} : packet'[r].pcb # NoPcb =>
                  r # p /\ packet'[r].pcb = packet[r].pcb /\ packet'[r].kind = packet[r].kind
           /\ \A r \in Packet : \A o \in Pcb \ {q} :
                  /\ packet'[r].pcb = o <=> packet[r].pcb = o
                  /\ packet[r].pcb = o => packet'[r].kind = packet[r].kind
<1>. DEFINE W == Without({p})
<1>1. /\ W \in [Packet -> Packets]
      /\ W[p].pcb = NoPcb
      /\ \A r \in Packet \ {p} : W[r].pcb = packet[r].pcb /\ W[r].kind = packet[r].kind
    BY WithoutFacts DEF TypePart
<1>2. a \in Packet
    BY DEF Free
<1> HIDE DEF W
<1>3. packet' = Scheduled(W, a, q, kind)
    BY DEF W
<1>4. /\ packet' \in [Packet -> Packets]
      /\ packet'[a].pcb = q /\ packet'[a].kind = kind
      /\ \A r \in Packet \ {a} : packet'[r] = W[r]
    <2>1. W \in [Packet -> Packets]
        BY <1>1
    <2>2. /\ Scheduled(W, a, q, kind) \in [Packet -> Packets]
          /\ Scheduled(W, a, q, kind)[a].pcb = q
          /\ Scheduled(W, a, q, kind)[a].kind = kind
          /\ \A r \in Packet \ {a} : Scheduled(W, a, q, kind)[r] = W[r]
        BY ONLY <1>2, <2>1, ScheduledFacts
    <2> QED BY ONLY <1>3, <2>2
<1>5. ASSUME NEW r \in Packet \ {a}, packet'[r].pcb # NoPcb
      PROVE  r # p /\ packet'[r].pcb = packet[r].pcb /\ packet'[r].kind = packet[r].kind
    BY <1>1, <1>4, <1>5
<1>6. ASSUME NEW r \in Packet, NEW o \in Pcb \ {q}
      PROVE  /\ packet'[r].pcb = o <=> packet[r].pcb = o
             /\ packet[r].pcb = o => packet'[r].kind = packet[r].kind
    <2>1. CASE r = a
        <3>1. packet[a].pcb = NoPcb \/ packet[a].pcb = q
            BY DEF Free
        <3> QED BY <1>4, <2>1, <3>1, NoPcbAssumption
    <2>2. CASE r # a /\ r = p
        BY <1>1, <1>4, <2>2, NoPcbAssumption
    <2>3. CASE r # a /\ r # p
        BY <1>1, <1>4, <2>3
    <2> QED BY <2>1, <2>2, <2>3
<1> QED BY <1>4, <1>5, <1>6

(* The same packet is sent and waits to be sent again.                      *)
LEMMA SentAgain ==
    ASSUME TypePart, NEW q \in Pcb, NEW p \in Packet, packet[p].pcb = q,
           packet' = Scheduled(Without({p}), p, q, packet[p].kind)
    PROVE  /\ packet' \in [Packet -> Packets]
           /\ packet'[p].pcb = q /\ packet'[p].kind = packet[p].kind
           /\ \A r \in Packet : packet'[r].pcb = q => packet[r].pcb = q /\ packet'[r].kind = packet[r].kind
           /\ \A r \in Packet : \A o \in Pcb \ {q} :
                  /\ packet'[r].pcb = o <=> packet[r].pcb = o
                  /\ packet[r].pcb = o => packet'[r].kind = packet[r].kind
<1>. DEFINE W == Without({p})
            kind == packet[p].kind
<1>1. /\ W \in [Packet -> Packets]
      /\ W[p].pcb = NoPcb
      /\ \A r \in Packet \ {p} : W[r].pcb = packet[r].pcb /\ W[r].kind = packet[r].kind
    BY WithoutFacts DEF TypePart
<1>2. kind \in {"probe", "announce", "response"}
    BY DEF TypePart, Packets
<1>3. packet' = Scheduled(W, p, q, kind)
    OBVIOUS
<1> HIDE DEF W, kind
<1>4. /\ packet' \in [Packet -> Packets]
      /\ packet'[p].pcb = q /\ packet'[p].kind = kind
      /\ \A r \in Packet \ {p} : packet'[r] = W[r]
    BY ONLY p \in Packet, q \in Pcb, <1>1, <1>2, <1>3, ScheduledFacts
<1>5. packet'[p].kind = packet[p].kind
    BY <1>4 DEF kind
<1>6. ASSUME NEW r \in Packet, packet'[r].pcb = q
      PROVE  packet[r].pcb = q /\ packet'[r].kind = packet[r].kind
    BY <1>1, <1>4, <1>5, <1>6
<1>7. ASSUME NEW r \in Packet, NEW o \in Pcb \ {q}
      PROVE  /\ packet'[r].pcb = o <=> packet[r].pcb = o
             /\ packet[r].pcb = o => packet'[r].kind = packet[r].kind
    BY <1>1, <1>4
<1> QED BY <1>4, <1>5, <1>6, <1>7

LEMMA SentAndFreed ==
    ASSUME TypePart, NEW q \in Pcb, NEW p \in Packet, packet[p].pcb = q, packet' = Without({p})
    PROVE  /\ packet' \in [Packet -> Packets]
           /\ \A r \in Packet : \A o \in Pcb \ {q} :
                  /\ packet'[r].pcb = o <=> packet[r].pcb = o
                  /\ packet[r].pcb = o => packet'[r].kind = packet[r].kind
<1>1. /\ packet' \in [Packet -> Packets]
      /\ packet'[p].pcb = NoPcb
      /\ \A r \in Packet \ {p} : packet'[r].pcb = packet[r].pcb /\ packet'[r].kind = packet[r].kind
    BY WithoutFacts DEF TypePart
<1> QED BY <1>1, NoPcbAssumption

LEMMA ProbeCount ==
    ASSUME IInv, NEW q \in Pcb, NEW p \in Packet, packet[p].pcb = q, CountsProbe(p, q)
    PROVE  /\ probes' \in [Pcb -> 0..3]
           /\ \A o \in Pcb \ {q} : probes'[o] = probes[o]
           /\ ~Probing(q) => probes'[q] = probes[q]
           /\ Probing(q) => probes'[q] >= pcb[q].state - PCB_PROBE_1 + 1
           /\ probes'[q] >= probes[q]
<1>1. probes \in [Pcb -> 0..3] /\ pcb[q] \in Pcbs
    BY DEF IInv, TypeOK
<1>2. CASE Probing(q)
    <2>1. packet[p].kind = "probe" /\ probes[q] >= pcb[q].state - PCB_PROBE_1
        BY <1>2 DEF IInv, PInv, OnlyProbes, ProbesCounted
    <2>2. pcb[q].state \in PCB_PROBE_1..PCB_PROBE_3
        BY <1>2 DEF Probing
    <2>3. probes' = [probes EXCEPT ![q] = IF probes[q] < 3 THEN probes[q] + 1 ELSE probes[q]]
        BY <1>1, <1>2, <2>1 DEF CountsProbe
    <2> QED BY <1>1, <1>2, <2>1, <2>2, <2>3 DEF PCB_PROBE_1, PCB_PROBE_3
<1>3. CASE ~Probing(q)
    BY <1>1, <1>3 DEF CountsProbe
<1> QED BY <1>2, <1>3

(* The packet is sent again, and the pcb enters the next state.             *)
LEMMA ResendInv ==
    ASSUME IInv, NEW q \in Pcb, NEW p \in Packet, packet[p].pcb = q, UNCHANGED hostname,
           \/ pcb[q].state \in PCB_PROBE_1..PCB_PROBE_3 - 1
           \/ pcb[q].state \in PCB_ANNOUNCE_1..PCB_ANNOUNCE_3 - 1,
           Resend(p, q, pcb[q].state + 1), CountsProbe(p, q)
    PROVE  TypePart' /\ PInv'
<1>. USE DEF PCB_OFF, PCB_PROBE_1, PCB_PROBE_3, PCB_ANNOUNCE_1, PCB_ANNOUNCE_3, PCB_RUNNING
<1>1. TypePart
    BY DEF IInv, TypeOK, TypePart
<1>2. packet' = Scheduled(Without({p}), p, q, packet[p].kind)
    BY DEF Resend
<1>3. /\ packet' \in [Packet -> Packets]
      /\ packet'[p].pcb = q /\ packet'[p].kind = packet[p].kind
      /\ \A r \in Packet : packet'[r].pcb = q => packet[r].pcb = q /\ packet'[r].kind = packet[r].kind
      /\ \A r \in Packet : \A o \in Pcb \ {q} :
             /\ packet'[r].pcb = o <=> packet[r].pcb = o
             /\ packet[r].pcb = o => packet'[r].kind = packet[r].kind
    BY <1>1, <1>2, SentAgain
<1>4. pcb[q].state + 1 \in {PCB_OFF} \cup PCB_PROBE_1..PCB_RUNNING
    OBVIOUS
<1>5. /\ pcb' \in [Pcb -> Pcbs]
      /\ pcb'[q].state = pcb[q].state + 1 /\ pcb'[q].ready = pcb[q].ready
      /\ \A o \in Pcb \ {q} : pcb'[o] = pcb[o]
    BY <1>1, <1>4, StateSet DEF Resend
<1>6. /\ probes' \in [Pcb -> 0..3]
      /\ \A o \in Pcb \ {q} : probes'[o] = probes[o]
      /\ ~Probing(q) => probes'[q] = probes[q]
      /\ Probing(q) => probes'[q] >= pcb[q].state - PCB_PROBE_1 + 1
      /\ probes'[q] >= probes[q]
    BY ProbeCount
<1>7. starved' = starved
    BY DEF Resend
<1>8. TypePart'
    BY <1>1, <1>3, <1>5, <1>6, <1>7 DEF TypePart
<1>9. OthersKept(q)
    BY <1>3, <1>5, <1>6, <1>7 DEF OthersKept
<1>10. HoldsFor(q)'
    <2>1. HoldsFor(q)
        BY PInvIsOfEach DEF IInv
    <2>2. CASE pcb[q].state \in PCB_PROBE_1..PCB_PROBE_3 - 1
        <3>1. Probing(q) /\ Probing(q)' /\ ~(pcb'[q].state > PCB_PROBE_3)
            BY <1>5, <2>2 DEF Probing
        <3>2. probes'[q] >= pcb'[q].state - PCB_PROBE_1
            BY <1>5, <1>6, <2>2, <3>1
        <3>3. \A r \in Packet : packet'[r].pcb = q => packet'[r].kind = "probe" /\ packet[r].pcb = q
            BY <1>3, <2>1, <3>1, NoPcbAssumption DEF HoldsFor
        <3> QED BY <1>3, <2>1, <3>1, <3>2, <3>3 DEF HoldsFor
    <2>3. CASE pcb[q].state \in PCB_ANNOUNCE_1..PCB_ANNOUNCE_3 - 1
        <3>1. ~Probing(q) /\ ~Probing(q)'
            BY <1>5, <2>3 DEF Probing
        <3> QED BY <1>5, <1>6, <1>7, <2>1, <2>3, <3>1 DEF HoldsFor
    <2> QED BY <2>2, <2>3
<1> QED BY <1>8, <1>9, <1>10, OthersHold DEF IInv

(* The third probe was sent: it becomes an announcement, or waits for       *)
(* memory.                                                                  *)
LEMMA BecomesAnnouncementInv ==
    ASSUME IInv, NEW q \in Pcb, NEW p \in Packet, packet[p].pcb = q, UNCHANGED hostname,
           pcb[q].state = PCB_PROBE_3, BecomesAnnouncement(p, q), CountsProbe(p, q)
    PROVE  TypePart' /\ PInv'
<1>. USE DEF PCB_OFF, PCB_PROBE_1, PCB_PROBE_3, PCB_ANNOUNCE_1, PCB_RUNNING
<1>1. TypePart /\ pcb[q] \in Pcbs
    BY DEF IInv, TypeOK, TypePart
<1>2. Probing(q)
    BY DEF Probing
<1>3. /\ probes' \in [Pcb -> 0..3]
      /\ \A o \in Pcb \ {q} : probes'[o] = probes[o]
      /\ probes'[q] = 3
    <2>1. /\ probes' \in [Pcb -> 0..3]
          /\ \A o \in Pcb \ {q} : probes'[o] = probes[o]
          /\ probes'[q] >= pcb[q].state - PCB_PROBE_1 + 1
        BY <1>2, ProbeCount
    <2> QED BY <2>1
<1>4. CASE \E a \in Free :
               /\ packet' = Scheduled(Without({p}), a, q, "announce")
               /\ pcb' = [pcb EXCEPT ![q].state = PCB_ANNOUNCE_1, ![q].running = FALSE]
               /\ starved' = starved \ {q}
    <2>1. PICK a \in Free : packet' = Scheduled(Without({p}), a, q, "announce")
        BY <1>4
    <2>2. /\ packet' \in [Packet -> Packets]
          /\ \A r \in Packet : \A o \in Pcb \ {q} :
                 /\ packet'[r].pcb = o <=> packet[r].pcb = o
                 /\ packet[r].pcb = o => packet'[r].kind = packet[r].kind
        BY <1>1, <2>1, SentAndScheduled
    <2>3. pcb'[q] = [pcb[q] EXCEPT !.state = PCB_ANNOUNCE_1, !.running = FALSE]
        BY <1>1, <1>4 DEF TypePart
    <2>4. pcb'[q] \in Pcbs /\ pcb'[q].state = PCB_ANNOUNCE_1
        <3>1. pcb'[q] = [ready |-> pcb[q].ready, state |-> PCB_ANNOUNCE_1, running |-> FALSE]
            BY <1>1, <2>3 DEF Pcbs
        <3> QED BY <1>1, <3>1 DEF Pcbs
    <2>5. pcb' \in [Pcb -> Pcbs] /\ \A o \in Pcb \ {q} : pcb'[o] = pcb[o]
        BY <1>1, <1>4, <2>4 DEF TypePart
    <2>6. TypePart'
        BY <1>1, <1>3, <1>4, <2>2, <2>5 DEF TypePart
    <2>7. OthersKept(q)
        BY <1>3, <1>4, <2>2, <2>5 DEF OthersKept
    <2>8. HoldsFor(q)'
        BY <1>3, <2>4 DEF HoldsFor, Probing
    <2> QED BY <2>6, <2>7, <2>8, OthersHold DEF IInv
<1>5. CASE /\ packet' = Scheduled(Without({p}), p, q, packet[p].kind)
           /\ starved' = starved \cup {q}
           /\ UNCHANGED pcb
    <2>1. packet' = Scheduled(Without({p}), p, q, packet[p].kind)
        BY <1>5
    <2>2. /\ packet' \in [Packet -> Packets]
          /\ packet'[p].pcb = q /\ packet'[p].kind = packet[p].kind
          /\ \A r \in Packet : packet'[r].pcb = q => packet[r].pcb = q /\ packet'[r].kind = packet[r].kind
          /\ \A r \in Packet : \A o \in Pcb \ {q} :
                 /\ packet'[r].pcb = o <=> packet[r].pcb = o
                 /\ packet[r].pcb = o => packet'[r].kind = packet[r].kind
        BY <1>1, <2>1, SentAgain
    <2>3. TypePart'
        BY <1>1, <1>3, <1>5, <2>2 DEF TypePart
    <2>4. OthersKept(q)
        BY <1>3, <1>5, <2>2 DEF OthersKept
    <2>5. HoldsFor(q)
        BY PInvIsOfEach DEF IInv
    <2>6. \A r \in Packet : packet'[r].pcb = q => packet'[r].kind = "probe" /\ packet[r].pcb = q
        BY <1>2, <2>2, <2>5, NoPcbAssumption DEF HoldsFor
    <2>7. HoldsFor(q)'
        <3>1. pcb'[q] = pcb[q] /\ Probing(q)' /\ q \in starved'
            BY <1>2, <1>5 DEF Probing
        <3>2. probes'[q] >= pcb'[q].state - PCB_PROBE_1
            BY <1>3, <3>1
        <3>3. \A r, t \in Packet : packet'[r].pcb = q /\ packet'[t].pcb = q => r = t
            BY <1>2, <2>5, <2>6 DEF HoldsFor
        <3> QED BY <2>6, <3>1, <3>2, <3>3 DEF HoldsFor
    <2> QED BY <2>3, <2>4, <2>7, OthersHold DEF IInv
<1> QED BY <1>4, <1>5 DEF BecomesAnnouncement

(* The last packet of a pcb past probing, or one of a pcb that is off, goes.*)
LEMMA LastSentInv ==
    ASSUME IInv, NEW q \in Pcb, NEW p \in Packet, packet[p].pcb = q,
           UNCHANGED <<hostname, starved>>,
           pcb[q].state \in {PCB_OFF, PCB_ANNOUNCE_3, PCB_RUNNING},
           packet' = Without({p}),
           \/ pcb[q].state = PCB_ANNOUNCE_3 /\ pcb' = [pcb EXCEPT ![q].state = PCB_RUNNING]
           \/ UNCHANGED pcb,
           CountsProbe(p, q)
    PROVE  TypePart' /\ PInv'
<1>. USE DEF PCB_OFF, PCB_PROBE_1, PCB_PROBE_3, PCB_ANNOUNCE_3, PCB_RUNNING
<1>1. TypePart
    BY DEF IInv, TypeOK, TypePart
<1>2. /\ packet' \in [Packet -> Packets]
      /\ \A r \in Packet : \A o \in Pcb \ {q} :
             /\ packet'[r].pcb = o <=> packet[r].pcb = o
             /\ packet[r].pcb = o => packet'[r].kind = packet[r].kind
    BY <1>1, SentAndFreed
<1>3. ~Probing(q)
    BY DEF Probing
<1>4. /\ probes' \in [Pcb -> 0..3]
      /\ \A o \in Pcb \ {q} : probes'[o] = probes[o]
      /\ probes'[q] = probes[q]
    BY <1>3, ProbeCount
<1>5. /\ pcb' \in [Pcb -> Pcbs]
      /\ \/ pcb'[q].state = pcb[q].state
         \/ pcb[q].state = PCB_ANNOUNCE_3 /\ pcb'[q].state = PCB_RUNNING
      /\ pcb'[q].ready = pcb[q].ready
      /\ \A o \in Pcb \ {q} : pcb'[o] = pcb[o]
    <2>1. CASE UNCHANGED pcb
        BY <1>1, <2>1 DEF TypePart
    <2>2. CASE pcb[q].state = PCB_ANNOUNCE_3 /\ pcb' = [pcb EXCEPT ![q].state = PCB_RUNNING]
        <3>1. PCB_RUNNING \in {PCB_OFF} \cup PCB_PROBE_1..PCB_RUNNING
            OBVIOUS
        <3> QED BY <1>1, <2>2, <3>1, StateSet
    <2> QED BY <2>1, <2>2
<1>6. TypePart'
    BY <1>1, <1>2, <1>4, <1>5 DEF TypePart
<1>7. OthersKept(q)
    BY <1>2, <1>4, <1>5 DEF OthersKept
<1>8. HoldsFor(q)'
    <2>1. HoldsFor(q)
        BY PInvIsOfEach DEF IInv
    <2>2. ~Probing(q)'
        BY <1>5 DEF Probing
    <2> QED BY <1>4, <1>5, <2>1, <2>2 DEF HoldsFor
<1> QED BY <1>6, <1>7, <1>8, OthersHold DEF IInv

LEMMA SendPacketInv ==
    ASSUME IInv, NEW p \in Packet, SendPacket(p)
    PROVE  TypePart' /\ PInv'
<1>1. CASE NoChange
    BY <1>1, NothingChanged DEF NoChange, IInv, TypeOK, TypePart
<1>2. ASSUME NEW q \in Pcb, q = packet[p].pcb, UNCHANGED hostname, ScheduleTx(p, q), CountsProbe(p, q)
      PROVE  TypePart' /\ PInv'
    <2>1. CASE /\ \/ pcb[q].state \in PCB_PROBE_1..PCB_PROBE_3 - 1
                  \/ pcb[q].state \in PCB_ANNOUNCE_1..PCB_ANNOUNCE_3 - 1
               /\ Resend(p, q, pcb[q].state + 1)
        BY <1>2, <2>1, ResendInv
    <2>2. CASE pcb[q].state = PCB_PROBE_3 /\ BecomesAnnouncement(p, q)
        BY <1>2, <2>2, BecomesAnnouncementInv
    <2>3. CASE /\ pcb[q].state = PCB_ANNOUNCE_3
               /\ packet' = Without({p})
               /\ pcb' = [pcb EXCEPT ![q].state = PCB_RUNNING]
               /\ UNCHANGED starved
        BY <1>2, <2>3, LastSentInv
    <2>4. CASE /\ pcb[q].state \in {PCB_RUNNING, PCB_OFF}
               /\ packet' = Without({p}) /\ UNCHANGED <<pcb, starved>>
        BY <1>2, <2>4, LastSentInv
    <2> QED BY <1>2, <2>1, <2>2, <2>3, <2>4 DEF ScheduleTx
<1> QED BY <1>1, <1>2 DEF SendPacket

-----------------------------------------------------------------------------
(* The rest of the type invariant: the queue, the action taken, the walk    *)
(* and the bounds.                                                          *)
QueuePart == /\ s_action_queue \in Seq(Actions) /\ Len(s_action_queue) <= MaxQueue
             /\ action \in Seq(Actions) /\ Len(action) <= 1
             /\ walk \subseteq Packet
             /\ events \in 0..MaxEvents
             /\ refused \in BOOLEAN

LEMMA TypeInParts == TypeOK <=> TypePart /\ QueuePart
    BY DEF TypeOK, TypePart, QueuePart

LEMMA NextTypeInParts == ASSUME TypePart', QueuePart' PROVE TypeOK'
    BY DEF TypeOK, TypePart, QueuePart

LEMMA Appended ==
    ASSUME QueuePart, NEW act \in Actions, mdns_priv_queue_action(act)
    PROVE  s_action_queue' \in Seq(Actions) /\ Len(s_action_queue') <= MaxQueue
    BY LimitsAssumption DEF QueuePart, mdns_priv_queue_action, HasRoom

LEMMA PostedInv ==
    ASSUME IInv, NEW q \in Pcb,
           NEW type \in {"QUESTION", "CONFLICT", "ENABLE", "DISABLE", "ANNOUNCE"}, Posted(q, type)
    PROVE  IInv'
<1>1. TypePart /\ QueuePart
    BY TypeInParts DEF IInv
<1>2. [type |-> type, pcb |-> q] \in Actions
    BY DEF Actions
<1>3. s_action_queue' \in Seq(Actions) /\ Len(s_action_queue') <= MaxQueue
    BY <1>1, <1>2, Appended DEF Posted
<1>4. QueuePart'
    BY <1>1, <1>3, LimitsAssumption DEF QueuePart, Posted
<1>5. TypePart'
    BY <1>1 DEF TypePart, Posted
<1>6. PInv'
    BY NothingChanged DEF IInv, Posted
<1> QED BY <1>4, <1>5, <1>6, NextTypeInParts DEF IInv

LEMMA HostnameAskedInv ==
    ASSUME IInv, mdns_hostname_set
    PROVE  IInv'
<1>1. TypePart /\ QueuePart
    BY TypeInParts DEF IInv
<1>2. NameAction \in Actions
    BY DEF Actions, NameAction
<1>3. s_action_queue' \in Seq(Actions) /\ Len(s_action_queue') <= MaxQueue
    BY <1>1, <1>2, Appended DEF mdns_hostname_set
<1>4. QueuePart'
    BY <1>1, <1>3 DEF QueuePart, mdns_hostname_set
<1>5. TypePart'
    BY <1>1 DEF TypePart, mdns_hostname_set
<1>6. PInv'
    BY NothingChanged DEF IInv, mdns_hostname_set
<1> QED BY <1>4, <1>5, <1>6, NextTypeInParts DEF IInv

(* A packet that only changes its place in the list or its mark.            *)
LEMMA TimePassesInv ==
    ASSUME IInv, NEW p \in Packet, TimePasses(p)
    PROVE  IInv'
<1>1. TypePart /\ QueuePart /\ packet[p] \in Packets
    BY TypeInParts DEF IInv, TypePart
<1>2. packet'[p] = [packet[p] EXCEPT !.due = TRUE, !.ahead = {r \in Packet : packet[r].due}]
    BY <1>1 DEF TypePart, TimePasses
<1>3. packet'[p] = [pcb |-> packet[p].pcb, kind |-> packet[p].kind, queued |-> packet[p].queued,
                    due |-> TRUE, ahead |-> {r \in Packet : packet[r].due}]
    BY <1>1, <1>2 DEF Packets
<1>4. packet'[p] \in Packets /\ packet'[p].pcb = packet[p].pcb /\ packet'[p].kind = packet[p].kind
    BY <1>1, <1>3 DEF Packets
<1>5. \A r \in Packet \ {p} : packet'[r] = packet[r]
    BY <1>1 DEF TypePart, TimePasses
<1>6. TypePart'
    BY <1>1, <1>4, <1>5 DEF TypePart, TimePasses
<1>7. QueuePart'
    BY <1>1 DEF QueuePart, TimePasses
<1>8. PInv'
    BY <1>4, <1>5, NothingChanged DEF IInv, TimePasses
<1> QED BY <1>6, <1>7, <1>8, NextTypeInParts DEF IInv

LEMMA TimerPushesInv ==
    ASSUME IInv, NEW p \in Packet, TimerPushes(p)
    PROVE  IInv'
<1>1. TypePart /\ QueuePart /\ packet[p] \in Packets
    BY TypeInParts DEF IInv, TypePart
<1>2. PICK mark \in BOOLEAN : packet' = [packet EXCEPT ![p].queued = mark]
    BY DEF TimerPushes
<1>3. packet'[p] = [packet[p] EXCEPT !.queued = mark]
    BY <1>1, <1>2 DEF TypePart
<1>4. packet'[p] \in Packets /\ packet'[p].pcb = packet[p].pcb /\ packet'[p].kind = packet[p].kind
    BY <1>1, <1>3 DEF Packets
<1>5. \A r \in Packet \ {p} : packet'[r] = packet[r]
    BY <1>1, <1>2 DEF TypePart
<1>6. TypePart'
    BY <1>1, <1>2, <1>4, <1>5 DEF TypePart, TimerPushes
<1>7. QueuePart'
    <2>1. [type |-> "TX", packet |-> p] \in Actions
        BY DEF Actions
    <2>2. s_action_queue' \in Seq(Actions) /\ Len(s_action_queue') <= MaxQueue
        BY <1>1, <2>1, Appended DEF TimerPushes, QueuePart
    <2> QED BY <1>1, <2>2 DEF QueuePart, TimerPushes
<1>8. PInv'
    BY <1>4, <1>5, NothingChanged DEF IInv, TimerPushes
<1> QED BY <1>6, <1>7, <1>8, NextTypeInParts DEF IInv

LEMMA TimerStartsInv ==
    ASSUME IInv, TimerStarts
    PROVE  IInv'
<1>1. TypePart /\ QueuePart
    BY TypeInParts DEF IInv
<1>2. TypePart' /\ QueuePart'
    BY <1>1 DEF TypePart, QueuePart, TimerStarts, FromFirstUnqueued
<1>3. PInv'
    BY NothingChanged DEF IInv, TimerStarts
<1> QED BY <1>2, <1>3, NextTypeInParts DEF IInv

LEMMA ServiceTakesInv ==
    ASSUME IInv, ServiceTakes
    PROVE  IInv'
<1>1. TypePart /\ QueuePart
    BY TypeInParts DEF IInv
<1>2. QueuePart'
    BY <1>1, LimitsAssumption DEF QueuePart, ServiceTakes
<1>3. TypePart'
    BY <1>1 DEF TypePart, ServiceTakes
<1>4. PInv'
    BY NothingChanged DEF IInv, ServiceTakes
<1> QED BY <1>2, <1>3, <1>4, NextTypeInParts DEF IInv

LEMMA ExecutesInv ==
    ASSUME IInv, Executes
    PROVE  IInv'
<1>1. TypePart /\ QueuePart
    BY TypeInParts DEF IInv
<1>2. PICK type \in {"HOSTNAME_SET", "ENABLE", "DISABLE", "ANNOUNCE", "QUESTION", "CONFLICT", "TX"} :
          Execute(type)
    BY DEF Executes
<1>3. QueuePart'
    BY <1>1, <1>2 DEF QueuePart, Execute
<1>4. action[1] \in Actions
    <2>1. action # <<>> /\ action \in Seq(Actions)
        BY <1>1, <1>2 DEF QueuePart, Execute
    <2> QED BY <2>1
<1>5. action[1].type \in {"ENABLE", "DISABLE", "ANNOUNCE", "QUESTION", "CONFLICT"} => action[1].pcb \in Pcb
    BY <1>4 DEF Actions
<1>6. action[1].type = "TX" => action[1].packet \in Packet
    BY <1>4 DEF Actions
<1>7. TypePart' /\ PInv'
    <2>1. CASE HostnameSet
        <3>1. hostname' \in BOOLEAN /\ mdns_priv_restart_all_pcbs
            BY <2>1 DEF HostnameSet
        <3> QED BY <1>1, <3>1, RestartInv, RestartType
    <2>2. CASE Execute("ENABLE") /\ mdns_priv_pcb_enable(action[1].pcb)
        BY <1>5, <2>2, EnableInv DEF Execute
    <2>3. CASE Execute("DISABLE") /\ mdns_priv_pcb_disable(action[1].pcb)
        BY <1>5, <2>3, DisableInv DEF Execute
    <2>4. CASE Execute("ANNOUNCE") /\ mdns_priv_pcb_announce(action[1].pcb)
        BY <1>5, <2>4, AnnounceInv DEF Execute
    <2>5. CASE Execute("QUESTION") /\ Question(action[1].pcb)
        BY <1>5, <2>5, QuestionInv DEF Execute
    <2>6. CASE Execute("CONFLICT") /\ Conflict(action[1].pcb)
        BY <1>5, <2>6, ConflictInv DEF Execute
    <2>7. CASE Execute("TX") /\ SendPacket(action[1].packet)
        BY <1>6, <2>7, SendPacketInv DEF Execute
    <2> QED BY <2>1, <2>2, <2>3, <2>4, <2>5, <2>6, <2>7 DEF Executes
<1> QED BY <1>3, <1>7, NextTypeInParts DEF IInv

-----------------------------------------------------------------------------
LEMMA InitIInv == Init => IInv
<1> SUFFICES ASSUME Init PROVE IInv
    OBVIOUS
<1>. USE DEF PCB_OFF, PCB_PROBE_1, PCB_PROBE_3, PCB_RUNNING
<1>1. pcb \in [Pcb -> Pcbs]
    <2>1. [ready |-> FALSE, state |-> PCB_OFF, running |-> FALSE] \in Pcbs
        BY DEF Pcbs
    <2>2. [ready |-> TRUE, state |-> PCB_RUNNING, running |-> FALSE] \in Pcbs
        BY DEF Pcbs
    <2> QED BY <2>1, <2>2 DEF Init
<1>2. Freed \in Packets
    BY DEF Freed, Allocated, Packets
<1>3. TypePart
    <2>1. packet \in [Packet -> Packets]
        BY <1>2 DEF Init
    <2>2. probes \in [Pcb -> 0..3]
        BY DEF Init
    <2>3. hostname \in BOOLEAN /\ starved \subseteq Pcb
        BY DEF Init
    <2> QED BY <1>1, <2>1, <2>2, <2>3 DEF TypePart
<1>5. QueuePart
    <2>1. s_action_queue = <<>> /\ action = <<>>
        BY DEF Init
    <2>2. s_action_queue \in Seq(Actions) /\ Len(s_action_queue) <= MaxQueue
        BY <2>1, LimitsAssumption
    <2>3. action \in Seq(Actions) /\ Len(action) <= 1
        BY <2>1
    <2>4. walk = {} /\ events = 0
        BY DEF Init
    <2>5. refused \in BOOLEAN
        BY Zenon DEF Init
    <2>6. events \in 0..MaxEvents
        BY <2>4, LimitsAssumption
    <2> QED BY <2>2, <2>3, <2>4, <2>5, <2>6 DEF QueuePart
<1>4. ASSUME NEW q \in Pcb PROVE HoldsFor(q)
    <2>1. ~(pcb[q].state \in PCB_PROBE_1..PCB_PROBE_3) /\ hostname = FALSE
        BY DEF Init
    <2> QED BY <2>1 DEF HoldsFor, Probing
<1> QED BY <1>3, <1>4, <1>5, PInvIsOfEach, TypeInParts DEF IInv

LEMMA NextIInv == IInv /\ [Next]_vars => IInv'
<1> SUFFICES ASSUME IInv, [Next]_vars PROVE IInv'
    OBVIOUS
<1>1. ASSUME NEW q \in Pcb, NEW type \in {"QUESTION", "CONFLICT"}, PacketArrives(q, type) PROVE IInv'
    BY <1>1, PostedInv DEF PacketArrives
<1>2. ASSUME NEW q \in Pcb, NEW type \in {"ENABLE", "DISABLE", "ANNOUNCE"}, post_custom_action(q, type)
      PROVE  IInv'
    BY <1>2, PostedInv DEF post_custom_action
<1>3. CASE mdns_hostname_set
    BY <1>3, HostnameAskedInv
<1>4. ASSUME NEW p \in Packet, TimePasses(p) PROVE IInv'
    BY <1>4, TimePassesInv
<1>5. ASSUME NEW p \in Packet, TimerPushes(p) PROVE IInv'
    BY <1>5, TimerPushesInv
<1>6. CASE TimerStarts
    BY <1>6, TimerStartsInv
<1>7. CASE ServiceTakes
    BY <1>7, ServiceTakesInv
<1>8. CASE Executes
    BY <1>8, ExecutesInv
<1>9. CASE UNCHANGED vars
    <2>1. TypePart /\ QueuePart
        BY TypeInParts DEF IInv
    <2>2. TypePart' /\ QueuePart'
        BY <1>9, <2>1 DEF vars, TypePart, QueuePart
    <2>3. PInv'
        BY <1>9, NothingChanged DEF vars, IInv
    <2> QED BY <2>2, <2>3, NextTypeInParts DEF IInv
<1> QED BY <1>1, <1>2, <1>3, <1>4, <1>5, <1>6, <1>7, <1>8, <1>9 DEF Next

(* The invariant holds throughout.                                          *)
THEOREM Invariance == Spec => []IInv
<1>1. Init => IInv
    BY InitIInv
<1>2. IInv /\ [Next]_vars => IInv'
    BY NextIInv
<1> QED BY <1>1, <1>2, PTL DEF Spec

(* The variables keep their types: no record has another shape, and the     *)
(* queue never holds more than it has room for.                             *)
THEOREM TypeCorrect == Spec => []TypeOK
<1>1. IInv => TypeOK
    BY DEF IInv
<1> QED BY <1>1, Invariance, PTL

(* A ready pcb with memory announces the name, and answers for it, only     *)
(* after three probes since it last began to probe.                         *)
THEOREM ProbesFirst == Spec => []ProbedBeforeAnnouncing
<1>1. IInv => ProbedBeforeAnnouncing
    BY DEF IInv, PInv
<1> QED BY <1>1, Invariance, PTL

(* A ready pcb with memory that probes has exactly one packet scheduled,    *)
(* its probe.                                                               *)
THEOREM ProbingGoesOn == Spec => []ProbingHasItsPacket
<1>1. IInv => ProbingHasItsPacket
    <2> SUFFICES ASSUME IInv, NEW q \in Pcb \ starved, pcb[q].ready, Probing(q)
                 PROVE  \E p \in Packet : Of(q) = {p} /\ packet[p].kind = "probe"
        BY DEF ProbingHasItsPacket
    <2>1. PICK p \in Packet : packet[p].pcb = q
        BY DEF IInv, PInv, AtLeastOne
    <2>2. packet[p].kind = "probe"
        BY <2>1 DEF IInv, PInv, OnlyProbes
    <2>3. Of(q) = {p}
        BY <2>1 DEF IInv, PInv, AtMostOne, Of
    <2> QED BY <2>2, <2>3
<1> QED BY <1>1, Invariance, PTL

-----------------------------------------------------------------------------
(* A packet marked as pushed has an action pending that will send it.  The  *)
(* action that is pending when the mark is set may be an old one, of a      *)
(* packet that was at the same address; it is enough that behind every      *)
(* action for what is ahead of the packet there is one for the packet.      *)

TX(p) == [type |-> "TX", packet |-> p]
Line == action \o s_action_queue

Waits(line, p) == \E i \in 1..Len(line) : line[i] = TX(p)
Behind(line, p, r) == \A i \in 1..Len(line) :
                          line[i] = TX(r) => \E j \in 1..Len(line) : j > i /\ line[j] = TX(p)

MarkedAreDue ==
    \A p \in Packet :
        /\ packet[p].due => packet[p].pcb # NoPcb /\ \A r \in packet[p].ahead : packet[r].due
        /\ packet[p].queued => packet[p].due
        /\ p \in walk => packet[p].due

(* The marked packets come before the others, with their actions in order.  *)
PushedInOrder ==
    \A p \in Packet : packet[p].queued =>
        /\ Waits(Line, p)
        /\ \A r \in packet[p].ahead : packet[r].queued /\ Behind(Line, p, r)

(* The walk has still to push what is due and not marked, and nothing else. *)
WalkTakesTheRest ==
    walk # {} => \A p \in Packet : packet[p].due => (p \in walk <=> ~packet[p].queued)

PushInv == /\ MarkedAreDue
           /\ ~refused => PushedInOrder /\ WalkTakesTheRest

(* An action for p is put at the end of the line.                           *)
LEMMA LineGrows ==
    ASSUME NEW line \in Seq(Actions), NEW act \in Actions
    PROVE  /\ \A p \in Packet : Waits(line, p) => Waits(Append(line, act), p)
           /\ \A p, r \in Packet : act # TX(r) /\ Behind(line, p, r) => Behind(Append(line, act), p, r)
           /\ \A p \in Packet : act = TX(p) => Waits(Append(line, act), p)
           /\ \A p, r \in Packet : act = TX(p) /\ r # p => Behind(Append(line, act), p, r)
<1> DEFINE more == Append(line, act)
           n == Len(line)
<1>1. /\ n \in Nat /\ Len(more) = n + 1
      /\ \A i \in 1..n : more[i] = line[i]
      /\ more[n + 1] = act
    OBVIOUS
<1> HIDE DEF more, n
<1>2. ASSUME NEW p \in Packet, Waits(line, p) PROVE Waits(more, p)
    BY <1>1, <1>2 DEF Waits, n
<1>3. ASSUME NEW p \in Packet, NEW r \in Packet, act # TX(r), Behind(line, p, r) PROVE Behind(more, p, r)
    <2>1. ASSUME NEW i \in 1..n + 1, more[i] = TX(r)
          PROVE  \E j \in 1..n + 1 : j > i /\ more[j] = TX(p)
        <3>1. i \in 1..n /\ line[i] = TX(r)
            BY <1>1, <1>3, <2>1
        <3>2. PICK j \in 1..n : j > i /\ line[j] = TX(p)
            BY <1>3, <3>1 DEF Behind, n
        <3>3. j \in 1..n + 1 /\ more[j] = TX(p)
            BY <1>1, <3>2
        <3> QED BY <3>2, <3>3
    <2> QED BY <1>1, <2>1 DEF Behind
<1>4. ASSUME NEW p \in Packet, act = TX(p) PROVE Waits(more, p)
    <2>1. n + 1 \in 1..Len(more)
        BY <1>1
    <2> QED BY <1>1, <1>4, <2>1 DEF Waits
<1>5. ASSUME NEW p \in Packet, NEW r \in Packet, act = TX(p), r # p PROVE Behind(more, p, r)
    <2>1. TX(p) # TX(r)
        BY <1>5 DEF TX
    <2>2. ASSUME NEW i \in 1..n + 1, more[i] = TX(r)
          PROVE  \E j \in 1..n + 1 : j > i /\ more[j] = TX(p)
        <3>1. n + 1 \in 1..n + 1 /\ n + 1 > i
            BY <1>1, <1>5, <2>1, <2>2
        <3> QED BY <1>1, <1>5, <3>1
    <2> QED BY <1>1, <2>2 DEF Behind
<1> QED BY <1>2, <1>3, <1>4, <1>5 DEF more

(* The first of the line goes.                                              *)
LEMMA LineMoves ==
    ASSUME NEW line \in Seq(Actions), line # <<>>
    PROVE  /\ \A p \in Packet : Head(line) # TX(p) /\ Waits(line, p) => Waits(Tail(line), p)
           /\ \A p, r \in Packet : Behind(line, p, r) => Behind(Tail(line), p, r)
           /\ \A p, r \in Packet : Waits(line, r) /\ Behind(line, p, r) => Waits(Tail(line), p)
<1> DEFINE rest == Tail(line)
           n == Len(line)
<1>1. /\ n \in Nat \ {0} /\ Len(rest) = n - 1 /\ Head(line) = line[1]
      /\ \A i \in 1..n - 1 : rest[i] = line[i + 1]
    OBVIOUS
<1> HIDE DEF rest, n
<1>2. ASSUME NEW p \in Packet, NEW j \in 2..n, line[j] = TX(p)
      PROVE  j - 1 \in 1..n - 1 /\ rest[j - 1] = TX(p)
    <2>1. j - 1 \in 1..n - 1 /\ (j - 1) + 1 = j
        BY <1>1
    <2> QED BY <1>1, <1>2, <2>1
<1>3. ASSUME NEW p \in Packet, Head(line) # TX(p), Waits(line, p) PROVE Waits(rest, p)
    <2>1. PICK j \in 1..n : line[j] = TX(p)
        BY <1>3 DEF Waits, n
    <2>2. j \in 2..n
        BY <1>1, <1>3, <2>1
    <2> QED BY <1>1, <1>2, <2>1, <2>2 DEF Waits
<1>4. ASSUME NEW p \in Packet, NEW r \in Packet, Behind(line, p, r) PROVE Behind(rest, p, r)
    <2>1. ASSUME NEW i \in 1..n - 1, rest[i] = TX(r)
          PROVE  \E j \in 1..n - 1 : j > i /\ rest[j] = TX(p)
        <3>1. i + 1 \in 1..n /\ line[i + 1] = TX(r)
            BY <1>1, <2>1
        <3>2. PICK j \in 1..n : j > i + 1 /\ line[j] = TX(p)
            BY <1>4, <3>1 DEF Behind, n
        <3>3. j \in 2..n /\ j - 1 > i
            BY <1>1, <3>2
        <3> QED BY <1>2, <3>2, <3>3
    <2> QED BY <1>1, <2>1 DEF Behind
<1>5. ASSUME NEW p \in Packet, NEW r \in Packet, Waits(line, r), Behind(line, p, r) PROVE Waits(rest, p)
    <2>1. PICK i \in 1..n : line[i] = TX(r)
        BY <1>5 DEF Waits, n
    <2>2. PICK j \in 1..n : j > i /\ line[j] = TX(p)
        BY <1>5, <2>1 DEF Behind, n
    <2>3. j \in 2..n
        BY <1>1, <2>2
    <2> QED BY <1>1, <1>2, <2>2, <2>3 DEF Waits
<1> QED BY <1>3, <1>4, <1>5 DEF rest

(* The line when an action is queued, taken or executed.                    *)
LEMMA LineIsTyped == ASSUME TypeOK PROVE Line \in Seq(Actions)
    BY DEF TypeOK, Line

LEMMA LineQueued ==
    ASSUME TypeOK, NEW act \in Actions, UNCHANGED action, s_action_queue' = Append(s_action_queue, act)
    PROVE  Line' = Append(Line, act)
<1>1. PICK a \in Seq(Actions), s \in Seq(Actions) : a = action /\ s = s_action_queue
    BY DEF TypeOK
<1>2. a \o Append(s, act) = Append(a \o s, act)
    OBVIOUS
<1> QED BY <1>1, <1>2 DEF Line

LEMMA LineTaken ==
    ASSUME TypeOK, ServiceTakes
    PROVE  Line' = Line
<1>1. PICK s \in Seq(Actions) : s = s_action_queue
    BY DEF TypeOK
<1>2. s # <<>> => <<Head(s)>> \o Tail(s) = <<>> \o s
    OBVIOUS
<1> QED BY <1>1, <1>2 DEF Line, ServiceTakes

LEMMA LineExecuted ==
    ASSUME TypeOK, NEW type, Execute(type)
    PROVE  Line # <<>> /\ Head(Line) = action[1] /\ Line' = Tail(Line)
<1>1. PICK a \in Seq(Actions), s \in Seq(Actions) : a = action /\ s = s_action_queue
    BY DEF TypeOK
<1>2. Len(a) = 1
    <2>1. a # <<>> /\ a \in Seq(Actions)
        BY <1>1 DEF Execute
    <2>2. PICK n \in Nat \ {0} : n = Len(a)
        BY <2>1, EmptySeq
    <2>3. n <= 1
        BY <1>1, <2>2 DEF TypeOK
    <2>4. n = 1
        BY <2>3
    <2> QED BY <2>2, <2>4
<1>3. a \o s # <<>> /\ Head(a \o s) = a[1]
    BY <1>2
<1>4. Tail(a \o s) = s
    <2>1. /\ a \o s \in Seq(Actions) /\ a \o s # <<>>
          /\ Len(s) \in Nat /\ Len(a \o s) = Len(s) + 1
        <3>1. Len(s) \in Nat
            BY ONLY s \in Seq(Actions)
        <3>2. a \o s \in Seq(Actions) /\ Len(a \o s) = Len(a) + Len(s)
            BY ConcatProperties
        <3> QED BY ONLY <1>2, <1>3, <3>1, <3>2
    <2>2. Tail(a \o s) \in Seq(Actions) /\ Len(Tail(a \o s)) = Len(s)
        BY <2>1
    <2>3. ASSUME NEW i \in 1..Len(s) PROVE Tail(a \o s)[i] = s[i]
        <3>1. Tail(a \o s)[i] = (a \o s)[i + 1]
            BY <2>1
        <3>2. (a \o s)[i + 1] = s[i]
            BY <1>2, <2>1
        <3> QED BY <3>1, <3>2
    <2> QED BY <1>1, <2>2, <2>3, SeqEqual
<1>5. <<>> \o s = s
    BY <1>1, ConcatEmptySeq
<1> QED BY <1>1, <1>3, <1>4, <1>5 DEF Line, Execute

-----------------------------------------------------------------------------
(* What the service task does to the list: the packets of D go, some that   *)
(* are not marked come, at free addresses or at those of D, and of the      *)
(* others none is moved.                                                    *)
Cleared(D) ==
    \A p \in Packet :
        \/ /\ ~packet'[p].due /\ ~packet'[p].queued
           /\ p \in D \/ packet[p].pcb = NoPcb
        \/ /\ p \notin D
           /\ packet'[p].pcb = packet[p].pcb
           /\ packet'[p].due = packet[p].due /\ packet'[p].queued = packet[p].queued
           /\ packet'[p].ahead \subseteq packet[p].ahead \ D

LEMMA WithoutIsCleared ==
    ASSUME TypeOK, NEW D \in SUBSET Packet, NEW p \in Packet
    PROVE  /\ p \in D => ~Without(D)[p].due /\ ~Without(D)[p].queued
           /\ p \notin D => /\ Without(D)[p].pcb = packet[p].pcb
                            /\ Without(D)[p].due = packet[p].due
                            /\ Without(D)[p].queued = packet[p].queued
                            /\ Without(D)[p].ahead = packet[p].ahead \ D
<1>1. packet[p] \in Packets
    BY DEF TypeOK
<1>2. CASE p \in D
    BY <1>2 DEF Without, Freed, Allocated
<1>3. CASE p \notin D
    <2>1. Without(D)[p] = [packet[p] EXCEPT !.ahead = packet[p].ahead \ D]
        BY <1>3 DEF Without
    <2> QED BY <1>1, <1>3, <2>1 DEF Packets
<1> QED BY <1>2, <1>3

LEMMA WithoutClears ==
    ASSUME TypeOK, NEW D \in SUBSET Packet, packet' = Without(D)
    PROVE  Cleared(D)
    BY WithoutIsCleared DEF Cleared

LEMMA NothingClears == ASSUME UNCHANGED packet PROVE Cleared({})
    BY DEF Cleared

LEMMA ProbeClears ==
    ASSUME TypeOK, NEW Q, NEW D \in SUBSET Packet, NEW before, Probe(Q, D, before)
    PROVE  Cleared(D)
<1>1. PICK N \in SUBSET (Free \cup D) : \E new \in [N -> Q] : ProbeAt(N, new, Q, D, before)
    BY DEF Probe
<1>2. PICK new \in [N -> Q] : ProbeAt(N, new, Q, D, before)
    BY <1>1
<1>3. ASSUME NEW p \in N PROVE ~packet'[p].due /\ ~packet'[p].queued /\ (p \in D \/ packet[p].pcb = NoPcb)
    BY <1>2 DEF ProbeAt, Allocated, Free
<1>4. \A p \in Packet \ N : packet'[p] = Without(D)[p]
    BY <1>2 DEF ProbeAt
<1> QED BY <1>3, <1>4, WithoutIsCleared DEF Cleared

LEMMA InitProbeClears ==
    ASSUME TypeOK, NEW q, NEW before, mdns_priv_init_pcb_probe(q, before)
    PROVE  Cleared(Of(q))
<1>1. Of(q) \in SUBSET Packet
    BY DEF Of
<1> QED BY <1>1, ProbeClears, WithoutClears DEF mdns_priv_init_pcb_probe, RunNameless

LEMMA RestartClears ==
    ASSUME TypeOK, mdns_priv_restart_all_pcbs
    PROVE  Cleared(Packet \ Free)
    BY ProbeClears DEF mdns_priv_restart_all_pcbs

(* A packet that comes at a free address.                                   *)
LEMMA ScheduledClears ==
    ASSUME TypeOK, NEW p \in Free, NEW q, NEW kind, packet' = Scheduled(packet, p, q, kind)
    PROVE  Cleared({})
<1>1. packet \in [Packet -> Packets]
    BY DEF TypeOK
<1>2. p \in Packet /\ packet[p].pcb = NoPcb
    BY DEF Free
<1>3. ~packet'[p].due /\ ~packet'[p].queued /\ \A r \in Packet \ {p} : packet'[r] = packet[r]
    BY <1>1, <1>2 DEF Scheduled, Allocated
<1> QED BY <1>2, <1>3 DEF Cleared

(* A packet that is sent, and one that comes in its place or elsewhere.     *)
LEMMA SentClears ==
    ASSUME TypeOK, NEW p \in Packet, NEW a \in Free \cup {p}, NEW q, NEW kind,
           packet' = Scheduled(Without({p}), a, q, kind)
    PROVE  Cleared({p})
<1>1. a \in Packet /\ (a = p \/ packet[a].pcb = NoPcb)
    BY DEF Free
<1>2. PICK W : W = Without({p})
    OBVIOUS
<1>3. W \in [Packet -> Packets]
    BY <1>2, WithoutFacts DEF TypeOK
<1>4. ~packet'[a].due /\ ~packet'[a].queued /\ \A r \in Packet \ {a} : packet'[r] = W[r]
    BY <1>1, <1>2, <1>3 DEF Scheduled, Allocated
<1>5. ASSUME NEW r \in Packet
      PROVE  /\ r = p => ~W[r].due /\ ~W[r].queued
             /\ r # p => /\ W[r].pcb = packet[r].pcb /\ W[r].due = packet[r].due
                         /\ W[r].queued = packet[r].queued /\ W[r].ahead = packet[r].ahead \ {p}
    BY <1>2, WithoutIsCleared
<1>6. ASSUME NEW r \in Packet
      PROVE  \/ /\ ~packet'[r].due /\ ~packet'[r].queued
                /\ r = p \/ packet[r].pcb = NoPcb
             \/ /\ r # p
                /\ packet'[r].pcb = packet[r].pcb
                /\ packet'[r].due = packet[r].due /\ packet'[r].queued = packet[r].queued
                /\ packet'[r].ahead = packet[r].ahead \ {p}
    <2>1. CASE r = a
        BY <1>1, <1>4, <2>1
    <2>2. CASE r # a
        <3>1. packet'[r] = W[r]
            BY <1>4, <2>2
        <3> QED BY <1>5, <3>1
    <2> QED BY <2>1, <2>2
<1> QED BY <1>6 DEF Cleared

LEMMA SendClears ==
    ASSUME TypeOK, NEW p \in Packet, SendPacket(p)
    PROVE  Cleared({p}) \/ (~AtHead(p) /\ Cleared({}))
<1>1. CASE AtHead(p) /\ \E q \in Pcb : ScheduleTx(p, q)
    <2>1. PICK q \in Pcb : ScheduleTx(p, q)
        BY <1>1
    <2>2. CASE packet' = Without({p})
        BY <2>2, WithoutClears
    <2>3. CASE \E a \in Free \cup {p}, kind \in {"announce", packet[p].kind} :
                   packet' = Scheduled(Without({p}), a, q, kind)
        BY <2>3, SentClears
    <2> QED BY <2>1, <2>2, <2>3 DEF ScheduleTx, Resend, BecomesAnnouncement
<1>2. CASE ~AtHead(p) /\ NoChange
    BY <1>2, NothingClears DEF NoChange
<1> QED BY <1>1, <1>2 DEF SendPacket

(* Every other action of the service task clears packets and adds some.     *)
LEMMA OthersClear ==
    ASSUME TypeOK, NEW q,
           \/ HostnameSet \/ mdns_priv_pcb_enable(q) \/ mdns_priv_pcb_disable(q)
           \/ mdns_priv_pcb_announce(q) \/ Question(q) \/ Conflict(q)
    PROVE  \E D \in SUBSET Packet : Cleared(D)
<1>1. CASE UNCHANGED packet
    BY <1>1, NothingClears
<1>2. CASE \E before : mdns_priv_init_pcb_probe(q, before)
    <2>1. Of(q) \in SUBSET Packet
        BY DEF Of
    <2> QED BY <1>2, <2>1, InitProbeClears
<1>3. CASE mdns_priv_restart_all_pcbs
    <2>1. Packet \ Free \in SUBSET Packet
        OBVIOUS
    <2> QED BY <1>3, <2>1, RestartClears
<1>4. CASE packet' = Without(Of(q))
    <2>1. Of(q) \in SUBSET Packet
        BY DEF Of
    <2> QED BY <1>4, <2>1, WithoutClears
<1>5. CASE \E p \in Free, kind \in {"announce", "response"} : packet' = Scheduled(packet, p, q, kind)
    BY <1>5, ScheduledClears
<1>6. CASE HostnameSet
    BY <1>3, <1>6 DEF HostnameSet
<1>7. CASE mdns_priv_pcb_enable(q)
    BY <1>1, <1>2, <1>7 DEF mdns_priv_pcb_enable, NoChange
<1>8. CASE mdns_priv_pcb_disable(q)
    BY <1>1, <1>4, <1>8 DEF mdns_priv_pcb_disable
<1>9. CASE mdns_priv_pcb_announce(q)
    BY <1>1, <1>2, <1>5, <1>9 DEF mdns_priv_pcb_announce, AnnounceAnew, NoChange
<1>10. CASE Question(q)
    BY <1>1, <1>5, <1>10 DEF Question, NoChange
<1>11. CASE Conflict(q)
    BY <1>1, <1>2, <1>3, <1>11 DEF Conflict, NoChange
<1> QED BY <1>6, <1>7, <1>8, <1>9, <1>10, <1>11

(* The marks stay in order when packets go, provided that every packet that *)
(* is still marked has an action left.                                      *)
LEMMA ClearedKeepsOrder ==
    ASSUME TypeOK, PushInv, NEW D \in SUBSET Packet, Cleared(D), walk' = {}, UNCHANGED refused,
           Line # <<>>, Line' = Tail(Line),
           \A p \in Packet : ~refused /\ packet[p].queued /\ packet'[p].queued => Waits(Tail(Line), p)
    PROVE  PushInv'
<1>1. MarkedAreDue'
    <2>1. ASSUME NEW p \in Packet, packet'[p].due
          PROVE  packet'[p].pcb # NoPcb /\ \A r \in packet'[p].ahead : packet'[r].due
        <3>1. /\ packet[p].due /\ packet'[p].pcb = packet[p].pcb
              /\ packet'[p].ahead \subseteq packet[p].ahead \ D
            BY <2>1 DEF Cleared
        <3>2. packet[p].pcb # NoPcb
            BY <3>1 DEF PushInv, MarkedAreDue
        <3>3. ASSUME NEW r \in packet'[p].ahead PROVE packet'[r].due
            <4>1. r \in Packet /\ r \notin D
                BY <3>1 DEF TypeOK, Packets
            <4>2. packet[r].due /\ packet[r].pcb # NoPcb
                BY <3>1, <4>1 DEF PushInv, MarkedAreDue
            <4> QED BY <4>1, <4>2 DEF Cleared
        <3> QED BY <3>1, <3>2, <3>3
    <2>2. \A p \in Packet : packet'[p].queued => packet'[p].due
        BY DEF PushInv, MarkedAreDue, Cleared
    <2> QED BY <2>1, <2>2 DEF MarkedAreDue
<1>2. ASSUME ~refused, NEW p \in Packet, packet'[p].queued
      PROVE  /\ Waits(Line', p)
             /\ \A r \in packet'[p].ahead : packet'[r].queued /\ Behind(Line', p, r)
    <2>1. packet[p].queued /\ packet'[p].ahead \subseteq packet[p].ahead \ D
        BY <1>2 DEF Cleared
    <2>2. Waits(Line', p)
        BY <1>2, <2>1
    <2>3. ASSUME NEW r \in packet'[p].ahead PROVE packet'[r].queued /\ Behind(Line', p, r)
        <3>1. r \in packet[p].ahead /\ r \notin D /\ r \in Packet
            BY <2>1 DEF TypeOK, Packets
        <3>2. packet[r].queued /\ Behind(Line, p, r)
            BY <1>2, <2>1, <3>1 DEF PushInv, PushedInOrder
        <3>3. packet[r].pcb # NoPcb
            BY <3>1, <3>2 DEF PushInv, MarkedAreDue
        <3>4. packet'[r].queued
            BY <3>1, <3>2, <3>3 DEF Cleared
        <3>5. Behind(Tail(Line), p, r)
            BY <3>1, <3>2, LineIsTyped, LineMoves
        <3> QED BY <3>4, <3>5
    <2> QED BY <2>2, <2>3
<1>3. ~refused' => PushedInOrder'
    BY <1>2 DEF PushedInOrder
<1> QED BY <1>1, <1>3 DEF PushInv, WalkTakesTheRest

LEMMA ExecutesKeepsOrder ==
    ASSUME TypeOK, PushInv, Executes
    PROVE  PushInv'
<1>1. PICK type : Execute(type)
    BY DEF Executes
<1>2. Line # <<>> /\ Head(Line) = action[1] /\ Line' = Tail(Line) /\ Line \in Seq(Actions)
    BY <1>1, LineExecuted, LineIsTyped
<1>3. walk' = {} /\ refused' = refused
    BY <1>1 DEF Execute, LockFree
<1>4. action[1] \in Actions
    BY <1>1 DEF Execute, TypeOK
<1>5. CASE Execute("TX") /\ SendPacket(action[1].packet)
    <2>1. PICK s \in Packet : action[1] = TX(s)
        BY <1>4, <1>5 DEF Execute, Actions, TX
    <2>2. PICK D \in SUBSET Packet : Cleared(D) /\ (s \in D \/ ~AtHead(s))
        <3>1. action[1].packet = s
            BY <2>1 DEF TX
        <3>2. Cleared({s}) \/ (~AtHead(s) /\ Cleared({}))
            BY <1>5, <3>1, SendClears
        <3>3. {s} \in SUBSET Packet /\ {} \in SUBSET Packet
            OBVIOUS
        <3> QED BY <3>2, <3>3
    <2>3. ASSUME ~refused, NEW p \in Packet, packet[p].queued, packet'[p].queued PROVE Waits(Tail(Line), p)
        <3>1. Waits(Line, p) /\ \A r \in packet[p].ahead : packet[r].queued /\ Behind(Line, p, r)
            BY <2>3 DEF PushInv, PushedInOrder
        <3>2. CASE p # s
            <4>1. Head(Line) # TX(p)
                BY <1>2, <2>1, <3>2 DEF TX
            <4> QED BY <1>2, <3>1, <4>1, LineMoves
        <3>3. CASE p = s
            <4>1. ~AtHead(p)
                BY <2>2, <2>3, <3>3 DEF Cleared
            <4>2. PICK r \in packet[p].ahead : TRUE
                BY <2>3, <4>1 DEF AtHead, PushInv, MarkedAreDue
            <4>3. r \in Packet /\ packet[r].queued /\ Behind(Line, p, r)
                BY <3>1, <4>2 DEF TypeOK, Packets
            <4>4. Waits(Line, r)
                BY <2>3, <4>3 DEF PushInv, PushedInOrder
            <4> QED BY <1>2, <4>3, <4>4, LineMoves
        <3> QED BY <3>2, <3>3
    <2> QED BY <1>2, <1>3, <2>2, <2>3, ClearedKeepsOrder
<1>6. CASE action[1].type # "TX" /\ \E D \in SUBSET Packet : Cleared(D)
    <2>1. PICK D \in SUBSET Packet : Cleared(D)
        BY <1>6
    <2>2. \A p \in Packet : Head(Line) # TX(p)
        BY <1>2, <1>6 DEF TX
    <2>3. ASSUME ~refused, NEW p \in Packet, packet[p].queued PROVE Waits(Tail(Line), p)
        <3>1. Waits(Line, p)
            BY <2>3 DEF PushInv, PushedInOrder
        <3> QED BY <1>2, <2>2, <3>1, LineMoves
    <2> QED BY <1>2, <1>3, <2>1, <2>3, ClearedKeepsOrder
<1>7. \/ Execute("TX") /\ SendPacket(action[1].packet)
      \/ action[1].type # "TX" /\ \E D \in SUBSET Packet : Cleared(D)
    BY OthersClear DEF Executes, Execute
<1> QED BY <1>5, <1>6, <1>7

-----------------------------------------------------------------------------
(* The other actions, one lemma each                                        *)

(* An action that is not for a packet joins the line.                       *)
LEMMA EventKeepsOrder ==
    ASSUME TypeOK, PushInv, NEW act \in Actions, act.type # "TX",
           s_action_queue' = Append(s_action_queue, act), UNCHANGED <<action, packet, walk, refused>>
    PROVE  PushInv'
<1>1. Line' = Append(Line, act) /\ Line \in Seq(Actions)
    BY LineQueued, LineIsTyped
<1>2. \A r \in Packet : act # TX(r)
    BY DEF TX
<1>3. ASSUME PushedInOrder PROVE PushedInOrder'
    <2>1. ASSUME NEW p \in Packet, packet[p].queued
          PROVE  /\ Waits(Line', p)
                 /\ \A r \in packet[p].ahead : packet[r].queued /\ Behind(Line', p, r)
        <3>1. Waits(Line, p) /\ \A r \in packet[p].ahead : packet[r].queued /\ Behind(Line, p, r)
            BY <1>3, <2>1 DEF PushedInOrder
        <3>2. packet[p].ahead \subseteq Packet
            BY DEF TypeOK, Packets
        <3> QED BY <1>1, <1>2, <3>1, <3>2, LineGrows
    <2> QED BY <2>1 DEF PushedInOrder
<1> QED BY <1>3 DEF PushInv, MarkedAreDue, WalkTakesTheRest

LEMMA TimePassesKeepsOrder ==
    ASSUME TypeOK, PushInv, NEW p \in Packet, TimePasses(p)
    PROVE  PushInv'
<1>1. packet \in [Packet -> Packets] /\ packet[p] \in Packets
    BY DEF TypeOK
<1>2. /\ packet'[p].due /\ packet'[p].pcb = packet[p].pcb /\ packet'[p].queued = packet[p].queued
      /\ \A r \in Packet \ {p} : packet'[r] = packet[r]
    BY <1>1 DEF TimePasses, Packets
<1>3. ~packet[p].queued /\ packet[p].pcb # NoPcb /\ ~packet[p].due
    BY DEF TimePasses, PushInv, MarkedAreDue
<1>4. MarkedAreDue'
    <2>1. ASSUME NEW s \in Packet, packet'[s].due
          PROVE  packet'[s].pcb # NoPcb /\ \A r \in packet'[s].ahead : packet'[r].due
        <3>1. \A r \in Packet : packet[r].due => packet'[r].due
            BY <1>2
        <3>2. CASE s = p
            <4>1. packet'[p].ahead = {r \in Packet : packet[r].due}
                BY <1>1 DEF TimePasses, Packets
            <4> QED BY <1>2, <1>3, <3>1, <3>2, <4>1
        <3>3. CASE s # p
            <4>1. packet'[s] = packet[s] /\ packet[s].ahead \subseteq Packet
                BY <1>1, <1>2, <3>3 DEF Packets
            <4>2. packet[s].pcb # NoPcb /\ \A r \in packet[s].ahead : packet[r].due
                BY <2>1, <4>1 DEF PushInv, MarkedAreDue
            <4> QED BY <3>1, <4>1, <4>2
        <3> QED BY <3>2, <3>3
    <2>2. ASSUME NEW s \in Packet
          PROVE  (packet'[s].queued => packet'[s].due) /\ (s \in walk' => packet'[s].due)
        BY <1>2, <1>3 DEF PushInv, MarkedAreDue, TimePasses
    <2> QED BY <2>1, <2>2 DEF MarkedAreDue
<1>5. Line' = Line
    BY DEF Line, TimePasses
<1>6. ASSUME PushedInOrder PROVE PushedInOrder'
    <2>1. ASSUME NEW r \in Packet, packet'[r].queued
          PROVE  /\ Waits(Line, r)
                 /\ \A o \in packet'[r].ahead : packet'[o].queued /\ Behind(Line, r, o)
        <3>1. packet'[r] = packet[r] /\ packet[r].ahead \subseteq Packet
            BY <1>1, <1>2, <1>3, <2>1 DEF Packets
        <3>2. Waits(Line, r) /\ \A o \in packet[r].ahead : packet[o].queued /\ Behind(Line, r, o)
            BY <1>6, <2>1, <3>1 DEF PushedInOrder
        <3> QED BY <1>2, <3>1, <3>2
    <2> QED BY <1>5, <2>1 DEF PushedInOrder
<1>7. ASSUME WalkTakesTheRest PROVE WalkTakesTheRest'
    BY <1>2, <1>3, <1>7 DEF WalkTakesTheRest, TimePasses, LockFree
<1> QED BY <1>4, <1>6, <1>7 DEF PushInv, TimePasses

LEMMA TimerStartsKeepsOrder ==
    ASSUME TypeOK, PushInv, TimerStarts
    PROVE  PushInv'
<1>1. Line' = Line
    BY DEF Line, TimerStarts
<1>2. MarkedAreDue'
    BY DEF PushInv, MarkedAreDue, TimerStarts, FromFirstUnqueued
<1>3. PushedInOrder => PushedInOrder'
    BY <1>1 DEF PushedInOrder, TimerStarts
<1>4. PushedInOrder => WalkTakesTheRest'
    BY DEF PushedInOrder, WalkTakesTheRest, TimerStarts, FromFirstUnqueued
<1> QED BY <1>2, <1>3, <1>4 DEF PushInv, TimerStarts

LEMMA TimerPushesKeepsOrder ==
    ASSUME TypeOK, PushInv, NEW p \in Packet, TimerPushes(p)
    PROVE  PushInv'
<1>1. packet \in [Packet -> Packets] /\ packet[p] \in Packets
    BY DEF TypeOK
<1>2. PICK mark \in BOOLEAN : packet' = [packet EXCEPT ![p].queued = mark] /\ (mark \/ refused')
    BY DEF TimerPushes
<1>3. /\ packet'[p].queued = mark /\ packet'[p].pcb = packet[p].pcb
      /\ packet'[p].due = packet[p].due /\ packet'[p].ahead = packet[p].ahead
      /\ \A r \in Packet \ {p} : packet'[r] = packet[r]
    BY <1>1, <1>2 DEF Packets
<1>4. packet[p].due /\ p \in walk /\ walk' = walk \ {p} /\ packet[p].ahead \cap walk = {}
    BY DEF TimerPushes, PushInv, MarkedAreDue
<1>5. MarkedAreDue'
    <2>1. \A s \in Packet : /\ packet'[s].due = packet[s].due /\ packet'[s].pcb = packet[s].pcb
                            /\ packet'[s].ahead = packet[s].ahead
                            /\ packet'[s].queued => s = p \/ packet[s].queued
        BY <1>3
    <2>2. \A s \in Packet : packet[s].ahead \subseteq Packet
        BY <1>1 DEF Packets
    <2>3. ASSUME NEW s \in Packet, packet'[s].due
          PROVE  packet'[s].pcb # NoPcb /\ \A r \in packet'[s].ahead : packet'[r].due
        BY <2>1, <2>2, <2>3 DEF PushInv, MarkedAreDue
    <2>4. ASSUME NEW s \in Packet
          PROVE  (packet'[s].queued => packet'[s].due) /\ (s \in walk' => packet'[s].due)
        BY <1>4, <2>1 DEF PushInv, MarkedAreDue
    <2> QED BY <2>3, <2>4 DEF MarkedAreDue
<1>6. ASSUME ~refused' PROVE PushedInOrder' /\ WalkTakesTheRest'
    <2>1. ~refused /\ mark /\ s_action_queue' = Append(s_action_queue, TX(p)) /\ action' = action
        BY <1>2, <1>6 DEF TimerPushes, mdns_priv_queue_action, TX
    <2>2. PushedInOrder /\ WalkTakesTheRest
        BY <2>1 DEF PushInv
    <2>3. TX(p) \in Actions
        BY DEF TX, Actions
    <2>4. Line' = Append(Line, TX(p)) /\ Line \in Seq(Actions)
        BY <2>1, <2>3, LineQueued, LineIsTyped
    <2>5. \A r \in Packet : packet[r].due => (r \in walk <=> ~packet[r].queued)
        BY <1>4, <2>2 DEF WalkTakesTheRest
    <2>6. ~packet[p].queued
        BY <1>4, <2>5
    <2>7. Waits(Line', p) /\ \A r \in packet[p].ahead : packet'[r].queued /\ Behind(Line', p, r)
        <3>1. Waits(Line', p)
            BY <2>3, <2>4, LineGrows
        <3>2. ASSUME NEW r \in packet[p].ahead PROVE packet'[r].queued /\ Behind(Line', p, r)
            <4>1. r \in Packet /\ r # p /\ r \notin walk
                BY <1>1, <1>4 DEF Packets
            <4>2. packet[r].queued
                <5>1. packet[r].due
                    BY <1>4 DEF PushInv, MarkedAreDue
                <5>2. packet[r].queued \in BOOLEAN
                    BY <1>1, <4>1 DEF Packets
                <5> QED BY <2>5, <4>1, <5>1, <5>2
            <4>3. Behind(Line', p, r)
                BY <2>3, <2>4, <4>1, LineGrows
            <4> QED BY <1>3, <4>1, <4>2, <4>3
        <3> QED BY <3>1, <3>2
    <2>8. ASSUME NEW s \in Packet \ {p}, packet[s].queued
          PROVE  Waits(Line', s) /\ \A r \in packet[s].ahead : packet'[r].queued /\ Behind(Line', s, r)
        <3>1. Waits(Line, s) /\ \A r \in packet[s].ahead : packet[r].queued /\ Behind(Line, s, r)
            BY <2>2, <2>8 DEF PushedInOrder
        <3>2. Waits(Line', s)
            BY <2>3, <2>4, <3>1, LineGrows
        <3>3. ASSUME NEW r \in packet[s].ahead PROVE packet'[r].queued /\ Behind(Line', s, r)
            <4>1. r \in Packet /\ packet[r].queued /\ Behind(Line, s, r)
                BY <1>1, <3>1 DEF Packets
            <4>2. r # p /\ TX(p) # TX(r)
                BY <2>6, <4>1 DEF TX
            <4>3. Behind(Line', s, r)
                BY <2>3, <2>4, <4>1, <4>2, LineGrows
            <4> QED BY <1>3, <4>1, <4>2, <4>3
        <3> QED BY <3>2, <3>3
    <2>9. PushedInOrder'
        BY <1>3, <2>7, <2>8 DEF PushedInOrder
    <2>10. WalkTakesTheRest'
        BY <1>3, <1>4, <2>1, <2>5 DEF WalkTakesTheRest
    <2> QED BY <2>9, <2>10
<1> QED BY <1>5, <1>6 DEF PushInv

LEMMA ServiceTakesKeepsOrder ==
    ASSUME TypeOK, PushInv, ServiceTakes
    PROVE  PushInv'
<1>1. Line' = Line
    BY LineTaken
<1>2. UNCHANGED <<packet, walk, refused>>
    BY DEF ServiceTakes
<1> QED BY <1>1, <1>2 DEF PushInv, MarkedAreDue, PushedInOrder, WalkTakesTheRest

LEMMA InitPushInv == Init => PushInv
<1> SUFFICES ASSUME Init PROVE PushInv
    OBVIOUS
<1>1. \A p \in Packet : ~packet[p].due /\ ~packet[p].queued
    BY DEF Init, Freed, Allocated
<1>2. walk = {}
    BY DEF Init
<1> QED BY <1>1, <1>2 DEF PushInv, MarkedAreDue, PushedInOrder, WalkTakesTheRest

LEMMA NextPushInv == TypeOK /\ PushInv /\ [Next]_vars => PushInv'
<1> SUFFICES ASSUME TypeOK, PushInv, [Next]_vars PROVE PushInv'
    OBVIOUS
<1>1. ASSUME NEW q \in Pcb,
             NEW type \in {"QUESTION", "CONFLICT", "ENABLE", "DISABLE", "ANNOUNCE"}, Posted(q, type)
      PROVE  PushInv'
    <2>1. [type |-> type, pcb |-> q] \in Actions /\ [type |-> type, pcb |-> q].type # "TX"
        BY DEF Actions
    <2> QED BY <1>1, <2>1, EventKeepsOrder DEF Posted, mdns_priv_queue_action
<1>2. CASE mdns_hostname_set
    <2>1. NameAction \in Actions /\ NameAction.type # "TX"
        BY DEF NameAction, Actions
    <2> QED BY <1>2, <2>1, EventKeepsOrder DEF mdns_hostname_set, mdns_priv_queue_action
<1>3. ASSUME NEW p \in Packet, TimePasses(p) PROVE PushInv'
    BY <1>3, TimePassesKeepsOrder
<1>4. ASSUME NEW p \in Packet, TimerPushes(p) PROVE PushInv'
    BY <1>4, TimerPushesKeepsOrder
<1>5. CASE TimerStarts
    BY <1>5, TimerStartsKeepsOrder
<1>6. CASE ServiceTakes
    BY <1>6, ServiceTakesKeepsOrder
<1>7. CASE Executes
    BY <1>7, ExecutesKeepsOrder
<1>8. CASE UNCHANGED vars
    BY <1>8 DEF vars, PushInv, MarkedAreDue, PushedInOrder, WalkTakesTheRest, Line
<1> QED BY <1>1, <1>2, <1>3, <1>4, <1>5, <1>6, <1>7, <1>8 DEF Next, PacketArrives, post_custom_action

(* A packet marked as pushed has an action pending that will send it, as    *)
(* long as the action queue refused no packet.                              *)
THEOREM PushedWillBeSent == Spec => []PushedIsPending
<1>1. Spec => []PushInv
    <2>1. IInv => TypeOK
        BY DEF IInv
    <2> QED BY <2>1, InitPushInv, NextPushInv, Invariance, PTL DEF Spec
<1>2. TypeOK /\ PushInv => PushedIsPending
    <2> SUFFICES ASSUME TypeOK, PushInv, ~refused, NEW p \in Packet, packet[p].queued
                 PROVE  TX(p) \in Pending
        BY DEF PushedIsPending, TX
    <2>1. PICK i \in 1..Len(Line) : Line[i] = TX(p)
        BY DEF PushInv, PushedInOrder, Waits
    <2>2. action \in Seq(Actions) /\ s_action_queue \in Seq(Actions)
        BY DEF TypeOK
    <2>3. CASE i \in 1..Len(action)
        BY <2>1, <2>2, <2>3 DEF Line, Pending
    <2>4. CASE i \notin 1..Len(action)
        <3>1. /\ i - Len(action) \in 1..Len(s_action_queue)
              /\ Line[i] = s_action_queue[i - Len(action)]
            BY <2>1, <2>2, <2>4 DEF Line
        <3> QED BY <2>1, <3>1 DEF Pending
    <2> QED BY <2>3, <2>4
<1> QED BY <1>1, <1>2, TypeCorrect, PTL
=============================================================================
