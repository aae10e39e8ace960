-------------------------- MODULE MdnsReceiver_proofs --------------------------
(***************************************************************************)
(* What the packets that are received do to the state they are about: how   *)
(* far a device is driven from the name it was given, and that it is driven *)
(* far enough (MdnsNaming), for every finite set of devices and any number  *)
(* of power-ons and packets; and the cache of a browse and what its         *)
(* listener has heard (MdnsBrowse), for all browses, results, service types *)
(* and packets.                                                             *)
(***************************************************************************)
EXTENDS MdnsNaming, MdnsBrowse, FiniteSetTheorems, ListTheorems

-----------------------------------------------------------------------------
(* The name of a device                                                     *)

Larger(d) == {e \in Device : e > d}

Limit(d) == 1 + Cardinality(Larger(d))

(* A packet carries a name its sender may have; the sender may have been    *)
(* switched off since, and have another name now.                           *)
Fair == {p \in Packets : p.name <= Limit(p.from)}

IInv ==
    /\ TypeOK
    /\ KeepsTheLowestName
    /\ inbox \in [Device -> Seq(Fair)]

-----------------------------------------------------------------------------
LEMMA LimitIsNatural == ASSUME NEW d \in Device PROVE Limit(d) \in Nat /\ Limit(d) >= 1
<1>1. IsFiniteSet(Larger(d))
  BY DeviceAssumption, FS_Subset, Larger(d) \subseteq Device DEF Larger
<1> QED BY <1>1, FS_CardinalityType DEF Limit

(* Every address that gives way to a larger one has room below its limit.   *)
LEMMA LimitGrows ==
  ASSUME NEW d \in Device, NEW e \in Device, e > d
  PROVE  Limit(e) + 1 <= Limit(d)
<1>1. IsFiniteSet(Larger(d)) /\ IsFiniteSet(Larger(e))
  BY DeviceAssumption, FS_Subset, Larger(d) \subseteq Device, Larger(e) \subseteq Device DEF Larger
<1>2. e \notin Larger(e)
  BY DeviceAssumption DEF Larger
<1>3. Larger(e) \cup {e} \subseteq Larger(d)
  <2>1. d \in Nat /\ e \in Nat
    BY DeviceAssumption
  <2>2. ASSUME NEW f \in Device, f > e PROVE f \in Larger(d)
    BY <2>1, <2>2, DeviceAssumption DEF Larger
  <2>3. e \in Larger(d)
    BY DEF Larger
  <2> QED BY <2>2, <2>3 DEF Larger
<1>4. IsFiniteSet(Larger(e) \cup {e}) /\ Cardinality(Larger(e) \cup {e}) = Cardinality(Larger(e)) + 1
  BY <1>1, <1>2, FS_AddElement
<1>5. Cardinality(Larger(e) \cup {e}) <= Cardinality(Larger(d))
  BY <1>1, <1>3, FS_Subset
<1> QED BY <1>1, <1>4, <1>5, FS_CardinalityType DEF Limit

(* What a device sends is fair.                                             *)
LEMMA TransmitKeeps ==
  ASSUME NEW box \in [Device -> Seq(Packets)], box \in [Device -> Seq(Fair)],
         NEW p \in Fair, NEW to \in SUBSET Device, lost \in 0..MaxLost,
         Transmit(box, p, to)
  PROVE  /\ inbox' \in [Device -> Seq(Packets)] /\ inbox' \in [Device -> Seq(Fair)]
         /\ lost' \in 0..MaxLost
<1>1. PICK missed \in SUBSET to :
        /\ lost + Cardinality(missed) <= MaxLost /\ lost' = lost + Cardinality(missed)
        /\ inbox' = [d \in Device |-> IF d \in to \ missed THEN Append(box[d], p) ELSE box[d]]
  BY DEF Transmit
<1>2. p \in Packets
  BY DEF Fair
<1>3. IsFiniteSet(missed)
  BY DeviceAssumption, FS_Subset, missed \subseteq Device
<1>4. Cardinality(missed) \in Nat
  BY <1>3, FS_CardinalityType
<1>5. ASSUME NEW d \in Device
      PROVE  Append(box[d], p) \in Seq(Packets) /\ Append(box[d], p) \in Seq(Fair)
  BY <1>2
<1> QED BY <1>1, <1>4, <1>5

LEMMA InitInvariant == Init => IInv
<1> SUFFICES ASSUME Init PROVE IInv
  OBVIOUS
<1>1. starts \in 0..MaxStarts /\ lost \in 0..MaxLost
  BY BoundsAssumption DEF Init
<1>2. TypeOK
  BY <1>1 DEF Init, TypeOK, PCB_OFF
<1>3. KeepsTheLowestName
  BY LimitIsNatural DEF Init, KeepsTheLowestName, Limit, Larger
<1> QED BY <1>2, <1>3 DEF IInv, Init

(* A device that gives way takes a name within its limit; one that answers, *)
(* or repeats its probe, keeps its name.                                    *)
LEMMA CollisionKeeps ==
  ASSUME IInv, NEW d \in Device, NEW p \in Fair, AddressCollision(d, p)
  PROVE  /\ state' \in [Device -> {PCB_OFF} \cup PCB_PROBE_1..PCB_RUNNING]
         /\ name' \in [Device -> Nat \ {0}]
         /\ KeepsTheLowestName'
<1>1. CASE Loses(d, p) /\ Probing(d) /\ name' = [name EXCEPT ![d] = mangle_name(@)]
           /\ mdns_priv_restart_all_pcbs(d)
  <2>1. p.from \in Device /\ p.name = name[d] /\ p.from > d /\ p.name <= Limit(p.from)
    BY <1>1, DeviceAssumption DEF Loses, is_ours, check_a_collision, Fair, Packets
  <2>2. name[d] \in Nat /\ name[d] + 1 <= Limit(d)
    BY <2>1, LimitGrows, LimitIsNatural DEF IInv, TypeOK
  <2>3. name'[d] = name[d] + 1 /\ \A e \in Device \ {d} : name'[e] = name[e]
    BY <1>1 DEF mangle_name, IInv, TypeOK
  <2>4. name' \in [Device -> Nat \ {0}]
    BY <1>1, <2>2 DEF mangle_name, IInv, TypeOK
  <2>5. KeepsTheLowestName'
    BY <2>2, <2>3 DEF IInv, KeepsTheLowestName, Limit, Larger
  <2>6. state' \in [Device -> {PCB_OFF} \cup PCB_PROBE_1..PCB_RUNNING]
    BY <1>1 DEF mdns_priv_restart_all_pcbs, IInv, TypeOK, PCB_PROBE_1, PCB_RUNNING
  <2> QED BY <2>4, <2>5, <2>6
<1>2. CASE mdns_priv_restart_all_pcbs(d) /\ UNCHANGED name
  BY <1>2 DEF mdns_priv_restart_all_pcbs, IInv, TypeOK, KeepsTheLowestName, PCB_PROBE_1, PCB_RUNNING
<1>3. CASE UNCHANGED <<state, name>>
  BY <1>3 DEF IInv, TypeOK, KeepsTheLowestName
<1> QED BY <1>1, <1>2, <1>3 DEF AddressCollision

LEMMA PowerOnKeeps == ASSUME IInv, NEW d \in Device, PowerOn(d) PROVE IInv'
<1>1. state' \in [Device -> {PCB_OFF} \cup PCB_PROBE_1..PCB_RUNNING]
  BY DEF PowerOn, IInv, TypeOK, PCB_PROBE_1, PCB_RUNNING
<1>2. starts' \in 0..MaxStarts
  BY BoundsAssumption DEF PowerOn, IInv, TypeOK
<1>3. name' \in [Device -> Nat \ {0}]
  BY DEF PowerOn, IInv, TypeOK
<1>4. KeepsTheLowestName'
  BY LimitIsNatural DEF PowerOn, IInv, TypeOK, KeepsTheLowestName, Limit, Larger
<1> QED BY <1>1, <1>2, <1>3, <1>4 DEF PowerOn, IInv, TypeOK

LEMMA PowerOffKeeps == ASSUME IInv, NEW d \in Device, PowerOff(d) PROVE IInv'
BY DEF PowerOff, IInv, TypeOK, KeepsTheLowestName

LEMMA SendKeeps ==
  ASSUME IInv, NEW d \in Device, mdns_priv_pcb_schedule_tx_packet(d)
  PROVE  IInv'
<1> DEFINE p == [probe |-> Probing(d), name |-> name[d], from |-> d, unicast |-> state[d] = PCB_PROBE_1]
<1>1. p \in Fair
  BY DEF Fair, Packets, Probing, IInv, TypeOK, KeepsTheLowestName, Limit, Larger
<1>2. Transmit(inbox, p, Others(d)) /\ Others(d) \in SUBSET Device
  BY DEF mdns_priv_pcb_schedule_tx_packet, Others
<1>3. /\ inbox' \in [Device -> Seq(Packets)] /\ inbox' \in [Device -> Seq(Fair)]
      /\ lost' \in 0..MaxLost
  <2> HIDE DEF p
  <2> QED BY <1>1, <1>2, TransmitKeeps DEF IInv, TypeOK
<1>4. state[d] \in PCB_PROBE_1..PCB_RUNNING - 1
  BY DEF mdns_priv_pcb_schedule_tx_packet, On, IInv, TypeOK, PCB_OFF, PCB_PROBE_1, PCB_RUNNING
<1>5. state' \in [Device -> {PCB_OFF} \cup PCB_PROBE_1..PCB_RUNNING]
  BY <1>4 DEF mdns_priv_pcb_schedule_tx_packet, IInv, TypeOK, PCB_PROBE_1, PCB_RUNNING
<1> QED BY <1>3, <1>5 DEF mdns_priv_pcb_schedule_tx_packet, IInv, TypeOK, KeepsTheLowestName

LEMMA ReadKeeps == ASSUME IInv, NEW d \in Device, mdns_parse_packet(d) PROVE IInv'
<1> DEFINE p == Head(inbox[d])
           rest == [inbox EXCEPT ![d] = Tail(@)]
           a == [probe |-> FALSE, name |-> name[d], from |-> d, unicast |-> FALSE]
           to == IF p.unicast THEN Others(d) \cap {p.from} ELSE Others(d)
<1>1. inbox[d] \in Seq(Fair) /\ inbox[d] \in Seq(Packets) /\ inbox[d] # <<>>
  BY DEF mdns_parse_packet, IInv, TypeOK
<1>2. p \in Fair
  BY <1>1
<1>3. Tail(inbox[d]) \in Seq(Fair) /\ Tail(inbox[d]) \in Seq(Packets)
  BY <1>1
<1>4. rest \in [Device -> Seq(Packets)] /\ rest \in [Device -> Seq(Fair)]
  BY <1>3 DEF IInv, TypeOK
<1>5. a \in Fair
  BY DEF Fair, Packets, IInv, TypeOK, KeepsTheLowestName, Limit, Larger
<1>6. to \in SUBSET Device
  BY DEF Others
<1>7. /\ AddressCollision(d, p) /\ UNCHANGED starts
      /\ Transmit(rest, a, to) \/ (inbox' = rest /\ UNCHANGED lost)
  BY DEF mdns_parse_packet
<1> HIDE DEF p, rest, a, to
<1>8. /\ inbox' \in [Device -> Seq(Packets)] /\ inbox' \in [Device -> Seq(Fair)]
      /\ lost' \in 0..MaxLost
  <2>1. CASE Transmit(rest, a, to)
    BY <2>1, <1>4, <1>5, <1>6, TransmitKeeps DEF IInv, TypeOK
  <2>2. CASE inbox' = rest /\ UNCHANGED lost
    BY <2>2, <1>4 DEF IInv, TypeOK
  <2> QED BY <1>7, <2>1, <2>2
<1> QED BY <1>2, <1>7, <1>8, CollisionKeeps DEF IInv, TypeOK

LEMMA NextInvariant == IInv /\ [Next]_vars => IInv'
<1> SUFFICES ASSUME IInv, [Next]_vars PROVE IInv'
  OBVIOUS
<1>1. ASSUME NEW d \in Device, PowerOn(d) PROVE IInv'
  BY <1>1, PowerOnKeeps
<1>2. ASSUME NEW d \in Device, PowerOff(d) PROVE IInv'
  BY <1>2, PowerOffKeeps
<1>3. ASSUME NEW d \in Device, mdns_priv_pcb_schedule_tx_packet(d) PROVE IInv'
  BY <1>3, SendKeeps
<1>4. ASSUME NEW d \in Device, mdns_parse_packet(d) PROVE IInv'
  BY <1>4, ReadKeeps
<1>5. CASE UNCHANGED vars
  BY <1>5 DEF vars, IInv, TypeOK, KeepsTheLowestName
<1> QED BY <1>1, <1>2, <1>3, <1>4, <1>5 DEF Next

LEMMA Invariant == Spec => []IInv
BY InitInvariant, NextInvariant, PTL DEF Spec

-----------------------------------------------------------------------------
(* The states of the interfaces, the names and the packets on the way keep  *)
(* their types: what mdns_priv_pcb_schedule_tx_packet counts up never       *)
(* leaves the enumeration mdns_pcb_state_t.                                 *)
THEOREM TypeCorrect == Spec => []TypeOK
BY Invariant, PTL DEF IInv

(* mangle_name is called on a device at most once for every address larger  *)
(* than its own since it was powered on, whoever is switched on and off     *)
(* and whatever is lost: the largest keeps the name it was given.           *)
THEOREM LowestNames == Spec => []KeepsTheLowestName
BY Invariant, PTL DEF IInv

-----------------------------------------------------------------------------
(* Two devices with one name                                                *)

(* The packets that tell d that e has its name, and those in which d asks   *)
(* whoever has its name.                                                    *)
Tells(e) == {p \in Packets : p.from = e /\ p.name = name[e]}
Asks(d) == {p \in Packets : p.probe /\ p.from = d /\ p.name = name[d]}

ProbesLeft(d) == IF Probing(d) THEN PCB_ANNOUNCE_1 - state[d] ELSE 0

(* The packets, sent or to be sent, by which d may yet learn that e, which  *)
(* answers by now, has its name.                                            *)
Chances(d, e) == (PCB_RUNNING - state[e]) + Occurs(inbox[d], Tells(e))
                    + ProbesLeft(d) + Occurs(inbox[e], Asks(d))

(* While e still probes, it has its announcements before it.                *)
HasChances(d, e) ==
    On(d) /\ On(e) /\ name[d] = name[e] => Probing(e) \/ lost + Chances(d, e) >= 3

SmallerWillLearn == \A d, e \in Device : e > d => HasChances(d, e)

-----------------------------------------------------------------------------
(* What a step may do to the packets on the way                             *)

Arrives(box, p, to) ==
    /\ lost' \in Nat /\ lost' >= lost
    /\ \A x \in Device : \/ inbox'[x] = box[x] /\ (x \in to => lost' >= lost + 1)
                         \/ inbox'[x] = Append(box[x], p) /\ x \in to

LEMMA TransmitArrives ==
  ASSUME IInv, NEW box \in [Device -> Seq(Packets)], NEW p, NEW to \in SUBSET Device,
         Transmit(box, p, to)
  PROVE  Arrives(box, p, to)
<1>1. PICK missed \in SUBSET to :
        /\ lost' = lost + Cardinality(missed)
        /\ inbox' = [d \in Device |-> IF d \in to \ missed THEN Append(box[d], p) ELSE box[d]]
  BY DEF Transmit
<1>2. IsFiniteSet(missed)
  BY DeviceAssumption, FS_Subset, missed \subseteq Device
<1>3. Cardinality(missed) \in Nat /\ (missed # {} => Cardinality(missed) # 0)
  BY <1>2, FS_CardinalityType, FS_EmptySet
<1>4. lost \in Nat
  BY DEF IInv, TypeOK
<1>5. ASSUME NEW x \in Device
      PROVE  \/ inbox'[x] = box[x] /\ (x \in to => lost' >= lost + 1)
             \/ inbox'[x] = Append(box[x], p) /\ x \in to
  <2>1. CASE x \in to \ missed
    BY <1>1, <2>1
  <2>2. CASE x \notin to
    BY <1>1, <2>2
  <2>3. CASE x \in missed
    BY <1>1, <1>3, <1>4, <2>3
  <2> QED BY <2>1, <2>2, <2>3
<1> QED BY <1>1, <1>3, <1>4, <1>5 DEF Arrives

(* A packet on the way stays on the way, unless it is read.                 *)
LEMMA ArrivalsCount ==
  ASSUME NEW box \in [Device -> Seq(Packets)], NEW p \in Packets, NEW to \in SUBSET Device,
         Arrives(box, p, to), lost \in Nat, NEW x \in Device, NEW E
  PROVE  /\ Occurs(box[x], E) \in Nat /\ Occurs(inbox'[x], E) \in Nat
         /\ Occurs(inbox'[x], E) >= Occurs(box[x], E)
         /\ x \in to /\ p \in E => lost' + Occurs(inbox'[x], E) >= lost + Occurs(box[x], E) + 1
<1>1. lost' \in Nat /\ lost' >= lost
  BY DEF Arrives
<1>2. Occurs(box[x], E) \in Nat
  BY OccursIsNatural
<1>3. CASE inbox'[x] = box[x] /\ (x \in to => lost' >= lost + 1)
  BY <1>1, <1>2, <1>3
<1>4. CASE inbox'[x] = Append(box[x], p)
  <2>1. Occurs(inbox'[x], E) = IF p \in E THEN Occurs(box[x], E) + 1 ELSE Occurs(box[x], E)
    BY <1>4, OccursInAppend
  <2> QED BY <1>1, <1>2, <2>1
<1> QED BY <1>3, <1>4 DEF Arrives

(* What the counts are made of                                              *)
LEMMA CountsAreNatural ==
  ASSUME IInv, NEW d \in Device, NEW e \in Device, On(e)
  PROVE  /\ lost \in Nat /\ PCB_RUNNING - state[e] \in Nat /\ ProbesLeft(d) \in Nat
         /\ Occurs(inbox[d], Tells(e)) \in Nat /\ Occurs(inbox[e], Asks(d)) \in Nat
<1>1. lost \in Nat
  BY DEF IInv, TypeOK
<1>2. PCB_RUNNING - state[e] \in Nat
  <2>1. state[e] \in PCB_PROBE_1..PCB_RUNNING
    BY DEF IInv, TypeOK, On
  <2> QED BY <2>1 DEF PCB_PROBE_1, PCB_RUNNING
<1>3. ProbesLeft(d) \in Nat
  BY DEF ProbesLeft, Probing, IInv, TypeOK, PCB_PROBE_1, PCB_PROBE_3, PCB_ANNOUNCE_1
<1>4. inbox[d] \in Seq(Packets) /\ inbox[e] \in Seq(Packets)
  BY DEF IInv, TypeOK
<1>5. Occurs(inbox[d], Tells(e)) \in Nat /\ Occurs(inbox[e], Asks(d)) \in Nat
  BY <1>4, OccursIsNatural
<1> QED BY <1>1, <1>2, <1>3, <1>5

(* A device that begins to probe has three chances of its own.              *)
LEMMA BeginningHasChances ==
  ASSUME IInv', NEW d \in Device, NEW e \in Device, state'[d] = PCB_PROBE_1 \/ state'[e] = PCB_PROBE_1
  PROVE  HasChances(d, e)'
<1>1. CASE state'[e] = PCB_PROBE_1
  BY <1>1 DEF HasChances, Probing, PCB_PROBE_1, PCB_PROBE_3
<1>2. CASE state'[d] = PCB_PROBE_1
  <2> SUFFICES ASSUME On(e)' PROVE (lost + Chances(d, e))' >= 3
    BY DEF HasChances
  <2>1. /\ lost' \in Nat /\ (PCB_RUNNING - state[e])' \in Nat
        /\ Occurs(inbox[d], Tells(e))' \in Nat /\ Occurs(inbox[e], Asks(d))' \in Nat
    <3>1. lost' \in Nat /\ inbox'[d] \in Seq(Packets) /\ inbox'[e] \in Seq(Packets)
      BY DEF IInv, TypeOK
    <3>2. state'[e] \in PCB_PROBE_1..PCB_RUNNING
      BY DEF IInv, TypeOK, On
    <3>3. Occurs(inbox'[d], Tells(e)') \in Nat /\ Occurs(inbox'[e], Asks(d)') \in Nat
      BY <3>1, OccursIsNatural
    <3> QED BY <3>1, <3>2, <3>3 DEF PCB_PROBE_1, PCB_RUNNING
  <2>2. ProbesLeft(d)' = 3
    BY <1>2 DEF ProbesLeft, Probing, PCB_PROBE_1, PCB_PROBE_3, PCB_ANNOUNCE_1
  <2> QED BY <2>1, <2>2 DEF Chances
<1> QED BY <1>1, <1>2


(* Nothing is taken from d and e, nor from what was on the way to them.     *)
LEMMA OthersKeepChances ==
  ASSUME IInv, NEW d \in Device, NEW e \in Device, HasChances(d, e),
         state'[d] = state[d], state'[e] = state[e], name'[d] = name[d], name'[e] = name[e],
         NEW box \in [Device -> Seq(Packets)], NEW p \in Packets, NEW to \in SUBSET Device,
         Arrives(box, p, to), box[d] = inbox[d], box[e] = inbox[e]
  PROVE  HasChances(d, e)'
<1> SUFFICES ASSUME (On(d) /\ On(e) /\ name[d] = name[e])', ~Probing(e)'
             PROVE  (lost + Chances(d, e))' >= 3
  BY DEF HasChances
<1>1. On(d) /\ On(e) /\ name[d] = name[e] /\ ~Probing(e)
  BY DEF On, Probing
<1>2. Tells(e)' = Tells(e) /\ Asks(d)' = Asks(d) /\ ProbesLeft(d)' = ProbesLeft(d)
  BY DEF Tells, Asks, ProbesLeft, Probing
<1>3. lost' >= lost /\ lost' \in Nat
  BY DEF Arrives
<1>4. /\ lost \in Nat /\ PCB_RUNNING - state[e] \in Nat /\ ProbesLeft(d) \in Nat
      /\ Occurs(inbox[d], Tells(e)) \in Nat /\ Occurs(inbox[e], Asks(d)) \in Nat
  BY <1>1, CountsAreNatural
<1>5. /\ Occurs(inbox'[d], Tells(e)) \in Nat
      /\ Occurs(inbox'[d], Tells(e)) >= Occurs(inbox[d], Tells(e))
  BY <1>4, ArrivalsCount
<1>6. /\ Occurs(inbox'[e], Asks(d)) \in Nat
      /\ Occurs(inbox'[e], Asks(d)) >= Occurs(inbox[e], Asks(d))
  BY <1>4, ArrivalsCount
<1>7. lost + Chances(d, e) >= 3
  BY <1>1 DEF HasChances
<1>8. Chances(d, e)' = (PCB_RUNNING - state[e]) + Occurs(inbox'[d], Tells(e))
                          + ProbesLeft(d) + Occurs(inbox'[e], Asks(d))
  BY <1>2 DEF Chances
<1> DEFINE m == PCB_RUNNING - state[e]
           t == Occurs(inbox[d], Tells(e))
           u == Occurs(inbox'[d], Tells(e))
           n == ProbesLeft(d)
           k == Occurs(inbox[e], Asks(d))
           l == Occurs(inbox'[e], Asks(d))
<1>9. Chances(d, e) = m + t + n + k /\ Chances(d, e)' = m + u + n + l
  BY <1>8 DEF Chances
<1>10. m \in Nat /\ t \in Nat /\ u \in Nat /\ n \in Nat /\ k \in Nat /\ l \in Nat /\ u >= t /\ l >= k
  BY <1>4, <1>5, <1>6
<1> HIDE DEF m, t, u, n, k, l
<1>11. Chances(d, e)' >= Chances(d, e) /\ Chances(d, e) \in Nat /\ Chances(d, e)' \in Nat
  BY ONLY <1>9, <1>10
<1> QED BY ONLY <1>3, <1>4, <1>7, <1>11

(* What e sends tells d, or is lost.                                        *)
LEMMA SenderKeepsChances ==
  ASSUME IInv, NEW d \in Device, NEW e \in Device, e > d, HasChances(d, e),
         mdns_priv_pcb_schedule_tx_packet(e)
  PROVE  HasChances(d, e)'
<1> DEFINE p == [probe |-> Probing(e), name |-> name[e], from |-> e, unicast |-> state[e] = PCB_PROBE_1]
<1> SUFFICES ASSUME (On(d) /\ On(e) /\ name[d] = name[e])', ~Probing(e)'
             PROVE  (lost + Chances(d, e))' >= 3
  BY DEF HasChances
<1>1. /\ On(e) /\ state[e] # PCB_RUNNING /\ Transmit(inbox, p, Others(e))
      /\ state' = [state EXCEPT ![e] = @ + 1] /\ UNCHANGED name
  BY DEF mdns_priv_pcb_schedule_tx_packet
<1>2. d # e /\ inbox \in [Device -> Seq(Packets)] /\ Others(e) \in SUBSET Device
  BY DeviceAssumption DEF IInv, TypeOK, Others
<1>3. state'[d] = state[d] /\ state'[e] = state[e] + 1 /\ name[d] = name[e]
  BY <1>1, <1>2 DEF IInv, TypeOK
<1>4. On(d) /\ d \in Others(e) /\ e \notin Others(e)
  BY <1>2, <1>3 DEF On, Others
<1>5. Tells(e)' = Tells(e) /\ Asks(d)' = Asks(d) /\ ProbesLeft(d)' = ProbesLeft(d)
  BY <1>1, <1>3 DEF Tells, Asks, ProbesLeft, Probing
<1>6. p \in Packets /\ p \in Tells(e)
  BY DEF Tells, Packets, Probing, IInv, TypeOK
<1>7. Arrives(inbox, p, Others(e))
  <2> HIDE DEF p
  <2> QED BY <1>1, <1>2, TransmitArrives
<1> HIDE DEF p
<1>8. /\ lost \in Nat /\ PCB_RUNNING - state[e] \in Nat /\ ProbesLeft(d) \in Nat
      /\ Occurs(inbox[d], Tells(e)) \in Nat /\ Occurs(inbox[e], Asks(d)) \in Nat
  BY <1>1, CountsAreNatural
<1>9. /\ Occurs(inbox'[d], Tells(e)) \in Nat
      /\ lost' + Occurs(inbox'[d], Tells(e)) >= lost + Occurs(inbox[d], Tells(e)) + 1
  BY <1>2, <1>4, <1>6, <1>7, <1>8, ArrivalsCount
<1>10. Occurs(inbox'[e], Asks(d)) \in Nat /\ Occurs(inbox'[e], Asks(d)) >= Occurs(inbox[e], Asks(d))
  BY <1>2, <1>6, <1>7, <1>8, ArrivalsCount
<1>11. lost' \in Nat
  BY <1>7 DEF Arrives
<1>12. Chances(d, e)' = (PCB_RUNNING - state'[e]) + Occurs(inbox'[d], Tells(e))
                          + ProbesLeft(d) + Occurs(inbox'[e], Asks(d))
  BY <1>5 DEF Chances
<1>13. Chances(d, e) = (PCB_RUNNING - state[e]) + Occurs(inbox[d], Tells(e))
                          + ProbesLeft(d) + Occurs(inbox[e], Asks(d))
  BY DEF Chances
<1>14. state[e] \in PCB_PROBE_1..PCB_RUNNING
  BY <1>1 DEF IInv, TypeOK, On
<1>15. CASE Probing(e)
  <2>1. PCB_RUNNING - state'[e] = 3
    BY <1>3, <1>14, <1>15 DEF Probing, PCB_PROBE_1, PCB_PROBE_3, PCB_RUNNING
  <2> QED BY ONLY <1>8, <1>9, <1>10, <1>11, <1>12, <2>1
<1>16. CASE ~Probing(e)
  <2>1. lost + Chances(d, e) >= 3
    BY <1>1, <1>3, <1>4, <1>16 DEF HasChances
  <2>2. PCB_RUNNING - state'[e] = (PCB_RUNNING - state[e]) - 1
    BY <1>3, <1>14 DEF PCB_PROBE_1, PCB_RUNNING
  <2> QED BY ONLY <1>8, <1>9, <1>10, <1>11, <1>12, <1>13, <2>1, <2>2
<1> QED BY <1>15, <1>16

(* A probe of d is on its way to e, or lost.                                *)
LEMMA ProberKeepsChances ==
  ASSUME IInv, NEW d \in Device, NEW e \in Device, e > d, HasChances(d, e),
         mdns_priv_pcb_schedule_tx_packet(d)
  PROVE  HasChances(d, e)'
<1> DEFINE p == [probe |-> Probing(d), name |-> name[d], from |-> d, unicast |-> state[d] = PCB_PROBE_1]
<1> SUFFICES ASSUME (On(d) /\ On(e) /\ name[d] = name[e])', ~Probing(e)'
             PROVE  (lost + Chances(d, e))' >= 3
  BY DEF HasChances
<1>1. /\ On(d) /\ Transmit(inbox, p, Others(d))
      /\ state' = [state EXCEPT ![d] = @ + 1] /\ UNCHANGED name
  BY DEF mdns_priv_pcb_schedule_tx_packet
<1>2. d # e /\ inbox \in [Device -> Seq(Packets)] /\ Others(d) \in SUBSET Device
  BY DeviceAssumption DEF IInv, TypeOK, Others
<1>3. state'[d] = state[d] + 1 /\ state'[e] = state[e] /\ name[d] = name[e]
  BY <1>1, <1>2 DEF IInv, TypeOK
<1>4. On(e) /\ e \in Others(d) /\ ~Probing(e)
  BY <1>2, <1>3 DEF On, Others, Probing
<1>5. Tells(e)' = Tells(e) /\ Asks(d)' = Asks(d)
  BY <1>1 DEF Tells, Asks
<1>6. p \in Packets /\ (Probing(d) => p \in Asks(d))
  <2>1. p \in Packets
    BY DEF Packets, Probing, IInv, TypeOK
  <2> QED BY <2>1 DEF Asks
<1>7. Arrives(inbox, p, Others(d))
  <2> HIDE DEF p
  <2> QED BY <1>1, <1>2, TransmitArrives
<1> HIDE DEF p
<1>8. /\ lost \in Nat /\ PCB_RUNNING - state[e] \in Nat /\ ProbesLeft(d) \in Nat
      /\ Occurs(inbox[d], Tells(e)) \in Nat /\ Occurs(inbox[e], Asks(d)) \in Nat
  BY <1>4, CountsAreNatural
<1>9. /\ Occurs(inbox'[e], Asks(d)) \in Nat /\ Occurs(inbox'[e], Asks(d)) >= Occurs(inbox[e], Asks(d))
      /\ Probing(d) => lost' + Occurs(inbox'[e], Asks(d)) >= lost + Occurs(inbox[e], Asks(d)) + 1
  BY <1>2, <1>4, <1>6, <1>7, <1>8, ArrivalsCount
<1>10. Occurs(inbox'[d], Tells(e)) \in Nat /\ Occurs(inbox'[d], Tells(e)) >= Occurs(inbox[d], Tells(e))
  BY <1>2, <1>6, <1>7, <1>8, ArrivalsCount
<1>11. lost' \in Nat /\ lost' >= lost
  BY <1>7 DEF Arrives
<1>12. ProbesLeft(d)' = IF Probing(d) THEN ProbesLeft(d) - 1 ELSE ProbesLeft(d)
  <2>1. state[d] \in PCB_PROBE_1..PCB_RUNNING
    BY <1>1 DEF IInv, TypeOK, On
  <2> QED BY <1>3, <2>1 DEF ProbesLeft, Probing, PCB_PROBE_1, PCB_PROBE_3, PCB_ANNOUNCE_1, PCB_RUNNING
<1>13. Chances(d, e)' = (PCB_RUNNING - state[e]) + Occurs(inbox'[d], Tells(e))
                          + ProbesLeft(d)' + Occurs(inbox'[e], Asks(d))
  BY <1>3, <1>5 DEF Chances
<1>14. Chances(d, e) = (PCB_RUNNING - state[e]) + Occurs(inbox[d], Tells(e))
                          + ProbesLeft(d) + Occurs(inbox[e], Asks(d))
  BY DEF Chances
<1>15. lost + Chances(d, e) >= 3
  BY <1>1, <1>3, <1>4 DEF HasChances
<1>16. CASE Probing(d)
  BY <1>8, <1>9, <1>10, <1>11, <1>12, <1>13, <1>14, <1>15, <1>16
<1>17. CASE ~Probing(d)
  BY <1>8, <1>9, <1>10, <1>11, <1>12, <1>13, <1>14, <1>15, <1>17
<1> QED BY <1>16, <1>17

-----------------------------------------------------------------------------
(* Reading a packet                                                         *)

(* The reader has its packet off the way, and what it answers arrives.      *)
Reads(d, p, rest, a, to) ==
    /\ On(d) /\ inbox[d] # <<>> /\ p = Head(inbox[d]) /\ p \in Packets
    /\ rest = [inbox EXCEPT ![d] = Tail(@)] /\ rest \in [Device -> Seq(Packets)]
    /\ a = [probe |-> FALSE, name |-> name[d], from |-> d, unicast |-> FALSE] /\ a \in Packets
    /\ to \in SUBSET Others(d) /\ (Answers(d, p) /\ p.from \in Others(d) => p.from \in to)
    /\ Arrives(rest, a, to) /\ AddressCollision(d, p)

LEMMA ReadingArrives ==
  ASSUME IInv, NEW d \in Device, mdns_parse_packet(d)
  PROVE  \E p, rest, a, to : Reads(d, p, rest, a, to)
<1> DEFINE p == Head(inbox[d])
           rest == [inbox EXCEPT ![d] = Tail(@)]
           a == [probe |-> FALSE, name |-> name[d], from |-> d, unicast |-> FALSE]
           all == IF p.unicast THEN Others(d) \cap {p.from} ELSE Others(d)
<1>1. /\ On(d) /\ inbox[d] # <<>> /\ AddressCollision(d, p)
      /\ \/ Answers(d, p) /\ Transmit(rest, a, all)
         \/ ~Answers(d, p) /\ inbox' = rest /\ UNCHANGED lost
  BY DEF mdns_parse_packet
<1>2. inbox[d] \in Seq(Packets) /\ lost \in Nat
  BY DEF IInv, TypeOK
<1>3. p \in Packets /\ Tail(inbox[d]) \in Seq(Packets)
  BY <1>1, <1>2
<1>4. rest \in [Device -> Seq(Packets)]
  BY <1>3 DEF IInv, TypeOK
<1>5. a \in Packets
  BY DEF Packets, IInv, TypeOK
<1>6. all \in SUBSET Device /\ all \in SUBSET Others(d) /\ (p.from \in Others(d) => p.from \in all)
  BY DEF Others
<1> HIDE DEF p, rest, a, all
<1>7. CASE Answers(d, p) /\ Transmit(rest, a, all)
  <2>1. Arrives(rest, a, all)
    BY <1>4, <1>6, <1>7, TransmitArrives
  <2>2. Reads(d, p, rest, a, all)
    BY <1>1, <1>3, <1>4, <1>5, <1>6, <2>1 DEF Reads, p, rest, a
  <2> QED BY <2>2
<1>8. CASE ~Answers(d, p) /\ inbox' = rest /\ UNCHANGED lost
  <2>1. Arrives(rest, a, {})
    BY <1>2, <1>8 DEF Arrives
  <2>2. Reads(d, p, rest, a, {})
    BY <1>1, <1>3, <1>4, <1>5, <1>8, <2>1 DEF Reads, p, rest, a
  <2> QED BY <2>2
<1> QED BY <1>1, <1>7, <1>8 DEF p, rest, a, all

(* A packet that another device reads is none of those that are counted.    *)
LEMMA StrangerKeepsChances ==
  ASSUME IInv, NEW d \in Device, NEW e \in Device, HasChances(d, e),
         NEW f \in Device \ {d, e}, mdns_parse_packet(f)
  PROVE  HasChances(d, e)'
<1>1. PICK p, rest, a, to : Reads(f, p, rest, a, to)
  BY ReadingArrives
<1>2. /\ state'[d] = state[d] /\ state'[e] = state[e] /\ name'[d] = name[d] /\ name'[e] = name[e]
  BY <1>1 DEF Reads, AddressCollision, mdns_priv_restart_all_pcbs, IInv, TypeOK
<1>3. rest[d] = inbox[d] /\ rest[e] = inbox[e]
  BY <1>1 DEF Reads, IInv, TypeOK
<1>4. /\ rest \in [Device -> Seq(Packets)] /\ a \in Packets /\ to \in SUBSET Device
      /\ Arrives(rest, a, to)
  BY <1>1 DEF Reads, Others
<1> QED BY <1>2, <1>3, <1>4, OthersKeepChances

(* The larger device answers the probe, unless it begins to probe itself.   *)
LEMMA AnswererKeepsChances ==
  ASSUME IInv, IInv', NEW d \in Device, NEW e \in Device, e > d, HasChances(d, e),
         mdns_parse_packet(e)
  PROVE  HasChances(d, e)'
<1>1. PICK p, rest, a, to : Reads(e, p, rest, a, to)
  BY ReadingArrives
<1>2. AddressCollision(e, p) /\ On(e)
  BY <1>1 DEF Reads
<1>3. CASE Loses(e, p)
  <2>1. state'[e] = PCB_PROBE_1
    BY <1>2, <1>3 DEF AddressCollision, mdns_priv_restart_all_pcbs, IInv, TypeOK
  <2> QED BY <2>1, BeginningHasChances
<1>4. CASE ~Loses(e, p)
  <2> SUFFICES ASSUME (On(d) /\ On(e) /\ name[d] = name[e])', ~Probing(e)'
               PROVE  (lost + Chances(d, e))' >= 3
    BY DEF HasChances
  <2>1. state' = state /\ name' = name
    BY <1>2, <1>4 DEF AddressCollision
  <2>2. On(d) /\ name[d] = name[e] /\ ~Probing(e)
    BY <2>1 DEF On, Probing
  <2>3. Tells(e)' = Tells(e) /\ Asks(d)' = Asks(d) /\ ProbesLeft(d)' = ProbesLeft(d)
    BY <2>1 DEF Tells, Asks, ProbesLeft, Probing
  <2>4. d # e /\ d \in Others(e) /\ e \notin Others(e)
    BY <2>2, DeviceAssumption DEF Others
  <2>5. /\ lost \in Nat /\ PCB_RUNNING - state[e] \in Nat /\ ProbesLeft(d) \in Nat
        /\ Occurs(inbox[d], Tells(e)) \in Nat /\ Occurs(inbox[e], Asks(d)) \in Nat
    BY <1>2, CountsAreNatural
  <2>6. inbox[e] \in Seq(Packets) /\ inbox[e] # <<>> /\ p = Head(inbox[e])
    BY <1>1 DEF Reads, IInv, TypeOK
  <2>7. /\ rest \in [Device -> Seq(Packets)] /\ a \in Packets /\ to \in SUBSET Device /\ to \subseteq Others(e)
        /\ Arrives(rest, a, to)
    BY <1>1 DEF Reads, Others
  <2>8. rest[d] = inbox[d] /\ rest[e] = Tail(inbox[e])
    BY <1>1, <2>4 DEF Reads, IInv, TypeOK
  <2>9. Occurs(inbox[e], Asks(d)) = IF p \in Asks(d) THEN Occurs(rest[e], Asks(d)) + 1 ELSE Occurs(rest[e], Asks(d))
    BY <2>6, <2>8, OccursInTail
  <2>10. p \in Asks(d) => d \in to /\ a \in Tells(e)
    <3> SUFFICES ASSUME p \in Asks(d) PROVE d \in to /\ a \in Tells(e)
      OBVIOUS
    <3>1. p.probe /\ p.from = d /\ p.name = name[e]
      BY <2>2 DEF Asks
    <3>2. mdns_priv_pcb_is_after_probing(e)
      <4>1. state[e] \in PCB_PROBE_1..PCB_RUNNING
        BY <1>2 DEF IInv, TypeOK, On
      <4> QED BY <2>2, <4>1 DEF mdns_priv_pcb_is_after_probing, Probing, PCB_PROBE_1, PCB_PROBE_3, PCB_RUNNING
    <3>3. Answers(e, p)
      BY <1>4, <3>1, <3>2 DEF Answers, is_ours
    <3>4. d \in to
      BY <1>1, <2>4, <3>1, <3>3 DEF Reads
    <3>5. a \in Tells(e)
      BY <1>1 DEF Reads, Tells
    <3> QED BY <3>4, <3>5
  <2>11. /\ Occurs(inbox'[d], Tells(e)) \in Nat /\ Occurs(inbox'[d], Tells(e)) >= Occurs(inbox[d], Tells(e))
         /\ p \in Asks(d) => lost' + Occurs(inbox'[d], Tells(e)) >= lost + Occurs(inbox[d], Tells(e)) + 1
    BY <2>5, <2>7, <2>8, <2>10, ArrivalsCount
  <2>12. /\ Occurs(rest[e], Asks(d)) \in Nat /\ Occurs(inbox'[e], Asks(d)) \in Nat
         /\ Occurs(inbox'[e], Asks(d)) >= Occurs(rest[e], Asks(d))
    BY <2>5, <2>7, ArrivalsCount
  <2>13. lost' \in Nat /\ lost' >= lost
    BY <2>7 DEF Arrives
  <2>14. Chances(d, e)' = (PCB_RUNNING - state[e]) + Occurs(inbox'[d], Tells(e))
                            + ProbesLeft(d) + Occurs(inbox'[e], Asks(d))
    BY <2>1, <2>3 DEF Chances
  <2>15. Chances(d, e) = (PCB_RUNNING - state[e]) + Occurs(inbox[d], Tells(e))
                            + ProbesLeft(d) + Occurs(inbox[e], Asks(d))
    BY DEF Chances
  <2>16. lost + Chances(d, e) >= 3
    BY <1>2, <2>2 DEF HasChances
  <2>17. CASE p \in Asks(d)
    BY <2>5, <2>9, <2>11, <2>12, <2>13, <2>14, <2>15, <2>16, <2>17
  <2>18. CASE p \notin Asks(d)
    BY <2>5, <2>9, <2>11, <2>12, <2>13, <2>14, <2>15, <2>16, <2>18
  <2> QED BY <2>17, <2>18
<1> QED BY <1>3, <1>4

(* The smaller device gives way to what it is told.                         *)
LEMMA LearnerKeepsChances ==
  ASSUME IInv, IInv', NEW d \in Device, NEW e \in Device, e > d, HasChances(d, e),
         mdns_parse_packet(d)
  PROVE  HasChances(d, e)'
<1>1. PICK p, rest, a, to : Reads(d, p, rest, a, to)
  BY ReadingArrives
<1>2. AddressCollision(d, p) /\ On(d)
  BY <1>1 DEF Reads
<1>3. CASE Loses(d, p)
  <2>1. state'[d] = PCB_PROBE_1
    BY <1>2, <1>3 DEF AddressCollision, mdns_priv_restart_all_pcbs, IInv, TypeOK
  <2> QED BY <2>1, BeginningHasChances
<1>4. CASE ~Loses(d, p)
  <2> SUFFICES ASSUME (On(d) /\ On(e) /\ name[d] = name[e])', ~Probing(e)'
               PROVE  (lost + Chances(d, e))' >= 3
    BY DEF HasChances
  <2>1. state' = state /\ name' = name
    BY <1>2, <1>4 DEF AddressCollision
  <2>2. On(e) /\ name[d] = name[e] /\ ~Probing(e) /\ d # e
    BY <2>1, DeviceAssumption DEF On, Probing
  <2>3. Tells(e)' = Tells(e) /\ Asks(d)' = Asks(d) /\ ProbesLeft(d)' = ProbesLeft(d)
    BY <2>1 DEF Tells, Asks, ProbesLeft, Probing
  <2>4. /\ lost \in Nat /\ PCB_RUNNING - state[e] \in Nat /\ ProbesLeft(d) \in Nat
        /\ Occurs(inbox[d], Tells(e)) \in Nat /\ Occurs(inbox[e], Asks(d)) \in Nat
    BY <2>2, CountsAreNatural
  <2>5. inbox[d] \in Seq(Packets) /\ inbox[d] # <<>> /\ p = Head(inbox[d])
    BY <1>1 DEF Reads, IInv, TypeOK
  <2>6. /\ rest \in [Device -> Seq(Packets)] /\ a \in Packets /\ to \in SUBSET Device
        /\ Arrives(rest, a, to)
    BY <1>1 DEF Reads, Others
  <2>7. rest[e] = inbox[e] /\ rest[d] = Tail(inbox[d])
    BY <1>1, <2>2 DEF Reads, IInv, TypeOK
  <2>8. p \notin Tells(e)
    BY <1>4, <2>2 DEF Tells, Loses, is_ours, check_a_collision
  <2>9. Occurs(rest[d], Tells(e)) = Occurs(inbox[d], Tells(e))
    BY <2>5, <2>7, <2>8, OccursInTail
  <2>10. Occurs(inbox'[d], Tells(e)) \in Nat /\ Occurs(inbox'[d], Tells(e)) >= Occurs(inbox[d], Tells(e))
    BY <2>4, <2>6, <2>9, ArrivalsCount
  <2>11. Occurs(inbox'[e], Asks(d)) \in Nat /\ Occurs(inbox'[e], Asks(d)) >= Occurs(inbox[e], Asks(d))
    BY <2>4, <2>6, <2>7, ArrivalsCount
  <2>12. lost' \in Nat /\ lost' >= lost
    BY <2>6 DEF Arrives
  <2>13. Chances(d, e)' = (PCB_RUNNING - state[e]) + Occurs(inbox'[d], Tells(e))
                            + ProbesLeft(d) + Occurs(inbox'[e], Asks(d))
    BY <2>1, <2>3 DEF Chances
  <2>14. Chances(d, e) = (PCB_RUNNING - state[e]) + Occurs(inbox[d], Tells(e))
                            + ProbesLeft(d) + Occurs(inbox[e], Asks(d))
    BY DEF Chances
  <2>15. lost + Chances(d, e) >= 3
    BY <1>2, <2>2 DEF HasChances
  <2> QED BY <2>4, <2>10, <2>11, <2>12, <2>13, <2>14, <2>15
<1> QED BY <1>3, <1>4

-----------------------------------------------------------------------------
LEMMA PowerKeepsChances ==
  ASSUME IInv, IInv', SmallerWillLearn, NEW f \in Device, PowerOn(f) \/ PowerOff(f),
         NEW d \in Device, NEW e \in Device, e > d
  PROVE  HasChances(d, e)'
<1>1. HasChances(d, e)
  BY DEF SmallerWillLearn
<1>2. CASE PowerOn(f) /\ f \in {d, e}
  <2>1. state'[f] = PCB_PROBE_1
    BY <1>2 DEF PowerOn, IInv, TypeOK
  <2> QED BY <1>2, <2>1, BeginningHasChances
<1>3. CASE PowerOff(f) /\ f \in {d, e}
  <2>1. state'[f] = PCB_OFF
    BY <1>3 DEF PowerOff, IInv, TypeOK
  <2> QED BY <1>3, <2>1 DEF HasChances, On
<1>4. CASE f \notin {d, e}
  <2>1. /\ state'[d] = state[d] /\ state'[e] = state[e] /\ name'[d] = name[d] /\ name'[e] = name[e]
        /\ inbox'[d] = inbox[d] /\ inbox'[e] = inbox[e] /\ lost' = lost
    BY <1>4 DEF PowerOn, PowerOff, IInv, TypeOK
  <2> QED BY <1>1, <2>1 DEF HasChances, Chances, On, Probing, Tells, Asks, ProbesLeft
<1> QED BY <1>2, <1>3, <1>4

LEMMA SendingKeepsChances ==
  ASSUME IInv, SmallerWillLearn, NEW f \in Device, mdns_priv_pcb_schedule_tx_packet(f),
         NEW d \in Device, NEW e \in Device, e > d
  PROVE  HasChances(d, e)'
<1>1. HasChances(d, e)
  BY DEF SmallerWillLearn
<1>2. CASE f = e
  BY <1>1, <1>2, SenderKeepsChances
<1>3. CASE f = d
  BY <1>1, <1>3, ProberKeepsChances
<1>4. CASE f \notin {d, e}
  <2> DEFINE p == [probe |-> Probing(f), name |-> name[f], from |-> f, unicast |-> state[f] = PCB_PROBE_1]
  <2>1. Transmit(inbox, p, Others(f)) /\ Others(f) \in SUBSET Device
    BY DEF mdns_priv_pcb_schedule_tx_packet, Others
  <2>2. p \in Packets
    BY DEF Packets, Probing, IInv, TypeOK
  <2>3. state'[d] = state[d] /\ state'[e] = state[e] /\ name'[d] = name[d] /\ name'[e] = name[e]
    BY <1>4 DEF mdns_priv_pcb_schedule_tx_packet, IInv, TypeOK
  <2>4. inbox \in [Device -> Seq(Packets)]
    BY DEF IInv, TypeOK
  <2> HIDE DEF p
  <2>5. Arrives(inbox, p, Others(f))
    BY <2>1, <2>4, TransmitArrives
  <2> QED BY <1>1, <2>1, <2>2, <2>3, <2>4, <2>5, OthersKeepChances
<1> QED BY <1>2, <1>3, <1>4

LEMMA ReadingKeepsChances ==
  ASSUME IInv, IInv', SmallerWillLearn, NEW f \in Device, mdns_parse_packet(f),
         NEW d \in Device, NEW e \in Device, e > d
  PROVE  HasChances(d, e)'
<1>1. HasChances(d, e)
  BY DEF SmallerWillLearn
<1> QED BY <1>1, AnswererKeepsChances, LearnerKeepsChances, StrangerKeepsChances

LEMMA NextWillLearn == IInv /\ IInv' /\ SmallerWillLearn /\ [Next]_vars => SmallerWillLearn'
<1> SUFFICES ASSUME IInv, IInv', SmallerWillLearn, [Next]_vars, NEW d \in Device, NEW e \in Device, e > d
             PROVE  HasChances(d, e)'
  BY DEF SmallerWillLearn
<1>1. ASSUME NEW f \in Device, PowerOn(f) \/ PowerOff(f) PROVE HasChances(d, e)'
  BY <1>1, PowerKeepsChances
<1>2. ASSUME NEW f \in Device, mdns_priv_pcb_schedule_tx_packet(f) PROVE HasChances(d, e)'
  BY <1>2, SendingKeepsChances
<1>3. ASSUME NEW f \in Device, mdns_parse_packet(f) PROVE HasChances(d, e)'
  BY <1>3, ReadingKeepsChances
<1>4. CASE UNCHANGED vars
  BY <1>4 DEF vars, SmallerWillLearn, HasChances, Chances, On, Probing, Tells, Asks, ProbesLeft
<1> QED BY <1>1, <1>2, <1>3, <1>4 DEF Next

(* When all is quiet no chance is left.                                     *)
LEMMA QuietHasNoChance ==
  ASSUME IInv, SmallerWillLearn, Quiet, lost < 3,
         NEW d \in Device, NEW e \in Device, On(d), On(e), e > d
  PROVE  name[d] # name[e]
<1> SUFFICES ASSUME name[d] = name[e] PROVE FALSE
  OBVIOUS
<1>1. /\ state[d] = PCB_RUNNING /\ state[e] = PCB_RUNNING
      /\ inbox[d] = <<>> /\ inbox[e] = <<>>
  BY DEF Quiet, On
<1>2. ~Probing(e) /\ ProbesLeft(d) = 0
  BY <1>1 DEF Probing, ProbesLeft, PCB_RUNNING, PCB_PROBE_1, PCB_PROBE_3
<1>3. Occurs(inbox[d], Tells(e)) = 0 /\ Occurs(inbox[e], Asks(d)) = 0
  BY <1>1, NothingOccursInEmpty
<1>4. Chances(d, e) = 0
  BY <1>1, <1>2, <1>3 DEF Chances, PCB_RUNNING
<1>5. lost + Chances(d, e) >= 3
  BY <1>2 DEF SmallerWillLearn, HasChances
<1> QED BY <1>4, <1>5 DEF IInv, TypeOK

(* Two devices that are on and silent have two names, for any number of     *)
(* devices, power-ons and packets on the way: a device with the smaller     *)
(* address was told, by an announcement or by an answer to one of its three *)
(* probes (mdns_parse_packet), unless three packets were lost.              *)
THEOREM DistinctWhenQuiet == Spec => []QuietMeansDistinct
<1>1. Init => SmallerWillLearn
  BY DEF Init, SmallerWillLearn, HasChances, On
<1>2. IInv /\ SmallerWillLearn => QuietMeansDistinct
  <2> SUFFICES ASSUME IInv, SmallerWillLearn, Quiet, lost < 3,
                      NEW d \in Device, NEW e \in Device, d # e, On(d), On(e)
               PROVE  name[d] # name[e]
    BY DEF QuietMeansDistinct
  <2>1. d > e \/ e > d
    BY DeviceAssumption
  <2> QED BY <2>1, QuietHasNoChance
<1> QED BY <1>1, <1>2, Invariant, NextWillLearn, PTL DEF Spec

-----------------------------------------------------------------------------
(* Browsing: the memory while a packet is read                              *)

Chain == ToSet(s_browse)

(* What a listener has heard of an instance is what the result says, up to  *)
(* a first TXT record.                                                      *)
Says(said, content) ==
    /\ said.instance = content.instance /\ said.hostname = content.hostname
    /\ said.addr = content.addr /\ said.ttl = content.ttl
    /\ said.txt \in {None, content.txt}

Heaps == UNION {[D -> Contents] : D \in SUBSET Result}
Memory == [result : Heaps, list : [Browse -> Seq(Result)], sync : Browse \cup {None},
           changed : Seq(Result), last : Browse \cup {None}, staged : Seq(Records)]

HasNothingFreed(h) == DOMAIN h.result \cap freed = {}
HasWhatIsListed(h) == \A r \in Result : r \in DOMAIN h.result <=> \E b \in Chain : r \in ToSet(h.list[b])
HasNoIdle(h) == \A b \in Browse \ Chain : h.list[b] = <<>>
HasListsApart(h) == \A b, c \in Browse : b # c => ToSet(h.list[b]) \cap ToSet(h.list[c]) = {}
HasOneOfInstance(h) ==
    \A b \in Browse : \A r, o \in ToSet(h.list[b]) : h.result[r].instance = h.result[o].instance => r = o
Whole(h) == HasNothingFreed(h) /\ HasWhatIsListed(h) /\ HasNoIdle(h) /\ HasListsApart(h) /\ HasOneOfInstance(h)

(* The SYNC is of a running browse and tells of its results only.           *)
Bound(h) ==
    /\ h.sync \in Chain \cup {None} /\ h.last \in Chain \cup {None}
    /\ h.sync = None => h.changed = <<>> /\ h.last = None /\ h.staged = <<>>
    /\ h.sync # None => ToSet(h.changed) \subseteq ToSet(h.list[h.sync])

(* A packet takes nothing away.                                             *)
Grown(h) ==
    /\ \A b \in Browse : ToSet(browse[b].result) \subseteq ToSet(h.list[b])
    /\ \A r \in DOMAIN result : r \in DOMAIN h.result /\ h.result[r].instance = result[r].instance

(* Every result outside X is told of, or it says what it said.              *)
Heard(h, X) == \A r \in DOMAIN h.result : \/ r \in X \/ r \in ToSet(h.changed)
                                          \/ r \in DOMAIN result /\ Says(result[r], h.result[r])

Mid(h, X) == h \in Memory /\ Whole(h) /\ Bound(h) /\ Grown(h) /\ Heard(h, X)

LEMMA HeapIsFunction ==
  ASSUME NEW f
  PROVE  f \in Heaps <=> DOMAIN f \subseteq Result /\ f \in [DOMAIN f -> Contents]
BY DEF Heaps

LEMMA ChainInBrowse ==
  ASSUME BrowseTypeOK
  PROVE  Chain \subseteq Browse /\ None \notin Browse
BY NoneIsNothing DEF BrowseTypeOK, Chain, ToSet

LEMMA MemoryFields ==
  ASSUME NEW h \in Memory
  PROVE  /\ DOMAIN h.result \subseteq Result /\ h.result \in [DOMAIN h.result -> Contents]
         /\ h.list \in [Browse -> Seq(Result)] /\ h.sync \in Browse \cup {None}
         /\ h.changed \in Seq(Result) /\ h.last \in Browse \cup {None} /\ h.staged \in Seq(Records)
<1>1. h.result \in Heaps
  BY DEF Memory
<1> QED BY <1>1, HeapIsFunction DEF Memory

(* What a write changes                                                     *)
LEMMA WriteFields ==
  ASSUME NEW h \in Memory, NEW r \in DOMAIN h.result, NEW c \in Contents
  PROVE  /\ Write(h, r, c) \in Memory
         /\ DOMAIN Write(h, r, c).result = DOMAIN h.result
         /\ Write(h, r, c).result[r] = c
         /\ \A o \in DOMAIN h.result : o # r => Write(h, r, c).result[o] = h.result[o]
         /\ Write(h, r, c).list = h.list /\ Write(h, r, c).sync = h.sync /\ Write(h, r, c).changed = h.changed
         /\ Write(h, r, c).last = h.last /\ Write(h, r, c).staged = h.staged
<1> DEFINE new == [h.result EXCEPT ![r] = c]
<1>1. h.result \in [DOMAIN h.result -> Contents] /\ DOMAIN h.result \subseteq Result
  BY MemoryFields
<1>2. /\ DOMAIN new = DOMAIN h.result /\ new \in [DOMAIN h.result -> Contents] /\ new[r] = c
      /\ \A o \in DOMAIN h.result : o # r => new[o] = h.result[o]
  BY <1>1
<1>3. Write(h, r, c) = [h EXCEPT !.result = new]
  BY DEF Write
<1> HIDE DEF new
<1>4. new \in Heaps
  BY <1>1, <1>2, HeapIsFunction
<1>5. /\ [h EXCEPT !.result = new] \in Memory /\ [h EXCEPT !.result = new].result = new
      /\ [h EXCEPT !.result = new].list = h.list /\ [h EXCEPT !.result = new].sync = h.sync
      /\ [h EXCEPT !.result = new].changed = h.changed /\ [h EXCEPT !.result = new].last = h.last
      /\ [h EXCEPT !.result = new].staged = h.staged
  BY <1>4 DEF Memory
<1> QED BY <1>2, <1>3, <1>5

(* Where the result stands stays, and only it may have been left untold.    *)
LEMMA WriteKeeps ==
  ASSUME BrowseTypeOK, NEW h, NEW X, Mid(h, X), NEW r \in DOMAIN h.result,
         NEW c \in Contents, c.instance = h.result[r].instance
  PROVE  /\ Mid(Write(h, r, c), X \cup {r}) /\ DOMAIN Write(h, r, c).result = DOMAIN h.result
         /\ Write(h, r, c).list = h.list /\ Write(h, r, c).sync = h.sync
<1> DEFINE w == Write(h, r, c)
<1>1. /\ w \in Memory /\ DOMAIN w.result = DOMAIN h.result /\ w.result[r] = c
      /\ \A o \in DOMAIN h.result : o # r => w.result[o] = h.result[o]
      /\ w.list = h.list /\ w.sync = h.sync /\ w.changed = h.changed /\ w.last = h.last /\ w.staged = h.staged
  BY WriteFields DEF Mid
<1> HIDE DEF w
<1>2. \A o \in DOMAIN h.result : w.result[o].instance = h.result[o].instance
  BY <1>1
<1>3. Whole(w)
  <2>1. HasNothingFreed(w) /\ HasWhatIsListed(w) /\ HasNoIdle(w) /\ HasListsApart(w)
    BY <1>1 DEF Mid, Whole, HasNothingFreed, HasWhatIsListed, HasNoIdle, HasListsApart
  <2>2. ASSUME NEW b \in Browse, NEW o \in ToSet(w.list[b]) PROVE o \in DOMAIN h.result
    <3>1. h.list[b] \in Seq(Result) /\ o \in ToSet(h.list[b]) /\ o \in Result
      BY <1>1, <2>2, MemoryFields DEF Mid, ToSet
    <3>2. b \in Chain
      <4> SUFFICES ASSUME b \notin Chain PROVE FALSE
        OBVIOUS
      <4>1. h.list[b] = <<>>
        BY DEF Mid, Whole, HasNoIdle
      <4> QED BY <3>1, <4>1, EmptyList
    <3> QED BY <3>1, <3>2 DEF Mid, Whole, HasWhatIsListed
  <2>3. HasOneOfInstance(w)
    BY <1>1, <1>2, <2>2 DEF Mid, Whole, HasOneOfInstance
  <2> QED BY <2>1, <2>3 DEF Whole
<1>4. Bound(w)
  BY <1>1 DEF Mid, Bound
<1>5. Grown(w)
  BY <1>1, <1>2 DEF Mid, Grown
<1>6. Heard(w, X \cup {r})
  BY <1>1 DEF Mid, Heard
<1> QED BY <1>1, <1>3, <1>4, <1>5, <1>6 DEF Mid, w

(* A write without a word                                                   *)
LEMMA SilentKeeps ==
  ASSUME NEW h, NEW r \in DOMAIN h.result, Mid(h, {r}),
         r \in ToSet(h.changed) \/ (r \in DOMAIN result /\ Says(result[r], h.result[r]))
  PROVE  Mid(h, {})
<1>1. Heard(h, {})
  BY DEF Mid, Heard
<1> QED BY <1>1 DEF Mid

(* With a word                                                              *)
LEMMA AddKeeps ==
  ASSUME BrowseTypeOK, NEW h, NEW r, Mid(h, {r}), h.sync # None, r \in ToSet(h.list[h.sync])
  PROVE  /\ Mid(add_browse_result(h, r), {})
         /\ add_browse_result(h, r).result = h.result
         /\ add_browse_result(h, r).list = h.list /\ add_browse_result(h, r).sync = h.sync
<1>1. CASE r \in ToSet(h.changed)
  <2>1. add_browse_result(h, r) = h
    BY <1>1 DEF add_browse_result
  <2>2. Heard(h, {})
    BY <1>1 DEF Mid, Heard
  <2> QED BY <2>1, <2>2 DEF Mid
<1>2. CASE r \notin ToSet(h.changed)
  <2> DEFINE new == <<r>> \o h.changed
             w == [h EXCEPT !.changed = new]
  <2>1. add_browse_result(h, r) = w
    BY <1>2 DEF add_browse_result
  <2>2. h \in Memory /\ h.changed \in Seq(Result) /\ h.list \in [Browse -> Seq(Result)] /\ h.sync \in Browse
    BY MemoryFields DEF Mid
  <2>3. r \in Result
    BY <2>2 DEF ToSet
  <2>4. new \in Seq(Result) /\ ToSet(new) = ToSet(h.changed) \cup {r}
    BY <2>2, <2>3, PrependElements
  <2> HIDE DEF new
  <2>5. /\ w \in Memory /\ w.changed = new /\ w.result = h.result /\ w.list = h.list /\ w.sync = h.sync
        /\ w.last = h.last /\ w.staged = h.staged
    BY <2>2, <2>4 DEF Memory
  <2> HIDE DEF w
  <2>6. Whole(w)
    BY <2>5 DEF Mid, Whole, HasNothingFreed, HasWhatIsListed, HasNoIdle, HasListsApart, HasOneOfInstance
  <2>7. Bound(w) /\ Grown(w) /\ Heard(w, {})
    BY <2>4, <2>5 DEF Mid, Bound, Grown, Heard
  <2> QED BY <2>1, <2>5, <2>6, <2>7 DEF Mid
<1> QED BY <1>1, <1>2

(* Whoever is in a list is live, and the list is that of a running browse.  *)
LEMMA ListedIsLive ==
  ASSUME NEW h, NEW X, Mid(h, X), NEW b \in Browse, NEW r \in ToSet(h.list[b])
  PROVE  r \in DOMAIN h.result /\ r \in Result /\ b \in Chain
<1>1. h.list[b] \in Seq(Result)
  BY MemoryFields DEF Mid
<1>2. r \in Result
  BY <1>1 DEF ToSet
<1>3. b \in Chain
  <2> SUFFICES ASSUME b \notin Chain PROVE FALSE
    OBVIOUS
  <2>1. h.list[b] = <<>>
    BY DEF Mid, Whole, HasNoIdle
  <2> QED BY <1>1, <2>1, EmptyList
<1> QED BY <1>2, <1>3 DEF Mid, Whole, HasWhatIsListed

(* A new result of an instance that has none                                *)
LEMMA AddResultKeeps ==
  ASSUME BrowseTypeOK, NEW h, Mid(h, {}), NEW b \in Chain, h.sync = b,
         NEW r \in Result, r \notin freed, r \notin DOMAIN h.result, NEW c \in Contents,
         \A o \in ToSet(h.list[b]) : h.result[o].instance # c.instance
  PROVE  Mid(AddResult(h, b, r, c), {})
<1> DEFINE grown == [o \in DOMAIN h.result \cup {r} |-> IF o = r THEN c ELSE h.result[o]]
           longer == <<r>> \o h.list[b]
           lists == [h.list EXCEPT ![b] = longer]
           w == [h EXCEPT !.result = grown, !.list = lists]
<1>1. b \in Browse /\ None \notin Browse
  BY ChainInBrowse
<1>2. /\ DOMAIN h.result \subseteq Result /\ h.result \in [DOMAIN h.result -> Contents]
      /\ h.list \in [Browse -> Seq(Result)] /\ h \in Memory
  BY MemoryFields DEF Mid
<1>3. longer \in Seq(Result) /\ ToSet(longer) = ToSet(h.list[b]) \cup {r}
  BY <1>1, <1>2, PrependElements
<1>4. AddResult(h, b, r, c) = add_browse_result(w, r)
  BY DEF AddResult
<1>5. /\ grown \in [DOMAIN h.result \cup {r} -> Contents] /\ DOMAIN grown = DOMAIN h.result \cup {r}
      /\ grown[r] = c /\ \A o \in DOMAIN h.result : grown[o] = h.result[o]
  BY <1>2
<1> HIDE DEF longer, grown
<1>6. /\ lists \in [Browse -> Seq(Result)] /\ lists[b] = longer
      /\ \A d \in Browse : d # b => lists[d] = h.list[d]
  BY <1>1, <1>2, <1>3
<1> HIDE DEF lists
<1>7. grown \in Heaps
  BY <1>2, <1>5, HeapIsFunction
<1>8. /\ w \in Memory /\ w.result = grown /\ w.list = lists /\ w.sync = b
      /\ w.changed = h.changed /\ w.last = h.last /\ w.staged = h.staged
  BY <1>2, <1>6, <1>7 DEF Memory
<1> HIDE DEF w
<1>9. \A d \in Browse : ToSet(w.list[d]) = IF d = b THEN ToSet(h.list[d]) \cup {r} ELSE ToSet(h.list[d])
  BY <1>3, <1>6, <1>8
<1>10. \A d \in Browse : r \notin ToSet(h.list[d])
  BY ListedIsLive
<1>11. DOMAIN w.result = DOMAIN h.result \cup {r}
  BY <1>5, <1>8
<1>12. Whole(w)
  <2>1. HasNothingFreed(w)
    BY <1>11 DEF Mid, Whole, HasNothingFreed
  <2>2. HasWhatIsListed(w)
    BY <1>1, <1>9, <1>11, ChainInBrowse DEF Mid, Whole, HasWhatIsListed
  <2>3. HasNoIdle(w)
    BY <1>6, <1>8 DEF Mid, Whole, HasNoIdle
  <2>4. HasListsApart(w)
    BY <1>9, <1>10 DEF Mid, Whole, HasListsApart
  <2>5. HasOneOfInstance(w)
    <3> SUFFICES ASSUME NEW d \in Browse, NEW o \in ToSet(w.list[d]), NEW p \in ToSet(w.list[d]),
                        w.result[o].instance = w.result[p].instance
                 PROVE  o = p
      BY DEF HasOneOfInstance
    <3>1. ASSUME NEW q \in ToSet(h.list[d]) PROVE w.result[q] = h.result[q] /\ q # r
      <4>1. q \in DOMAIN h.result
        BY ListedIsLive
      <4> QED BY <1>5, <1>8, <4>1
    <3>2. CASE o \in ToSet(h.list[d]) /\ p \in ToSet(h.list[d])
      BY <3>1, <3>2 DEF Mid, Whole, HasOneOfInstance
    <3>3. CASE o \notin ToSet(h.list[d]) \/ p \notin ToSet(h.list[d])
      <4>1. d = b /\ w.result[r] = c
        BY <1>5, <1>8, <1>9, <3>3
      <4>2. \A q \in ToSet(h.list[d]) : w.result[q].instance # w.result[r].instance
        BY <3>1, <4>1
      <4>3. (o = r \/ o \in ToSet(h.list[d])) /\ (p = r \/ p \in ToSet(h.list[d]))
        BY <1>9, <4>1
      <4> QED BY <3>3, <4>2, <4>3
    <3> QED BY <3>2, <3>3
  <2> QED BY <2>1, <2>2, <2>3, <2>4, <2>5 DEF Whole
<1>13. Bound(w)
  BY <1>1, <1>8, <1>9 DEF Mid, Bound
<1>14. Grown(w)
  <2>1. \A o \in DOMAIN result : o \in DOMAIN w.result /\ w.result[o].instance = result[o].instance
    BY <1>5, <1>8 DEF Mid, Grown
  <2> QED BY <1>9, <2>1 DEF Mid, Grown
<1>15. Heard(w, {r})
  BY <1>5, <1>8, <1>11 DEF Mid, Heard
<1>16. Mid(w, {r}) /\ w.sync # None /\ r \in ToSet(w.list[w.sync])
  BY <1>1, <1>8, <1>9, <1>12, <1>13, <1>14, <1>15 DEF Mid
<1> QED BY <1>4, <1>16, AddKeeps

LEMMA NewResultKeeps ==
  ASSUME BrowseTypeOK, NEW h, Mid(h, {}), NEW b \in Chain, h.sync = b, NEW c \in Contents,
         \A o \in ToSet(h.list[b]) : h.result[o].instance # c.instance
  PROVE  Mid(NewResult(h, b, c), {})
<1> DEFINE unused == Result \ (freed \cup DOMAIN h.result)
<1>1. CASE unused = {}
  <2>1. NewResult(h, b, c) = h
    BY <1>1 DEF NewResult
  <2> QED BY <2>1
<1>2. CASE unused # {}
  <2>1. PICK r : r = CHOOSE o \in unused : TRUE
    OBVIOUS
  <2>2. r \in Result /\ r \notin freed /\ r \notin DOMAIN h.result
    BY <1>2, <2>1
  <2>3. NewResult(h, b, c) = AddResult(h, b, r, c)
    BY <1>2, <2>1 DEF NewResult
  <2> QED BY <2>2, <2>3, AddResultKeeps
<1> QED BY <1>1, <1>2

(* The result of an instance, if it has one                                 *)
LEMMA ResultOfIsListed ==
  ASSUME BrowseTypeOK, NEW h, NEW X, Mid(h, X), NEW b \in Chain, NEW instance, NEW r, r = ResultOf(h, b, instance)
  PROVE  /\ r = None => \A o \in ToSet(h.list[b]) : h.result[o].instance # instance
         /\ r # None => r \in DOMAIN h.result /\ r \in ToSet(h.list[b]) /\ h.result[r].instance = instance
<1>1. b \in Browse /\ h.list[b] \in Seq(Result)
  BY ChainInBrowse, MemoryFields DEF Mid
<1> DEFINE E == {o \in DOMAIN h.result : h.result[o].instance = instance}
<1>2. r = FirstOf(h.list[b], E, None)
  BY DEF ResultOf
<1> HIDE DEF E
<1>3. \/ r \in ToSet(h.list[b]) /\ r \in E
      \/ r = None /\ ToSet(h.list[b]) \cap E = {}
  BY <1>1, <1>2, FirstOfIsMember
<1>4. \A o \in ToSet(h.list[b]) : o \in DOMAIN h.result /\ o \in Result
  BY <1>1, ListedIsLive
<1> QED BY <1>3, <1>4, NoneIsNothing DEF E

LEMMA ResultOfIsMissing ==
  ASSUME BrowseTypeOK, NEW h, NEW X, Mid(h, X), NEW b \in Chain, NEW instance, ResultOf(h, b, instance) = None,
         NEW o \in ToSet(h.list[b])
  PROVE  h.result[o].instance # instance
<1>1. PICK r : r = ResultOf(h, b, instance)
  OBVIOUS
<1>2. r = None => \A p \in ToSet(h.list[b]) : h.result[p].instance # instance
  BY <1>1, ResultOfIsListed
<1> QED BY <1>1, <1>2

(* Every content of a result is a record of these.                          *)
LEMMA ContentFields ==
  ASSUME NEW c \in Contents, NEW rec \in Records
  PROVE  /\ [c EXCEPT !.ttl = UpdatedTtl(@, rec.ttl)] \in Contents
         /\ [c EXCEPT !.hostname = rec.hostname] \in Contents
         /\ [c EXCEPT !.txt = rec.txt] \in Contents
         /\ [c EXCEPT !.addr = @ \cup {rec.ip}, !.ttl = UpdatedTtl(@, rec.ttl)] \in Contents
         /\ [c EXCEPT !.ttl = UpdatedTtl(@, rec.ttl)].instance = c.instance
         /\ [c EXCEPT !.hostname = rec.hostname].instance = c.instance
         /\ [c EXCEPT !.txt = rec.txt].instance = c.instance
         /\ [c EXCEPT !.addr = @ \cup {rec.ip}, !.ttl = UpdatedTtl(@, rec.ttl)].instance = c.instance
<1> DEFINE Hosts == {q.hostname : q \in Records} \cup {None}
           Ips == {q.ip : q \in Records}
           Txts == {q.txt : q \in Records} \cup {None}
           Ttls == {q.ttl : q \in Records}
<1>1. Contents = [instance : Instances, hostname : Hosts, addr : SUBSET Ips, txt : Txts, ttl : Ttls]
  BY DEF Contents
<1>2. rec.hostname \in Hosts /\ rec.ip \in Ips /\ rec.txt \in Txts /\ rec.ttl \in Ttls
  OBVIOUS
<1> HIDE DEF Hosts, Ips, Txts, Ttls
<1>3. PICK new : new = UpdatedTtl(c.ttl, rec.ttl)
  OBVIOUS
<1>4. new \in Ttls
  BY <1>1, <1>2, <1>3 DEF UpdatedTtl
<1> QED BY <1>1, <1>2, <1>3, <1>4

LEMMA SetTtlKeeps ==
  ASSUME BrowseTypeOK, NEW h, Mid(h, {}), h.sync # None, NEW r \in ToSet(h.list[h.sync]), NEW rec \in Records
  PROVE  Mid(SetTtl(h, r, rec.ttl), {})
<1> DEFINE new == [h.result[r] EXCEPT !.ttl = UpdatedTtl(@, rec.ttl)]
<1>1. h.sync \in Browse
  BY MemoryFields DEF Mid
<1>2. r \in DOMAIN h.result
  BY <1>1, ListedIsLive
<1>3. h.result[r] \in Contents
  BY <1>2, MemoryFields DEF Mid
<1>4. new \in Contents /\ new.instance = h.result[r].instance
  BY <1>3, ContentFields
<1>5. SetTtl(h, r, rec.ttl) = IF new = h.result[r] THEN h ELSE add_browse_result(Write(h, r, new), r)
  BY DEF SetTtl
<1> HIDE DEF new
<1>6. PICK w : w = Write(h, r, new)
  OBVIOUS
<1>7. Mid(w, {} \cup {r}) /\ w.list = h.list /\ w.sync = h.sync
  BY <1>2, <1>4, <1>6, WriteKeeps
<1>8. Mid(w, {r})
  <2>1. {} \cup {r} = {r}
    OBVIOUS
  <2> QED BY <1>7, <2>1
<1>9. Mid(add_browse_result(w, r), {})
  BY <1>7, <1>8, AddKeeps
<1> QED BY <1>5, <1>6, <1>9

LEMMA MoveToKeeps ==
  ASSUME BrowseTypeOK, NEW h, Mid(h, {}), NEW b \in Chain, h.sync = b,
         NEW r \in ToSet(h.list[b]), NEW rec \in Records
  PROVE  /\ Mid(MoveTo(h, b, r, rec.hostname), {})
         /\ MoveTo(h, b, r, rec.hostname).list = h.list /\ MoveTo(h, b, r, rec.hostname).sync = b
<1> DEFINE moved == [h.result[r] EXCEPT !.hostname = rec.hostname]
<1>1. b \in Browse /\ h.sync # None
  BY ChainInBrowse
<1>2. r \in DOMAIN h.result /\ h.result[r] \in Contents
  BY <1>1, ListedIsLive, MemoryFields DEF Mid
<1>3. moved \in Contents /\ moved.instance = h.result[r].instance
  BY <1>2, ContentFields
<1>4. CASE h.result[r].hostname = rec.hostname
  BY <1>4 DEF MoveTo
<1>5. CASE h.result[r].hostname # rec.hostname
  <2>1. MoveTo(h, b, r, rec.hostname) = add_browse_result(copy_address_in_previous_result(Write(h, r, moved), b, r), r)
    BY <1>5 DEF MoveTo
  <2> HIDE DEF moved
  <2>2. PICK w : w = Write(h, r, moved)
    OBVIOUS
  <2>3. Mid(w, {} \cup {r}) /\ DOMAIN w.result = DOMAIN h.result /\ w.list = h.list /\ w.sync = h.sync
    BY <1>2, <1>3, <2>2, WriteKeeps
  <2>4. Mid(w, {r})
    <3>1. {} \cup {r} = {r}
      OBVIOUS
    <3> QED BY <2>3, <3>1
  <2>5. PICK other : other = FirstOf(w.list[b], {o \in DOMAIN w.result : /\ w.result[o].hostname = w.result[r].hostname
                                                                         /\ w.result[o].addr # {}}, None)
    OBVIOUS
  <2>6. PICK c : c = copy_address_in_previous_result(w, b, r)
    OBVIOUS
  <2>7. /\ c = w \/ (other # None /\ c = Write(w, r, [w.result[r] EXCEPT !.addr = w.result[other].addr]))
    BY <2>5, <2>6 DEF copy_address_in_previous_result
  <2>8. w.list[b] \in Seq(Result) /\ w.result \in [DOMAIN w.result -> Contents]
    BY <1>1, <2>3, MemoryFields DEF Mid
  <2>9. other = None \/ other \in DOMAIN w.result
    <3> DEFINE E == {o \in DOMAIN w.result : w.result[o].hostname = w.result[r].hostname /\ w.result[o].addr # {}}
    <3>1. other = FirstOf(w.list[b], E, None)
      BY <2>5
    <3>2. E \subseteq DOMAIN w.result
      OBVIOUS
    <3> HIDE DEF E
    <3> QED BY <2>8, <3>1, <3>2, FirstOfIsMember
  <2>10. Mid(c, {r}) /\ c.list = h.list /\ c.sync = h.sync
    <3>1. CASE c = w
      BY <2>3, <2>4, <3>1
    <3>2. CASE other # None /\ c = Write(w, r, [w.result[r] EXCEPT !.addr = w.result[other].addr])
      <4>1. w.result[other] \in Contents /\ w.result[r] \in Contents /\ r \in DOMAIN w.result
        BY <1>2, <2>3, <2>8, <2>9, <3>2
      <4>2. PICK v : v = [w.result[r] EXCEPT !.addr = w.result[other].addr]
        OBVIOUS
      <4>3. v \in Contents /\ v.instance = w.result[r].instance
        BY <4>1, <4>2 DEF Contents
      <4>4. Mid(c, {r} \cup {r}) /\ c.list = w.list /\ c.sync = w.sync
        BY <2>4, <3>2, <4>1, <4>2, <4>3, WriteKeeps
      <4>5. {r} \cup {r} = {r}
        OBVIOUS
      <4> QED BY <2>3, <4>4, <4>5
    <3> QED BY <2>7, <3>1, <3>2
  <2>11. c.sync # None /\ r \in ToSet(c.list[c.sync])
    BY <1>1, <2>10
  <2>12. /\ Mid(add_browse_result(c, r), {}) /\ add_browse_result(c, r).list = c.list
         /\ add_browse_result(c, r).sync = c.sync
    BY <2>10, <2>11, AddKeeps
  <2> QED BY <2>1, <2>2, <2>6, <2>10, <2>12
<1> QED BY <1>4, <1>5

LEMMA SetTxtKeeps ==
  ASSUME BrowseTypeOK, NEW h, Mid(h, {}), NEW b \in Chain, h.sync = b,
         NEW r \in ToSet(h.list[b]), NEW rec \in Records
  PROVE  Mid(SetTxt(h, r, rec.txt), {}) /\ SetTxt(h, r, rec.txt).list = h.list /\ SetTxt(h, r, rec.txt).sync = b
<1> DEFINE new == [h.result[r] EXCEPT !.txt = rec.txt]
<1>1. b \in Browse /\ h.sync # None
  BY ChainInBrowse
<1>2. r \in DOMAIN h.result /\ h.result[r] \in Contents
  BY <1>1, ListedIsLive, MemoryFields DEF Mid
<1>3. new \in Contents /\ new.instance = h.result[r].instance
  BY <1>2, ContentFields
<1>4. PICK w : w = Write(h, r, new)
  OBVIOUS
<1>5. SetTxt(h, r, rec.txt) = IF h.result[r].txt \in {None, rec.txt} THEN w ELSE add_browse_result(w, r)
  BY <1>4 DEF SetTxt
<1>6. \A said : Says(said, h.result[r]) /\ h.result[r].txt \in {None, rec.txt} => Says(said, new)
  BY <1>2 DEF Says, Contents
<1> HIDE DEF new
<1>7. Mid(w, {} \cup {r}) /\ w.list = h.list /\ w.sync = h.sync /\ DOMAIN w.result = DOMAIN h.result
  BY <1>2, <1>3, <1>4, WriteKeeps
<1>8. Mid(w, {r})
  <2>1. {} \cup {r} = {r}
    OBVIOUS
  <2> QED BY <1>7, <2>1
<1>9. CASE h.result[r].txt \in {None, rec.txt}
  <2>1. w.result[r] = new /\ w.changed = h.changed
    BY <1>2, <1>3, <1>4, WriteFields DEF Mid
  <2>2. r \in ToSet(h.changed) \/ (r \in DOMAIN result /\ Says(result[r], h.result[r]))
    BY <1>2 DEF Mid, Heard
  <2>3. r \in ToSet(w.changed) \/ (r \in DOMAIN result /\ Says(result[r], w.result[r]))
    BY <1>6, <1>9, <2>1, <2>2
  <2>4. Mid(w, {})
    BY <1>2, <1>7, <1>8, <2>3, SilentKeeps
  <2> QED BY <1>5, <1>7, <1>9, <2>4
<1>10. CASE h.result[r].txt \notin {None, rec.txt}
  <2>1. w.sync # None /\ r \in ToSet(w.list[w.sync])
    BY <1>1, <1>7
  <2>2. /\ Mid(add_browse_result(w, r), {}) /\ add_browse_result(w, r).list = w.list
        /\ add_browse_result(w, r).sync = w.sync
    BY <1>8, <2>1, AddKeeps
  <2> QED BY <1>5, <1>7, <1>10, <2>2
<1> QED BY <1>9, <1>10

(* The records of an instance                                               *)
LEMMA FirstContents ==
  ASSUME NEW rec \in Records, rec.type # "A"
  PROVE  /\ [Blank EXCEPT !.instance = rec.instance, !.ttl = rec.ttl] \in Contents
         /\ [Blank EXCEPT !.instance = rec.instance, !.hostname = rec.hostname, !.ttl = rec.ttl] \in Contents
         /\ [Blank EXCEPT !.instance = rec.instance, !.txt = rec.txt, !.ttl = rec.ttl] \in Contents
<1> DEFINE Hosts == {q.hostname : q \in Records} \cup {None}
           Ips == {q.ip : q \in Records}
           Txts == {q.txt : q \in Records} \cup {None}
           Ttls == {q.ttl : q \in Records}
<1>1. Contents = [instance : Instances, hostname : Hosts, addr : SUBSET Ips, txt : Txts, ttl : Ttls]
  BY DEF Contents
<1>2. /\ rec.hostname \in Hosts /\ rec.txt \in Txts /\ rec.ttl \in Ttls /\ rec.instance \in Instances
      /\ None \in Hosts /\ None \in Txts
  BY PacketsAreRecords DEF Instances
<1> HIDE DEF Hosts, Ips, Txts, Ttls
<1> QED BY <1>1, <1>2 DEF Blank

LEMMA PtrKeeps ==
  ASSUME BrowseTypeOK, NEW h, Mid(h, {}), NEW b \in Chain, h.sync = b, NEW rec \in Records, rec.type # "A"
  PROVE  Mid(mdns_priv_browse_result_add_ptr(h, b, rec), {})
<1> DEFINE c == [Blank EXCEPT !.instance = rec.instance, !.ttl = rec.ttl]
<1>1. c \in Contents /\ c.instance = rec.instance
  BY FirstContents DEF Blank
<1>2. PICK r : r = ResultOf(h, b, rec.instance)
  OBVIOUS
<1>3. mdns_priv_browse_result_add_ptr(h, b, rec) = IF r = None THEN NewResult(h, b, c) ELSE SetTtl(h, r, rec.ttl)
  BY <1>2 DEF mdns_priv_browse_result_add_ptr
<1> HIDE DEF c
<1>4. b # None
  BY ChainInBrowse
<1>5. CASE r = None
  <2>1. \A o \in ToSet(h.list[b]) : h.result[o].instance # rec.instance
    BY <1>2, <1>5, ResultOfIsMissing
  <2>2. \A o \in ToSet(h.list[b]) : h.result[o].instance # c.instance
    BY <1>1, <2>1
  <2> QED BY <1>1, <1>3, <1>5, <2>2, NewResultKeeps
<1>6. CASE r # None
  <2>1. r \in ToSet(h.list[h.sync])
    BY <1>2, <1>6, ResultOfIsListed
  <2> QED BY <1>3, <1>4, <1>6, <2>1, SetTtlKeeps
<1> QED BY <1>5, <1>6

LEMMA SrvKeeps ==
  ASSUME BrowseTypeOK, NEW h, Mid(h, {}), NEW b \in Chain, h.sync = b, NEW rec \in Records, rec.type # "A"
  PROVE  Mid(mdns_priv_browse_result_add_srv(h, b, rec), {})
<1> DEFINE c == [Blank EXCEPT !.instance = rec.instance, !.hostname = rec.hostname, !.ttl = rec.ttl]
<1>1. c \in Contents /\ c.instance = rec.instance
  BY FirstContents DEF Blank
<1>2. PICK r : r = ResultOf(h, b, rec.instance)
  OBVIOUS
<1>3. mdns_priv_browse_result_add_srv(h, b, rec) =
         IF r = None THEN NewResult(h, b, c) ELSE SetTtl(MoveTo(h, b, r, rec.hostname), r, rec.ttl)
  BY <1>2 DEF mdns_priv_browse_result_add_srv
<1> HIDE DEF c
<1>4. b # None
  BY ChainInBrowse
<1>5. CASE r = None
  <2>1. \A o \in ToSet(h.list[b]) : h.result[o].instance # rec.instance
    BY <1>2, <1>5, ResultOfIsMissing
  <2>2. \A o \in ToSet(h.list[b]) : h.result[o].instance # c.instance
    BY <1>1, <2>1
  <2> QED BY <1>1, <1>3, <1>5, <2>2, NewResultKeeps
<1>6. CASE r # None
  <2>1. r \in ToSet(h.list[b])
    BY <1>2, <1>6, ResultOfIsListed
  <2>2. PICK m : m = MoveTo(h, b, r, rec.hostname)
    OBVIOUS
  <2>3. Mid(m, {}) /\ m.list = h.list /\ m.sync = b
    BY <2>1, <2>2, MoveToKeeps
  <2>4. m.sync # None /\ r \in ToSet(m.list[m.sync])
    BY <1>4, <2>1, <2>3
  <2>5. Mid(SetTtl(m, r, rec.ttl), {})
    BY <2>3, <2>4, SetTtlKeeps
  <2> QED BY <1>3, <1>6, <2>2, <2>5
<1> QED BY <1>5, <1>6

LEMMA TxtKeeps ==
  ASSUME BrowseTypeOK, NEW h, Mid(h, {}), NEW b \in Chain, h.sync = b, NEW rec \in Records, rec.type # "A"
  PROVE  Mid(mdns_priv_browse_result_add_txt(h, b, rec), {})
<1> DEFINE c == [Blank EXCEPT !.instance = rec.instance, !.txt = rec.txt, !.ttl = rec.ttl]
<1>1. c \in Contents /\ c.instance = rec.instance
  BY FirstContents DEF Blank
<1>2. PICK r : r = ResultOf(h, b, rec.instance)
  OBVIOUS
<1>3. mdns_priv_browse_result_add_txt(h, b, rec) =
         IF r = None THEN NewResult(h, b, c) ELSE SetTtl(SetTxt(h, r, rec.txt), r, rec.ttl)
  BY <1>2 DEF mdns_priv_browse_result_add_txt
<1> HIDE DEF c
<1>4. b # None
  BY ChainInBrowse
<1>5. CASE r = None
  <2>1. \A o \in ToSet(h.list[b]) : h.result[o].instance # rec.instance
    BY <1>2, <1>5, ResultOfIsMissing
  <2>2. \A o \in ToSet(h.list[b]) : h.result[o].instance # c.instance
    BY <1>1, <2>1
  <2> QED BY <1>1, <1>3, <1>5, <2>2, NewResultKeeps
<1>6. CASE r # None
  <2>1. r \in ToSet(h.list[b])
    BY <1>2, <1>6, ResultOfIsListed
  <2>2. PICK m : m = SetTxt(h, r, rec.txt)
    OBVIOUS
  <2>3. Mid(m, {}) /\ m.list = h.list /\ m.sync = b
    BY <2>1, <2>2, SetTxtKeeps
  <2>4. m.sync # None /\ r \in ToSet(m.list[m.sync])
    BY <1>4, <2>1, <2>3
  <2>5. Mid(SetTtl(m, r, rec.ttl), {})
    BY <2>3, <2>4, SetTtlKeeps
  <2> QED BY <1>3, <1>6, <2>2, <2>5
<1> QED BY <1>5, <1>6

(* An address, at the end of the packet                                     *)
LEMMA IpKeeps ==
  ASSUME BrowseTypeOK, NEW h, Mid(h, {}), h.sync # None, NEW rec \in Records
  PROVE  Mid(mdns_priv_browse_result_add_ip(h, rec), {}) /\ mdns_priv_browse_result_add_ip(h, rec).sync = h.sync
<1> DEFINE E == {o \in DOMAIN h.result : h.result[o].hostname = rec.hostname /\ rec.ip \notin h.result[o].addr}
           new(r) == [h.result[r] EXCEPT !.addr = @ \cup {rec.ip}, !.ttl = UpdatedTtl(@, rec.ttl)]
<1>1. h.sync \in Browse /\ h.list[h.sync] \in Seq(Result)
  BY MemoryFields DEF Mid
<1>2. PICK r : r = FirstOf(h.list[h.sync], E, None)
  OBVIOUS
<1>3. mdns_priv_browse_result_add_ip(h, rec) = IF r = None THEN h ELSE add_browse_result(Write(h, r, new(r)), r)
  BY <1>2 DEF mdns_priv_browse_result_add_ip
<1>4. E \subseteq DOMAIN h.result
  OBVIOUS
<1> HIDE DEF E
<1>5. CASE r = None
  BY <1>3, <1>5
<1>6. CASE r # None
  <2>1. r \in ToSet(h.list[h.sync]) /\ r \in DOMAIN h.result
    BY <1>1, <1>2, <1>4, <1>6, FirstOfIsMember
  <2>2. h.result[r] \in Contents
    BY <2>1, MemoryFields DEF Mid
  <2>3. new(r) \in Contents /\ new(r).instance = h.result[r].instance
    BY <2>2, ContentFields
  <2> HIDE DEF new
  <2>4. PICK c : c = new(r)
    OBVIOUS
  <2>5. PICK w : w = Write(h, r, c)
    OBVIOUS
  <2>6. Mid(w, {} \cup {r}) /\ w.list = h.list /\ w.sync = h.sync
    BY <2>1, <2>3, <2>4, <2>5, WriteKeeps
  <2>7. Mid(w, {r})
    <3>1. {} \cup {r} = {r}
      OBVIOUS
    <3> QED BY <2>6, <3>1
  <2>8. Mid(add_browse_result(w, r), {}) /\ add_browse_result(w, r).sync = w.sync
    BY <2>1, <2>6, <2>7, AddKeeps
  <2> QED BY <1>3, <1>6, <2>4, <2>5, <2>6, <2>8
<1> QED BY <1>5, <1>6

(* The first browse of the packet gets the SYNC, the last one is kept for   *)
(* the addresses.                                                           *)
LEMMA NotedKeeps ==
  ASSUME BrowseTypeOK, NEW h, Mid(h, {}), NEW b \in Chain
  PROVE  /\ Mid(mdns_priv_browse_ensure_sync([h EXCEPT !.last = b], b), {})
         /\ mdns_priv_browse_ensure_sync([h EXCEPT !.last = b], b).sync # None
         /\ mdns_priv_browse_ensure_sync([h EXCEPT !.last = b], b).last = b
<1>1. b \in Browse /\ b # None /\ h \in Memory
  BY ChainInBrowse DEF Mid
<1>2. PICK s : s = mdns_priv_browse_ensure_sync([h EXCEPT !.last = b], b)
  OBVIOUS
<1>3. /\ s \in Memory /\ s.last = b /\ s.sync = IF h.sync = None THEN b ELSE h.sync
      /\ s.result = h.result /\ s.list = h.list /\ s.changed = h.changed /\ s.staged = h.staged
  <2>1. PICK g : g = [h EXCEPT !.last = b]
    OBVIOUS
  <2>2. /\ g \in Memory /\ g.last = b /\ g.sync = h.sync /\ g.result = h.result /\ g.list = h.list
        /\ g.changed = h.changed /\ g.staged = h.staged
    BY <1>1, <2>1 DEF Memory
  <2>3. s = IF g.sync = None THEN [g EXCEPT !.sync = b] ELSE g
    BY <1>2, <2>1 DEF mdns_priv_browse_ensure_sync
  <2>4. CASE h.sync = None
    <3>1. s = [g EXCEPT !.sync = b]
      BY <2>2, <2>3, <2>4
    <3>2. /\ s \in Memory /\ s.last = g.last /\ s.sync = b /\ s.result = g.result /\ s.list = g.list
          /\ s.changed = g.changed /\ s.staged = g.staged
      BY <1>1, <2>2, <3>1 DEF Memory
    <3> QED BY <2>2, <2>4, <3>2
  <2>5. CASE h.sync # None
    <3>1. s = g
      BY <2>2, <2>3, <2>5
    <3> QED BY <2>2, <2>5, <3>1
  <2> QED BY <2>4, <2>5
<1>4. Whole(s) /\ Grown(s) /\ Heard(s, {})
  <2>1. Whole(h) /\ Grown(h) /\ Heard(h, {})
    BY DEF Mid
  <2>2. Whole(s)
    BY <1>3, <2>1 DEF Whole, HasNothingFreed, HasWhatIsListed, HasNoIdle, HasListsApart, HasOneOfInstance
  <2> QED BY <1>3, <2>1, <2>2 DEF Grown, Heard
<1>5. s.sync \in Chain
  BY <1>3 DEF Mid, Bound
<1>6. Bound(s)
  <2>1. CASE h.sync = None
    <3>1. s.changed = <<>>
      BY <1>3, <2>1 DEF Mid, Bound
    <3>2. ToSet(s.changed) = {}
      BY <1>3, <3>1, MemoryFields, EmptyList
    <3> QED BY <1>1, <1>3, <1>5, <3>2, ChainInBrowse DEF Bound
  <2>2. CASE h.sync # None
    BY <1>1, <1>3, <1>5, <2>2, ChainInBrowse DEF Mid, Bound
  <2> QED BY <2>1, <2>2
<1> QED BY <1>2, <1>3, <1>4, <1>5, <1>6, ChainInBrowse DEF Mid

LEMMA OfInstanceKeeps ==
  ASSUME BrowseTypeOK, NEW h, Mid(h, {}), NEW rec \in Records, rec.type # "A"
  PROVE  Mid(OfInstance(h, rec), {})
<1>1. PICK b : b = OfService(rec.service)
  OBVIOUS
<1>2. PICK s : s = mdns_priv_browse_ensure_sync([h EXCEPT !.last = b], b)
  OBVIOUS
<1>3. b = None \/ b \in Chain
  <2> DEFINE E == {d \in Browse : browse[d].service = rec.service}
  <2>1. b = FirstOf(s_browse, E, None) /\ s_browse \in Seq(Browse)
    BY <1>1 DEF OfService, BrowseTypeOK
  <2> HIDE DEF E
  <2> QED BY <2>1, FirstOfIsMember DEF Chain
<1>4. CASE b = None
  BY <1>1, <1>4 DEF OfInstance
<1>5. CASE b # None
  <2>1. Mid(s, {})
    BY <1>2, <1>3, <1>5, NotedKeeps
  <2>2. CASE s.sync # b
    BY <1>1, <1>2, <1>5, <2>1, <2>2 DEF OfInstance
  <2>3. CASE s.sync = b
    <3>1. /\ Mid(mdns_priv_browse_result_add_ptr(s, b, rec), {})
          /\ Mid(mdns_priv_browse_result_add_srv(s, b, rec), {})
          /\ Mid(mdns_priv_browse_result_add_txt(s, b, rec), {})
      BY <1>3, <1>5, <2>1, <2>3, PtrKeeps, SrvKeeps, TxtKeeps
    <3>2. rec.type \in {"PTR", "SRV", "TXT"}
      BY PacketsAreRecords
    <3>3. OfInstance(h, rec) = CASE rec.type = "PTR" -> mdns_priv_browse_result_add_ptr(s, b, rec)
                                 [] rec.type = "SRV" -> mdns_priv_browse_result_add_srv(s, b, rec)
                                 [] rec.type = "TXT" -> mdns_priv_browse_result_add_txt(s, b, rec)
      BY <1>1, <1>2, <1>5, <2>3 DEF OfInstance
    <3>4. \/ OfInstance(h, rec) = mdns_priv_browse_result_add_ptr(s, b, rec)
          \/ OfInstance(h, rec) = mdns_priv_browse_result_add_srv(s, b, rec)
          \/ OfInstance(h, rec) = mdns_priv_browse_result_add_txt(s, b, rec)
      BY <3>2, <3>3
    <3> QED BY <3>1, <3>4
  <2> QED BY <2>2, <2>3
<1> QED BY <1>4, <1>5

LEMMA StageKeeps ==
  ASSUME BrowseTypeOK, NEW h, Mid(h, {}), NEW rec \in Records
  PROVE  Mid(mdns_priv_browse_stage_ip(h, rec), {})
<1>1. PICK b : b = OfHost(h, rec.hostname)
  OBVIOUS
<1>2. b = None \/ b \in Chain
  <2> DEFINE E == {d \in Browse : \E r \in ToSet(h.list[d]) : h.result[r].hostname = rec.hostname}
  <2>1. b = FirstOf(s_browse, E, None) /\ s_browse \in Seq(Browse)
    BY <1>1 DEF OfHost, BrowseTypeOK
  <2> HIDE DEF E
  <2> QED BY <2>1, FirstOfIsMember DEF Chain
<1>3. PICK s : s = IF b = None THEN h ELSE [h EXCEPT !.last = b]
  OBVIOUS
<1>4. PICK e : e = mdns_priv_browse_ensure_sync(s, s.last)
  OBVIOUS
<1>5. PICK t : t = [e EXCEPT !.staged = <<rec>> \o @]
  OBVIOUS
<1>6. mdns_priv_browse_stage_ip(h, rec) = IF s.last = None THEN s ELSE t
  BY <1>1, <1>3, <1>4, <1>5 DEF mdns_priv_browse_stage_ip
<1>7. CASE s.last = None
  <2>1. b = None
    BY <1>2, <1>3, <1>7, ChainInBrowse DEF Mid, Memory
  <2> QED BY <1>3, <1>6, <1>7, <2>1
<1>8. CASE s.last # None
  <2>1. s.last \in Chain
    <3>1. CASE b = None
      BY <1>3, <1>8, <3>1 DEF Mid, Bound
    <3>2. CASE b # None
      BY <1>2, <1>3, <3>2 DEF Mid, Memory
    <3> QED BY <3>1, <3>2
  <2>2. s = [h EXCEPT !.last = s.last]
    BY <1>3 DEF Mid, Memory
  <2>3. PICK l : l = s.last
    OBVIOUS
  <2>4. Mid(e, {}) /\ e.sync # None
    BY <1>4, <2>1, <2>2, <2>3, NotedKeeps
  <2>5. e.staged \in Seq(Records) /\ <<rec>> \o e.staged \in Seq(Records)
    BY <2>4, MemoryFields, PrependElements DEF Mid
  <2>6. /\ t \in Memory /\ t.result = e.result /\ t.list = e.list /\ t.changed = e.changed
        /\ t.sync = e.sync /\ t.last = e.last
    BY <1>5, <2>4, <2>5 DEF Mid, Memory
  <2>7. Whole(t) /\ Grown(t) /\ Heard(t, {})
    <3>1. Whole(e) /\ Grown(e) /\ Heard(e, {})
      BY <2>4 DEF Mid
    <3>2. Whole(t)
      BY <2>6, <3>1 DEF Whole, HasNothingFreed, HasWhatIsListed, HasNoIdle, HasListsApart, HasOneOfInstance
    <3>3. Grown(t) /\ Heard(t, {})
      BY <2>6, <3>1 DEF Grown, Heard
    <3> QED BY <3>2, <3>3
  <2>8. Bound(t)
    BY <2>4, <2>6 DEF Mid, Bound
  <2> QED BY <1>6, <1>8, <2>6, <2>7, <2>8 DEF Mid
<1> QED BY <1>7, <1>8

LEMMA ReadRecordKeeps ==
  ASSUME BrowseTypeOK, NEW h, Mid(h, {}), NEW rec \in Records
  PROVE  Mid(ReadRecord(h, rec), {})
BY StageKeeps, OfInstanceKeeps DEF ReadRecord

(* The addresses put aside are read in the end.                             *)
LEMMA StagedKeeps ==
  ASSUME BrowseTypeOK, NEW h, Mid(h, {})
  PROVE  Mid(mdns_priv_browse_apply_staged_ips(h), {})
<1> DEFINE n == Len(h.staged)
           H == {g \in Memory : Mid(g, {}) /\ (h.sync # None => g.sync # None)}
           step == [x \in H \X Records |-> IF x[1].sync = None THEN x[1]
                                           ELSE mdns_priv_browse_result_add_ip(x[1], x[2])]
           Then(f, k) == mdns_priv_browse_result_add_ip(f[k - 1], h.staged[k])
           Equation(f) == f = [k \in 0..n |-> IF k = 0 THEN h ELSE Then(f, k)]
           done == CHOOSE f : Equation(f)
<1>1. n \in Nat /\ h.staged \in Seq(Records) /\ \A k \in 1..n : h.staged[k] \in Records
  <2>1. h.staged \in Seq(Records)
    BY MemoryFields DEF Mid
  <2> QED BY <2>1
<1>2. h \in H
  BY DEF Mid
<1>3. step \in [H \X Records -> H]
  <2> SUFFICES ASSUME NEW g \in H, NEW rec \in Records, g.sync # None
               PROVE  mdns_priv_browse_result_add_ip(g, rec) \in H
    OBVIOUS
  <2>1. Mid(mdns_priv_browse_result_add_ip(g, rec), {}) /\ mdns_priv_browse_result_add_ip(g, rec).sync = g.sync
    BY IpKeeps
  <2> QED BY <2>1 DEF Mid
<1>4. \A k \in 1..n : h.sync # None
  <2> SUFFICES ASSUME NEW k \in 1..n, h.sync = None PROVE FALSE
    OBVIOUS
  <2>1. h.staged = <<>>
    BY DEF Mid, Bound
  <2> QED BY <2>1
<1> HIDE DEF step
<1>5. PICK f \in [0..n -> H] : IsWalk(f, step, h, h.staged)
  <2> HIDE DEF H, Then, Equation, done
  <2> QED BY <1>1, <1>2, <1>3, WalkExists
<1>6. \A g \in H, rec \in Records : g.sync # None => step[<<g, rec>>] = mdns_priv_browse_result_add_ip(g, rec)
  BY DEF step
<1>7. \A k \in 1..n : f[k] = Then(f, k)
  <2> SUFFICES ASSUME NEW k \in 1..n PROVE f[k] = Then(f, k)
    OBVIOUS
  <2>1. k - 1 \in 0..n /\ f[k - 1] \in H /\ f[k - 1].sync # None /\ h.staged[k] \in Records
    BY <1>1, <1>4, <1>5
  <2>2. step[<<f[k - 1], h.staged[k]>>] = Then(f, k)
    BY <1>6, <2>1
  <2> QED BY <1>5, <2>2 DEF IsWalk
<1> HIDE DEF H, Then
<1>8. Equation(f)
  <2>1. \A k \in 0..n : k = 0 \/ k \in 1..n
    BY <1>1
  <2>2. f[0] = h
    BY <1>5 DEF IsWalk
  <2>3. \A k \in 0..n : f[k] = IF k = 0 THEN h ELSE Then(f, k)
    BY <1>7, <2>1, <2>2
  <2> QED BY <1>5, <2>3
<1>9. Equation(done)
  <2> HIDE DEF Equation
  <2> QED BY <1>8
<1>10. mdns_priv_browse_apply_staged_ips(h) = IF h.last # h.sync THEN h ELSE done[n]
  BY DEF mdns_priv_browse_apply_staged_ips, Then
<1> HIDE DEF done
<1>11. done[0] = h /\ \A k \in 1..n : done[k] = Then(done, k)
  <2>1. 0 \in 0..n /\ \A k \in 1..n : k \in 0..n /\ k # 0
    BY <1>1
  <2> QED BY <1>9, <2>1
<1> HIDE DEF Equation
<1>12. \A k \in 0..n : done[k] = f[k]
  <2>1. done[0] = f[0]
    BY <1>5, <1>11 DEF IsWalk
  <2>2. \A k \in 1..n : done[k - 1] = f[k - 1] => done[k] = f[k]
    BY <1>7, <1>11 DEF Then
  <2>3. StepAlike(done, f, n)
    BY <2>1, <2>2 DEF StepAlike
  <2> HIDE DEF n
  <2> QED BY <1>1, <2>3, WalksAgree
<1>13. done[n] \in H
  <2>1. n \in 0..n
    BY <1>1
  <2> QED BY <1>5, <1>12, <2>1
<1> QED BY <1>10, <1>13 DEF H

LEMMA UnreadIsGood ==
  ASSUME BrowseTypeOK, Whole(Unread)
  PROVE  Mid(Unread, {})
<1>1. result \in Heaps
  BY HeapIsFunction DEF BrowseTypeOK
<1>2. \A b \in Browse : browse[b].result \in Seq(Result)
  BY DEF BrowseTypeOK
<1>3. Unread \in Memory
  BY <1>1, <1>2 DEF Unread, Memory
<1>4. Bound(Unread)
  BY DEF Bound, Unread
<1>5. Grown(Unread)
  BY DEF Grown, Unread
<1>6. Heard(Unread, {})
  <2> SUFFICES ASSUME NEW r \in DOMAIN result PROVE Says(result[r], result[r])
    BY DEF Heard, Unread
  <2> QED BY DEF Says
<1> QED BY <1>3, <1>4, <1>5, <1>6 DEF Mid

(* A whole packet, or one that breaks                                       *)
LEMMA ReadIsGood ==
  ASSUME BrowseTypeOK, Whole(Unread), NEW p \in Packet
  PROVE  Mid(Read(p), {})
<1> DEFINE n == Len(p.records)
           H == {g \in Memory : Mid(g, {})}
           step == [x \in H \X Records |-> ReadRecord(x[1], x[2])]
           Then(f, k) == ReadRecord(f[k - 1], p.records[k])
           Equation(f) == f = [k \in 0..n |-> IF k = 0 THEN Unread ELSE Then(f, k)]
           read == CHOOSE f : Equation(f)
<1>1. n \in Nat /\ p.records \in Seq(Records) /\ \A k \in 1..n : p.records[k] \in Records
  <2>1. p.records \in Seq(Records)
    BY PacketsAreRecords
  <2> QED BY <2>1
<1>2. Unread \in H
  BY UnreadIsGood DEF Mid
<1>3. step \in [H \X Records -> H]
  <2> SUFFICES ASSUME NEW g \in H, NEW rec \in Records
               PROVE  ReadRecord(g, rec) \in H
    OBVIOUS
  <2>1. Mid(ReadRecord(g, rec), {})
    BY ReadRecordKeeps
  <2> QED BY <2>1 DEF Mid
<1> HIDE DEF step
<1>5. PICK f \in [0..n -> H] : IsWalk(f, step, Unread, p.records)
  <2> HIDE DEF H, Then, Equation, read
  <2> QED BY <1>1, <1>2, <1>3, WalkExists
<1>6. \A g \in H, rec \in Records : step[<<g, rec>>] = ReadRecord(g, rec)
  BY DEF step
<1>7. \A k \in 1..n : f[k] = Then(f, k)
  <2> SUFFICES ASSUME NEW k \in 1..n PROVE f[k] = Then(f, k)
    OBVIOUS
  <2>1. k - 1 \in 0..n /\ f[k - 1] \in H /\ p.records[k] \in Records
    BY <1>1, <1>5
  <2>2. step[<<f[k - 1], p.records[k]>>] = Then(f, k)
    BY <1>6, <2>1
  <2> QED BY <1>5, <2>2 DEF IsWalk
<1> HIDE DEF H, Then
<1>8. Equation(f)
  <2>1. \A k \in 0..n : k = 0 \/ k \in 1..n
    BY <1>1
  <2>2. f[0] = Unread
    BY <1>5 DEF IsWalk
  <2>3. \A k \in 0..n : f[k] = IF k = 0 THEN Unread ELSE Then(f, k)
    BY <1>7, <2>1, <2>2
  <2> QED BY <1>5, <2>3
<1>9. Equation(read)
  <2> HIDE DEF Equation
  <2> QED BY <1>8
<1>10. Read(p) = IF p.broken THEN read[n] ELSE mdns_priv_browse_apply_staged_ips(read[n])
  BY DEF Read, Then
<1> HIDE DEF read
<1>11. read[0] = Unread /\ \A k \in 1..n : read[k] = Then(read, k)
  <2>1. 0 \in 0..n /\ \A k \in 1..n : k \in 0..n /\ k # 0
    BY <1>1
  <2> QED BY <1>9, <2>1
<1> HIDE DEF Equation
<1>12. \A k \in 0..n : read[k] = f[k]
  <2>1. read[0] = f[0]
    BY <1>5, <1>11 DEF IsWalk
  <2>2. \A k \in 1..n : read[k - 1] = f[k - 1] => read[k] = f[k]
    BY <1>7, <1>11 DEF Then
  <2>3. StepAlike(read, f, n)
    BY <2>1, <2>2 DEF StepAlike
  <2> HIDE DEF n
  <2> QED BY <1>1, <2>3, WalksAgree
<1>13. Mid(read[n], {})
  <2>1. n \in 0..n
    BY <1>1
  <2>2. read[n] \in H
    BY <1>5, <1>12, <2>1
  <2> QED BY <2>2 DEF H
<1>14. PICK g : g = read[n]
  OBVIOUS
<1> QED BY <1>10, <1>13, <1>14, StagedKeeps

-----------------------------------------------------------------------------
(* Browsing: the invariant                                                  *)

Kept(b) == ToSet(browse[b].result)
Pending == ToSet(action) \cup ToSet(s_action_queue)

ChainRuns == \A b \in Browse : browse[b].state = "RUNNING" <=> b \in Chain
OneOfService == \A b, c \in Chain : browse[b].service = browse[c].service => b = c
Apart == \A b, c \in Browse : b # c => Kept(b) \cap Kept(c) = {}
KeptAreLive == \A r \in Result : Live(r) <=> \E b \in Chain : r \in Kept(b)
IdleAreEmpty == \A b \in Browse \ Chain : browse[b].result = <<>>
OneOfInstance == \A b \in Browse : \A r, o \in Kept(b) : result[r].instance = result[o].instance => r = o

(* A browse is added once.                                                  *)
OnceEach(queue) == \A k, l \in DOMAIN queue : queue[k].type = "ADD" /\ queue[k] = queue[l] => k = l
AddsAreFresh ==
    /\ \A act \in Pending : act.type = "ADD" => browse[act.browse].state = "INIT"
    /\ OnceEach(s_action_queue)
    /\ action # <<>> /\ Head(action).type = "ADD" => Head(action) \notin ToSet(s_action_queue)

(* A SYNC is of a browse that was added, and its results are there or freed.*)
SyncsAreOwn ==
    \A act \in Pending : act.type = "SYNC" =>
        /\ browse[act.browse].state \in {"RUNNING", "FREED"}
        /\ ToSet(act.results) \subseteq freed \cup Kept(act.browse)

SilentBefore ==
    \A b \in Browse : browse[b].state \in {"UNUSED", "INIT"} => told[b] = [i \in Instances |-> Blank]

WillSay(b, r) == \E act \in Pending : act.type = "SYNC" /\ act.browse = b /\ r \in ToSet(act.results)
UpToDate ==
    \A b \in Chain :
      /\ \A r \in Kept(b) : r \in untold \/ WillSay(b, r) \/ Says(told[b][result[r].instance], result[r])
      /\ \A i \in Instances : told[b][i] # Blank => \E r \in Kept(b) : result[r].instance = i

CacheInv == ChainRuns /\ OneOfService /\ Apart /\ KeptAreLive /\ IdleAreEmpty /\ OneOfInstance
BInv == BrowseTypeOK /\ (~dangled => CacheInv /\ AddsAreFresh /\ SyncsAreOwn /\ SilentBefore /\ UpToDate)

-----------------------------------------------------------------------------
LEMMA ActionFields ==
  ASSUME NEW act \in Actions
  PROVE  /\ act.type \in {"ADD", "END", "RX", "SYNC"}
         /\ act.type = "ADD" => act.browse \in Browse /\ act = [type |-> "ADD", browse |-> act.browse]
         /\ act.type = "END" => act.service \in Service
         /\ act.type = "RX" => act.packet \in Packet
         /\ act.type = "SYNC" => act.browse \in Browse /\ act.results \in Seq(Result)
BY DEF Actions

(* What waits, and what the first of it is                                  *)
LEMMA WaitingIsPending ==
  ASSUME BrowseTypeOK
  PROVE  ToSet(Waiting) = Pending
BY ConcatElements DEF BrowseTypeOK, Waiting, Pending

LEMMA Executed ==
  ASSUME BrowseTypeOK, NEW type, Executes(type)
  PROVE  /\ Head(action) \in Actions /\ Head(action).type = type /\ action' = <<>>
         /\ Pending = {Head(action)} \cup ToSet(s_action_queue) /\ Pending' = ToSet(s_action_queue')
<1>1. action \in Seq(Actions) /\ action # <<>> /\ Len(action) <= 1 /\ action' = <<>> /\ Head(action).type = type
  BY DEF BrowseTypeOK, Executes
<1>2. Tail(action) = <<>>
  BY <1>1
<1>3. ToSet(<<>>) = {}
  BY DEF ToSet
<1>4. ToSet(action) = {Head(action)} \cup {}
  BY <1>1, <1>2, <1>3, HeadAndTail
<1>5. Head(action) \in Actions
  BY <1>1
<1> QED BY <1>1, <1>3, <1>4, <1>5 DEF Pending

LEMMA Queued ==
  ASSUME BrowseTypeOK, NEW act \in Actions, mdns_priv_queue_action(act)
  PROVE  /\ s_action_queue' \in Seq(Actions) /\ Len(s_action_queue') <= MaxQueue
         /\ ToSet(s_action_queue') = ToSet(s_action_queue) \cup {act}
<1>1. s_action_queue \in Seq(Actions) /\ Len(s_action_queue) < MaxQueue /\ s_action_queue' = Append(s_action_queue, act)
  BY DEF BrowseTypeOK, mdns_priv_queue_action, HasRoom
<1>2. /\ s_action_queue' \in Seq(Actions) /\ Len(s_action_queue') = Len(s_action_queue) + 1
      /\ ToSet(s_action_queue') = ToSet(s_action_queue) \cup {act}
  BY <1>1, AppendElements
<1>3. Len(s_action_queue) \in Nat
  BY <1>1
<1> QED BY <1>1, <1>2, <1>3, BoundsAreNumbers

LEMMA OnceAppended ==
  ASSUME NEW queue \in Seq(Actions), NEW act \in Actions, OnceEach(queue),
         act.type = "ADD" => act \notin ToSet(queue)
  PROVE  OnceEach(Append(queue, act))
<1> DEFINE q == Append(queue, act)
           n == Len(queue)
<1>1. n \in Nat /\ DOMAIN queue = 1..n /\ DOMAIN q = 1..n + 1 /\ q[n + 1] = act /\ \A k \in 1..n : q[k] = queue[k]
  OBVIOUS
<1> HIDE DEF q, n
<1>2. \A k \in 1..n + 1 : k = n + 1 \/ k \in 1..n
  BY <1>1
<1>3. act.type = "ADD" => \A k \in 1..n : queue[k] # act
  BY <1>1 DEF ToSet
<1>4. ASSUME NEW k \in 1..n + 1, NEW l \in 1..n + 1, q[k].type = "ADD", q[k] = q[l] PROVE k = l
  <2>1. CASE k \in 1..n /\ l \in 1..n
    BY <1>1, <1>4, <2>1 DEF OnceEach
  <2>2. CASE k = n + 1 \/ l = n + 1
    BY <1>1, <1>2, <1>3, <1>4, <2>2
  <2> QED BY <1>2, <2>1, <2>2
<1> QED BY <1>1, <1>4 DEF OnceEach, q

LEMMA OnceTaken ==
  ASSUME NEW queue \in Seq(Actions), queue # <<>>, OnceEach(queue)
  PROVE  OnceEach(Tail(queue)) /\ (Head(queue).type = "ADD" => Head(queue) \notin ToSet(Tail(queue)))
<1> DEFINE t == Tail(queue)
<1>1. /\ Head(queue) = queue[1] /\ 1 \in DOMAIN queue /\ DOMAIN t \subseteq Nat
      /\ \A k \in DOMAIN t : k >= 1 /\ k + 1 \in DOMAIN queue /\ t[k] = queue[k + 1]
  BY TailElements
<1> HIDE DEF t
<1>2. ASSUME NEW k \in DOMAIN t, NEW l \in DOMAIN t, t[k].type = "ADD", t[k] = t[l] PROVE k = l
  <2>1. k + 1 = l + 1
    BY <1>1, <1>2 DEF OnceEach
  <2> QED BY <1>1, <2>1
<1>3. ASSUME queue[1].type = "ADD", NEW k \in DOMAIN t, t[k] = queue[1] PROVE FALSE
  <2>1. k + 1 = 1
    BY <1>1, <1>3 DEF OnceEach
  <2> QED BY <1>1, <2>1
<1> QED BY <1>1, <1>2, <1>3 DEF OnceEach, ToSet, t

(* The same fields said of the whole record                                 *)
LEMMA SaysIsSame ==
  ASSUME NEW said \in Contents \cup {Blank}, NEW c \in Contents
  PROVE  Says(said, c) <=> said.txt \in {None, c.txt} /\ [said EXCEPT !.txt = c.txt] = c
BY DEF Says, Contents, Blank

-----------------------------------------------------------------------------
(* One step each                                                            *)

LEMMA BInvInit == BrowseInit => BInv
<1> SUFFICES ASSUME BrowseInit PROVE BInv
  OBVIOUS
<1> USE DEF BrowseInit
<1>1. ToSet(<<>>) = {} /\ DOMAIN <<>> = {}
  BY DEF ToSet
<1>2. BrowseTypeOK
  <2>1. \A b \in Browse : browse[b] \in [state : {"UNUSED", "INIT", "RUNNING", "FREED"},
                                         result : Seq(Result), service : Service \cup {None}]
    BY DEF NoBrowse
  <2>2. browse \in [Browse -> [state : {"UNUSED", "INIT", "RUNNING", "FREED"},
                               result : Seq(Result), service : Service \cup {None}]]
    BY <2>1
  <2>3. result \in [DOMAIN result -> Contents]
    BY <1>1
  <2>4. told \in [Browse -> [Instances -> Contents \cup {Blank}]]
    OBVIOUS
  <2>5. DOMAIN result \subseteq Result /\ freed \subseteq Result \ DOMAIN result /\ untold \subseteq DOMAIN result
    BY <1>1
  <2>6. ends \in 0..MaxEnds /\ records \in 0..MaxRecords
    BY BoundsAreNumbers
  <2>8. dangled \in BOOLEAN
    OBVIOUS
  <2>7. /\ s_action_queue \in Seq(Actions) /\ Len(s_action_queue) <= MaxQueue
        /\ action \in Seq(Actions) /\ Len(action) <= 1 /\ s_browse \in Seq(Browse)
    BY BoundsAreNumbers
  <2> QED BY <2>2, <2>3, <2>4, <2>5, <2>6, <2>7, <2>8 DEF BrowseTypeOK
<1>3. Chain = {} /\ Pending = {} /\ \A b \in Browse : Kept(b) = {} /\ browse[b] = NoBrowse("UNUSED")
  BY <1>1 DEF Chain, Pending, Kept, NoBrowse
<1>4. CacheInv
  BY <1>1, <1>3 DEF CacheInv, ChainRuns, OneOfService, Apart, KeptAreLive, Live, IdleAreEmpty, OneOfInstance, NoBrowse
<1>5. AddsAreFresh /\ SyncsAreOwn /\ SilentBefore /\ UpToDate
  BY <1>1, <1>3 DEF AddsAreFresh, OnceEach, SyncsAreOwn, SilentBefore, UpToDate
<1> QED BY <1>2, <1>4, <1>5 DEF BInv

LEMMA CacheUntouched ==
  ASSUME CacheInv, UNCHANGED <<browse, s_browse, result>>
  PROVE  CacheInv'
<1>1. Chain' = Chain /\ \A b : Kept(b)' = Kept(b)
  BY DEF Chain, Kept
<1>2. ChainRuns' /\ OneOfService'
  BY <1>1 DEF CacheInv, ChainRuns, OneOfService
<1>3. Apart' /\ KeptAreLive'
  BY <1>1 DEF CacheInv, Apart, KeptAreLive, Live
<1>4. IdleAreEmpty' /\ OneOfInstance'
  BY <1>1 DEF CacheInv, IdleAreEmpty, OneOfInstance
<1> QED BY <1>2, <1>3, <1>4 DEF CacheInv

(* What only queues an action changes nothing of the rest.                  *)
LEMMA QueueKeeps ==
  ASSUME BInv, ~dangled, NEW act \in Actions, act.type \in {"END", "RX"}, mdns_priv_queue_action(act),
         UNCHANGED <<browse, s_browse, result, freed, action, told, untold, dangled>>,
         ends' \in 0..MaxEnds, records' \in 0..MaxRecords
  PROVE  BInv'
<1>1. /\ BrowseTypeOK /\ CacheInv /\ AddsAreFresh /\ SyncsAreOwn /\ SilentBefore /\ UpToDate
  BY DEF BInv
<1>2. /\ s_action_queue' \in Seq(Actions) /\ Len(s_action_queue') <= MaxQueue
      /\ ToSet(s_action_queue') = ToSet(s_action_queue) \cup {act} /\ s_action_queue' = Append(s_action_queue, act)
  BY <1>1, Queued DEF mdns_priv_queue_action
<1>3. Pending' = Pending \cup {act} /\ Chain' = Chain /\ \A b \in Browse : Kept(b)' = Kept(b)
  BY <1>2 DEF Pending, Chain, Kept
<1>4. BrowseTypeOK'
  BY <1>1, <1>2 DEF BrowseTypeOK
<1>5. CacheInv'
  BY <1>1, CacheUntouched
<1>6. OnceEach(s_action_queue')
  BY <1>1, <1>2, OnceAppended DEF AddsAreFresh, BrowseTypeOK
<1>7. AddsAreFresh'
  BY <1>1, <1>2, <1>3, <1>6 DEF AddsAreFresh
<1>8. SyncsAreOwn'
  <2>1. \A s \in Pending : s.type = "SYNC" => s.browse \in Browse
    BY <1>1, ActionFields DEF Pending, BrowseTypeOK, ToSet
  <2> QED BY <1>1, <1>3, <2>1 DEF SyncsAreOwn
<1>9. SilentBefore' /\ UpToDate'
  <2>1. Chain \subseteq Browse
    BY <1>1, ChainInBrowse
  <2>2. \A b, r : WillSay(b, r) => WillSay(b, r)'
    BY <1>3 DEF WillSay
  <2>3. SilentBefore'
    BY <1>1 DEF SilentBefore
  <2>4. UpToDate'
    BY <1>1, <1>3, <2>1, <2>2 DEF UpToDate
  <2> QED BY <2>3, <2>4
<1> QED BY <1>4, <1>5, <1>7, <1>8, <1>9 DEF BInv

LEMMA DeleteKeeps ==
  ASSUME BInv, ~dangled, NEW service \in Service, mdns_browse_delete(service)
  PROVE  BInv'
<1> DEFINE act == [type |-> "END", service |-> service]
<1>1. act \in Actions /\ act.type = "END"
  BY DEF Actions
<1>2. mdns_priv_queue_action(act)
  BY DEF mdns_browse_delete
<1>3. ends' \in 0..MaxEnds /\ records' \in 0..MaxRecords
  BY BoundsAreNumbers DEF BInv, BrowseTypeOK, mdns_browse_delete
<1>4. UNCHANGED <<browse, s_browse, result, freed, action, told, untold, dangled>>
  BY DEF mdns_browse_delete
<1> HIDE DEF act
<1> QED BY <1>1, <1>2, <1>3, <1>4, QueueKeeps

LEMMA ArrivalKeeps ==
  ASSUME BInv, ~dangled, NEW p \in Packet, PacketArrives(p)
  PROVE  BInv'
<1> DEFINE act == [type |-> "RX", packet |-> p]
<1>1. act \in Actions /\ act.type = "RX"
  BY DEF Actions
<1>2. mdns_priv_queue_action(act)
  BY DEF PacketArrives
<1>3. ends' \in 0..MaxEnds /\ records' \in 0..MaxRecords
  <2>1. Len(p.records) \in Nat
    BY PacketsAreRecords
  <2> QED BY <2>1, BoundsAreNumbers DEF BInv, BrowseTypeOK, PacketArrives
<1>4. UNCHANGED <<browse, s_browse, result, freed, action, told, untold, dangled>>
  BY DEF PacketArrives
<1> HIDE DEF act
<1> QED BY <1>1, <1>2, <1>3, <1>4, QueueKeeps

LEMMA NewKeeps ==
  ASSUME BInv, ~dangled, NEW b \in Browse, NEW service \in Service, mdns_browse_new(b, service)
  PROVE  BInv'
<1> DEFINE act == [type |-> "ADD", browse |-> b]
<1>1. /\ BrowseTypeOK /\ CacheInv /\ AddsAreFresh /\ SyncsAreOwn /\ SilentBefore /\ UpToDate
  BY DEF BInv
<1>2. act \in Actions /\ act.type = "ADD" /\ act.browse = b
  BY DEF Actions
<1>3. /\ mdns_priv_queue_action(act) /\ browse[b].state = "UNUSED"
      /\ browse' = [browse EXCEPT ![b] = [@ EXCEPT !.state = "INIT", !.service = service]]
      /\ UNCHANGED <<s_browse, result, freed, action, told, untold, dangled, ends, records>>
  BY DEF mdns_browse_new
<1> HIDE DEF act
<1>4. /\ s_action_queue' \in Seq(Actions) /\ Len(s_action_queue') <= MaxQueue
      /\ ToSet(s_action_queue') = ToSet(s_action_queue) \cup {act} /\ s_action_queue' = Append(s_action_queue, act)
  BY <1>1, <1>2, <1>3, Queued DEF mdns_priv_queue_action
<1>5. /\ browse' \in [Browse -> [state : {"UNUSED", "INIT", "RUNNING", "FREED"},
                                 result : Seq(Result), service : Service \cup {None}]]
      /\ browse'[b].state = "INIT" /\ browse'[b].result = browse[b].result
      /\ \A c \in Browse : c # b => browse'[c] = browse[c]
  BY <1>1, <1>3 DEF BrowseTypeOK
<1>6. Pending' = Pending \cup {act} /\ Chain' = Chain /\ \A c \in Browse : Kept(c)' = Kept(c)
  BY <1>3, <1>4, <1>5 DEF Pending, Chain, Kept
<1>7. BrowseTypeOK'
  BY <1>1, <1>3, <1>4, <1>5 DEF BrowseTypeOK
<1>8. b \notin Chain /\ Chain \subseteq Browse
  BY <1>1, <1>3, ChainInBrowse DEF CacheInv, ChainRuns
<1>9. CacheInv'
  <2>1. ChainRuns' /\ OneOfService'
    BY <1>1, <1>3, <1>5, <1>6, <1>8 DEF CacheInv, ChainRuns, OneOfService
  <2>2. Apart' /\ KeptAreLive'
    BY <1>1, <1>3, <1>6, <1>8 DEF CacheInv, Apart, KeptAreLive, Live
  <2>3. IdleAreEmpty' /\ OneOfInstance'
    BY <1>1, <1>3, <1>5, <1>6 DEF CacheInv, IdleAreEmpty, OneOfInstance
  <2> QED BY <2>1, <2>2, <2>3 DEF CacheInv
<1>10. act \notin Pending
  BY <1>1, <1>2, <1>3 DEF AddsAreFresh
<1>11. OnceEach(s_action_queue')
  BY <1>1, <1>2, <1>4, <1>10, OnceAppended DEF AddsAreFresh, BrowseTypeOK, Pending
<1>12. \A a \in Pending : a \in Actions
  BY <1>1 DEF Pending, BrowseTypeOK, ToSet
<1>13. AddsAreFresh'
  <2>1. \A a \in Pending' : a.type = "ADD" => browse'[a.browse].state = "INIT"
    <3> SUFFICES ASSUME NEW a \in Pending, a.type = "ADD" PROVE browse'[a.browse].state = "INIT"
      BY <1>2, <1>5, <1>6
    <3>1. a.browse \in Browse /\ browse[a.browse].state = "INIT"
      BY <1>1, <1>12, ActionFields DEF AddsAreFresh
    <3> QED BY <1>5, <3>1
  <2>2. action' # <<>> /\ Head(action').type = "ADD" => Head(action') \notin ToSet(s_action_queue')
    <3> SUFFICES ASSUME action # <<>>, Head(action).type = "ADD" PROVE Head(action) \notin ToSet(s_action_queue) \cup {act}
      BY <1>3, <1>4
    <3>1. Head(action) \in Pending
      BY <1>1, HeadAndTail DEF Pending, BrowseTypeOK
    <3> QED BY <1>1, <1>10, <3>1 DEF AddsAreFresh
  <2> QED BY <1>11, <2>1, <2>2 DEF AddsAreFresh
<1>14. SyncsAreOwn'
  <2> SUFFICES ASSUME NEW a \in Pending, a.type = "SYNC"
               PROVE  /\ browse'[a.browse].state \in {"RUNNING", "FREED"}
                      /\ ToSet(a.results) \subseteq freed' \cup Kept(a.browse)'
    BY <1>2, <1>6 DEF SyncsAreOwn
  <2>1. a.browse \in Browse /\ a.browse # b
    BY <1>1, <1>3, <1>12, ActionFields DEF SyncsAreOwn
  <2> QED BY <1>1, <1>3, <1>5, <1>6, <2>1 DEF SyncsAreOwn
<1>15. SilentBefore'
  BY <1>1, <1>3, <1>5 DEF SilentBefore
<1>16. UpToDate'
  <2>1. \A c, r : WillSay(c, r) => WillSay(c, r)'
    BY <1>6 DEF WillSay
  <2> QED BY <1>1, <1>3, <1>6, <1>8, <2>1 DEF UpToDate
<1> QED BY <1>7, <1>9, <1>13, <1>14, <1>15, <1>16 DEF BInv

LEMMA TakeKeeps ==
  ASSUME BInv, ~dangled, ServiceTakes
  PROVE  BInv'
<1>1. /\ BrowseTypeOK /\ CacheInv /\ AddsAreFresh /\ SyncsAreOwn /\ SilentBefore /\ UpToDate
  BY DEF BInv
<1>2. /\ action = <<>> /\ s_action_queue # <<>> /\ action' = <<Head(s_action_queue)>>
      /\ s_action_queue' = Tail(s_action_queue)
      /\ UNCHANGED <<browse, s_browse, result, freed, told, untold, dangled, ends, records>>
  BY DEF ServiceTakes
<1>3. s_action_queue \in Seq(Actions) /\ Len(s_action_queue) <= MaxQueue
  BY <1>1 DEF BrowseTypeOK
<1>4. /\ Head(s_action_queue) \in Actions /\ Tail(s_action_queue) \in Seq(Actions)
      /\ Len(Tail(s_action_queue)) <= MaxQueue
  <2>1. Len(s_action_queue) \in Nat
    BY <1>3
  <2> QED BY <1>2, <1>3, <2>1, BoundsAreNumbers
<1>5. ToSet(s_action_queue) = {Head(s_action_queue)} \cup ToSet(Tail(s_action_queue))
  BY <1>2, <1>3, HeadAndTail
<1>6. Head(action') = Head(s_action_queue) /\ ToSet(action') = {Head(s_action_queue)} /\ Len(action') <= 1
  BY <1>2 DEF ToSet
<1>7. ToSet(action) = {}
  BY <1>2 DEF ToSet
<1>8. Pending' = Pending /\ Chain' = Chain /\ \A b \in Browse : Kept(b)' = Kept(b)
  BY <1>2, <1>5, <1>6, <1>7 DEF Pending, Chain, Kept
<1>9. BrowseTypeOK'
  <2>1. action' \in Seq(Actions)
    BY <1>2, <1>4
  <2> QED BY <1>1, <1>2, <1>4, <1>6, <2>1 DEF BrowseTypeOK
<1>10. CacheInv'
  BY <1>1, <1>2, CacheUntouched
<1>11. AddsAreFresh'
  <2>1. /\ OnceEach(Tail(s_action_queue))
        /\ Head(s_action_queue).type = "ADD" => Head(s_action_queue) \notin ToSet(Tail(s_action_queue))
    BY <1>1, <1>2, <1>3, OnceTaken DEF AddsAreFresh
  <2> QED BY <1>1, <1>2, <1>6, <1>8, <2>1 DEF AddsAreFresh
<1>12. SyncsAreOwn'
  <2>1. \A s \in Pending : s.type = "SYNC" => s.browse \in Browse
    BY <1>1, ActionFields DEF Pending, BrowseTypeOK, ToSet
  <2> QED BY <1>1, <1>2, <1>8, <2>1 DEF SyncsAreOwn
<1>13. SilentBefore'
  BY <1>1, <1>2 DEF SilentBefore
<1>14. UpToDate'
  <2>1. \A b, r : WillSay(b, r) <=> WillSay(b, r)'
    BY <1>8 DEF WillSay
  <2> QED BY <1>1, <1>2, <1>8, <2>1, ChainInBrowse DEF UpToDate
<1> QED BY <1>9, <1>10, <1>11, <1>12, <1>13, <1>14 DEF BInv

LEMMA BrowseAddKeeps ==
  ASSUME BInv, ~dangled, browse_add
  PROVE  BInv'
<1>1. /\ BrowseTypeOK /\ CacheInv /\ AddsAreFresh /\ SyncsAreOwn /\ SilentBefore /\ UpToDate
  BY DEF BInv
<1>2. PICK act : act = Head(action)
  OBVIOUS
<1>3. PICK b : b = act.browse
  OBVIOUS
<1>4. /\ Executes("ADD") /\ UNCHANGED <<result, freed, s_action_queue, told, untold, dangled, ends, records>>
      /\ IF OfService(browse[b].service) # None
         THEN browse' = [browse EXCEPT ![b] = NoBrowse("FREED")] /\ UNCHANGED s_browse
         ELSE browse' = [browse EXCEPT ![b].state = "RUNNING"] /\ s_browse' = <<b>> \o s_browse
  BY <1>2, <1>3 DEF browse_add
<1>5. /\ act \in Actions /\ act.type = "ADD" /\ action' = <<>>
      /\ Pending = {act} \cup ToSet(s_action_queue) /\ Pending' = ToSet(s_action_queue)
  BY <1>1, <1>2, <1>4, Executed
<1>6. b \in Browse /\ act = [type |-> "ADD", browse |-> b] /\ browse[b].state = "INIT"
  BY <1>1, <1>3, <1>5, ActionFields DEF AddsAreFresh
<1>7. act \notin Pending' /\ Pending' \subseteq Pending
  BY <1>1, <1>2, <1>4, <1>5 DEF AddsAreFresh, Executes
<1>8. b \notin Chain /\ Chain \subseteq Browse /\ browse[b].result = <<>>
  BY <1>1, <1>6, ChainInBrowse DEF CacheInv, ChainRuns, IdleAreEmpty
<1>9. /\ browse \in [Browse -> [state : {"UNUSED", "INIT", "RUNNING", "FREED"},
                                result : Seq(Result), service : Service \cup {None}]]
      /\ s_browse \in Seq(Browse)
  BY <1>1 DEF BrowseTypeOK
<1>10. /\ browse' \in [Browse -> [state : {"UNUSED", "INIT", "RUNNING", "FREED"},
                                  result : Seq(Result), service : Service \cup {None}]]
       /\ browse'[b].result = <<>>
       /\ \A c \in Browse : c # b => browse'[c] = browse[c]
  <2>1. CASE OfService(browse[b].service) # None
    <3>1. browse' = [browse EXCEPT ![b] = NoBrowse("FREED")]
      BY <1>4, <2>1
    <3>2. /\ NoBrowse("FREED") \in [state : {"UNUSED", "INIT", "RUNNING", "FREED"},
                                    result : Seq(Result), service : Service \cup {None}]
          /\ NoBrowse("FREED").result = <<>>
      BY DEF NoBrowse
    <3> QED BY <1>6, <1>9, <3>1, <3>2
  <2>2. CASE OfService(browse[b].service) = None
    <3>1. browse' = [browse EXCEPT ![b].state = "RUNNING"]
      BY <1>4, <2>2
    <3> QED BY <1>6, <1>8, <1>9, <3>1
  <2> QED BY <2>1, <2>2
<1>11. \/ browse'[b].state = "FREED" /\ Chain' = Chain /\ s_browse' \in Seq(Browse)
       \/ /\ browse'[b].state = "RUNNING" /\ browse'[b].service = browse[b].service
          /\ Chain' = Chain \cup {b} /\ s_browse' \in Seq(Browse)
          /\ \A c \in Chain : browse[c].service # browse[b].service
  <2>1. CASE OfService(browse[b].service) # None
    BY <1>4, <1>6, <1>9, <2>1 DEF NoBrowse, Chain
  <2>2. CASE OfService(browse[b].service) = None
    <3>1. browse' = [browse EXCEPT ![b].state = "RUNNING"] /\ s_browse' = <<b>> \o s_browse
      BY <1>4, <2>2
    <3>2. browse'[b].state = "RUNNING" /\ browse'[b].service = browse[b].service
      BY <1>6, <1>9, <3>1
    <3>3. Chain' = Chain \cup {b} /\ s_browse' \in Seq(Browse)
      BY <1>6, <1>9, <3>1, PrependElements DEF Chain
    <3>4. \A c \in Chain : browse[c].service # browse[b].service
      <4> DEFINE E == {d \in Browse : browse[d].service = browse[b].service}
      <4>1. FirstOf(s_browse, E, None) = None
        BY <2>2 DEF OfService
      <4> HIDE DEF E
      <4>2. Chain \cap E = {}
        BY <1>8, <1>9, <4>1, FirstOfIsMember, NoneIsNothing DEF Chain
      <4> QED BY <1>8, <4>2 DEF E
    <3> QED BY <3>2, <3>3, <3>4
  <2> QED BY <2>1, <2>2
<1>12. /\ \A c \in Browse : Kept(c)' = Kept(c)
       /\ Kept(b) = {}
  <2>1. browse'[b].result = browse[b].result
    BY <1>8, <1>10
  <2>2. \A c \in Browse : browse'[c].result = browse[c].result
    BY <1>10, <2>1
  <2>3. ToSet(<<>>) = {}
    BY DEF ToSet
  <2> QED BY <1>8, <2>2, <2>3 DEF Kept
<1>13. BrowseTypeOK'
  <2>1. action' \in Seq(Actions) /\ Len(action') <= 1
    BY <1>5
  <2> QED BY <1>1, <1>4, <1>10, <1>11, <2>1 DEF BrowseTypeOK
<1>14. CacheInv'
  <2>1. ChainRuns'
    BY <1>1, <1>8, <1>10, <1>11 DEF CacheInv, ChainRuns
  <2>2. OneOfService'
    BY <1>1, <1>8, <1>10, <1>11 DEF CacheInv, OneOfService
  <2>3. Apart'
    BY <1>1, <1>12 DEF CacheInv, Apart
  <2>4. KeptAreLive'
    <3>1. \A r : (\E c \in Chain' : r \in Kept(c)') <=> \E c \in Chain : r \in Kept(c)
      BY <1>6, <1>8, <1>11, <1>12
    <3> QED BY <1>1, <1>4, <3>1 DEF CacheInv, KeptAreLive, Live
  <2>5. IdleAreEmpty'
    BY <1>1, <1>8, <1>10, <1>11 DEF CacheInv, IdleAreEmpty
  <2>6. OneOfInstance'
    BY <1>1, <1>4, <1>12 DEF CacheInv, OneOfInstance
  <2> QED BY <2>1, <2>2, <2>3, <2>4, <2>5, <2>6 DEF CacheInv
<1>15. \A a \in Pending' : a \in Actions /\ a \in Pending /\ a # act
  BY <1>1, <1>5, <1>7 DEF BrowseTypeOK, ToSet
<1>16. AddsAreFresh'
  <2>1. \A a \in Pending' : a.type = "ADD" => browse'[a.browse].state = "INIT"
    <3> SUFFICES ASSUME NEW a \in Pending', a.type = "ADD" PROVE browse'[a.browse].state = "INIT"
      OBVIOUS
    <3>1. a.browse \in Browse /\ a = [type |-> "ADD", browse |-> a.browse] /\ browse[a.browse].state = "INIT"
      BY <1>1, <1>15, ActionFields DEF AddsAreFresh
    <3>2. a.browse # b
      BY <1>6, <1>15, <3>1
    <3> QED BY <1>10, <3>1, <3>2
  <2> QED BY <1>1, <1>4, <1>5, <2>1 DEF AddsAreFresh
<1>17. SyncsAreOwn'
  <2> SUFFICES ASSUME NEW a \in Pending', a.type = "SYNC"
               PROVE  /\ browse'[a.browse].state \in {"RUNNING", "FREED"}
                      /\ ToSet(a.results) \subseteq freed' \cup Kept(a.browse)'
    BY DEF SyncsAreOwn
  <2>1. a.browse \in Browse /\ a.browse # b
    BY <1>1, <1>6, <1>15, ActionFields DEF SyncsAreOwn
  <2> QED BY <1>1, <1>4, <1>10, <1>12, <1>15, <2>1 DEF SyncsAreOwn
<1>18. SilentBefore'
  BY <1>1, <1>4, <1>10, <1>11 DEF SilentBefore
<1>19. UpToDate'
  <2>1. \A c, r : WillSay(c, r) => WillSay(c, r)'
    BY <1>5 DEF WillSay
  <2>2. \A i \in Instances : told[b][i] = Blank
    BY <1>1, <1>6 DEF SilentBefore
  <2>3. ASSUME NEW c \in Chain'
        PROVE  /\ \A r \in Kept(c)' : r \in untold' \/ WillSay(c, r)' \/ Says(told'[c][result'[r].instance], result'[r])
               /\ \A i \in Instances : told'[c][i] # Blank => \E r \in Kept(c)' : result'[r].instance = i
    <3>1. CASE c = b
      BY <1>4, <1>6, <1>12, <2>2, <3>1
    <3>2. CASE c # b
      <4>1. c \in Chain /\ Kept(c)' = Kept(c)
        BY <1>8, <1>11, <1>12, <3>2
      <4> QED BY <1>1, <1>4, <2>1, <4>1 DEF UpToDate
    <3> QED BY <3>1, <3>2
  <2> QED BY <2>3 DEF UpToDate
<1> QED BY <1>13, <1>14, <1>16, <1>17, <1>18, <1>19 DEF BInv

(* What is freed leaves the heap; the rest is as it was.                    *)
LEMMA Released ==
  ASSUME BrowseTypeOK, NEW gone \in SUBSET (DOMAIN result), Release(gone)
  PROVE  /\ DOMAIN result' = DOMAIN result \ gone /\ freed' = freed \cup gone
         /\ \A r \in DOMAIN result \ gone : result'[r] = result[r]
         /\ DOMAIN result' \subseteq Result /\ result' \in [DOMAIN result' -> Contents]
         /\ freed' \subseteq Result \ DOMAIN result'
<1>1. /\ DOMAIN result \subseteq Result /\ result \in [DOMAIN result -> Contents]
      /\ freed \subseteq Result \ DOMAIN result
  BY DEF BrowseTypeOK
<1>2. freed' = freed \cup gone /\ result' = [r \in DOMAIN result \ gone |-> result[r]]
  BY DEF Release, Restrict
<1> QED BY <1>1, <1>2

LEMMA FinishKeeps ==
  ASSUME BInv, ~dangled, browse_finish
  PROVE  BInv'
<1>1. /\ BrowseTypeOK /\ CacheInv /\ AddsAreFresh /\ SyncsAreOwn /\ SilentBefore /\ UpToDate
  BY DEF BInv
<1>2. PICK over : over = {b \in Chain : browse[b].service = Head(action).service}
  OBVIOUS
<1>3. PICK gone : gone = UNION {Kept(b) : b \in over}
  OBVIOUS
<1>4. /\ Executes("END") /\ UNCHANGED <<s_action_queue, told, dangled, ends, records>>
      /\ browse' = [b \in Browse |-> IF b \in over THEN NoBrowse("FREED") ELSE browse[b]]
      /\ s_browse' = Without(s_browse, over) /\ Release(gone) /\ untold' = untold \ gone
  BY <1>2, <1>3 DEF browse_finish, Chain, Kept
<1>5. /\ action' = <<>> /\ Pending' = ToSet(s_action_queue) /\ Pending' \subseteq Pending
      /\ \A a \in Pending \ Pending' : a.type = "END"
  BY <1>1, <1>4, Executed
<1>6. Chain \subseteq Browse /\ over \subseteq Chain
  BY <1>1, <1>2, ChainInBrowse
<1>7. /\ s_browse \in Seq(Browse) /\ \A b \in Browse : browse[b].result \in Seq(Result)
      /\ browse \in [Browse -> [state : {"UNUSED", "INIT", "RUNNING", "FREED"},
                                result : Seq(Result), service : Service \cup {None}]]
  BY <1>1 DEF BrowseTypeOK
<1>8. \A b \in Browse : Kept(b) \subseteq Result
  BY <1>7 DEF Kept, ToSet
<1>9. gone \subseteq DOMAIN result
  BY <1>1, <1>3, <1>6, <1>8 DEF CacheInv, KeptAreLive, Live
<1>10. /\ DOMAIN result' = DOMAIN result \ gone /\ freed' = freed \cup gone
       /\ \A r \in DOMAIN result \ gone : result'[r] = result[r]
       /\ DOMAIN result' \subseteq Result /\ result' \in [DOMAIN result' -> Contents]
       /\ freed' \subseteq Result \ DOMAIN result'
  BY <1>1, <1>4, <1>9, Released
<1>11. /\ NoBrowse("FREED") \in [state : {"UNUSED", "INIT", "RUNNING", "FREED"},
                                 result : Seq(Result), service : Service \cup {None}]
       /\ NoBrowse("FREED").result = <<>> /\ NoBrowse("FREED").state = "FREED"
  BY DEF NoBrowse
<1>12. /\ \A b \in over : browse'[b].result = <<>> /\ browse'[b].state = "FREED"
       /\ \A b \in Browse \ over : browse'[b] = browse[b]
       /\ browse' \in [Browse -> [state : {"UNUSED", "INIT", "RUNNING", "FREED"},
                                  result : Seq(Result), service : Service \cup {None}]]
  BY <1>4, <1>6, <1>7, <1>11
<1>13. s_browse' \in Seq(Browse) /\ Chain' = Chain \ over
  BY <1>4, <1>7, WithoutElements DEF Chain
<1>14. /\ \A b \in over : Kept(b)' = {}
       /\ \A b \in Browse \ over : Kept(b)' = Kept(b) /\ Kept(b) \cap gone = {}
  <2>1. ToSet(<<>>) = {}
    BY DEF ToSet
  <2>2. \A b \in Browse \ over : Kept(b) \cap gone = {}
    BY <1>1, <1>3, <1>6 DEF CacheInv, Apart
  <2> QED BY <1>12, <2>1, <2>2 DEF Kept
<1>15. BrowseTypeOK'
  <2>1. action' \in Seq(Actions) /\ Len(action') <= 1
    BY <1>5
  <2>2. untold' \subseteq DOMAIN result'
    BY <1>1, <1>4, <1>10 DEF BrowseTypeOK
  <2> QED BY <1>1, <1>4, <1>10, <1>12, <1>13, <2>1, <2>2 DEF BrowseTypeOK
<1>16. CacheInv'
  <2>1. ChainRuns'
    <3> SUFFICES ASSUME NEW b \in Browse PROVE browse'[b].state = "RUNNING" <=> b \in Chain'
      BY DEF ChainRuns
    <3>1. CASE b \in over
      BY <1>12, <1>13, <3>1
    <3>2. CASE b \notin over
      <4>1. browse'[b] = browse[b] /\ (b \in Chain' <=> b \in Chain)
        BY <1>12, <1>13, <3>2
      <4> QED BY <1>1, <4>1 DEF CacheInv, ChainRuns
    <3> QED BY <3>1, <3>2
  <2>2. OneOfService'
    <3>1. \A b \in Chain' : b \in Chain /\ browse'[b] = browse[b]
      BY <1>6, <1>12, <1>13
    <3> QED BY <1>1, <3>1 DEF CacheInv, OneOfService
  <2>3. Apart'
    BY <1>1, <1>14 DEF CacheInv, Apart
  <2>4. KeptAreLive'
    <3> SUFFICES ASSUME NEW r \in Result
                 PROVE  r \in DOMAIN result' <=> \E b \in Chain' : r \in Kept(b)'
      BY DEF KeptAreLive, Live
    <3>1. r \in DOMAIN result <=> \E b \in Chain : r \in Kept(b)
      BY <1>1 DEF CacheInv, KeptAreLive, Live
    <3>2. (\E b \in Chain' : r \in Kept(b)') <=> \E b \in Chain \ over : r \in Kept(b)
      BY <1>6, <1>13, <1>14
    <3>3. (\E b \in Chain \ over : r \in Kept(b)) <=> r \notin gone /\ \E b \in Chain : r \in Kept(b)
      BY <1>3, <1>6, <1>14
    <3> QED BY <1>10, <3>1, <3>2, <3>3
  <2>5. IdleAreEmpty'
    <3> SUFFICES ASSUME NEW b \in Browse \ Chain' PROVE browse'[b].result = <<>>
      BY DEF IdleAreEmpty
    <3>1. CASE b \in over
      BY <1>12, <3>1
    <3>2. CASE b \notin over
      <4>1. browse'[b] = browse[b] /\ b \notin Chain
        BY <1>12, <1>13, <3>2
      <4> QED BY <1>1, <4>1 DEF CacheInv, IdleAreEmpty
    <3> QED BY <3>1, <3>2
  <2>6. OneOfInstance'
    <3> SUFFICES ASSUME NEW b \in Browse, NEW r \in Kept(b)', NEW o \in Kept(b)', result'[r].instance = result'[o].instance
                 PROVE  r = o
      BY DEF OneOfInstance
    <3>1. b \in Browse \ over /\ r \in Kept(b) /\ o \in Kept(b) /\ r \notin gone /\ o \notin gone
      BY <1>14
    <3>2. b \in Chain
      <4> SUFFICES ASSUME b \notin Chain PROVE FALSE
        OBVIOUS
      <4>1. Kept(b) = {}
        BY <1>1 DEF CacheInv, IdleAreEmpty, Kept, ToSet
      <4> QED BY <3>1, <4>1
    <3>3. r \in DOMAIN result /\ o \in DOMAIN result
      BY <1>1, <1>8, <3>1, <3>2 DEF CacheInv, KeptAreLive, Live
    <3> QED BY <1>1, <1>10, <3>1, <3>3 DEF CacheInv, OneOfInstance
  <2> QED BY <2>1, <2>2, <2>3, <2>4, <2>5, <2>6 DEF CacheInv
<1>17. \A a \in Pending : a \in Actions
  BY <1>1 DEF Pending, BrowseTypeOK, ToSet
<1>18. AddsAreFresh'
  <2>1. \A a \in Pending' : a.type = "ADD" => browse'[a.browse].state = "INIT"
    <3> SUFFICES ASSUME NEW a \in Pending', a.type = "ADD" PROVE browse'[a.browse].state = "INIT"
      OBVIOUS
    <3>1. a.browse \in Browse /\ browse[a.browse].state = "INIT"
      BY <1>1, <1>5, <1>17, ActionFields DEF AddsAreFresh
    <3>2. a.browse \notin over
      BY <1>1, <1>6, <3>1 DEF CacheInv, ChainRuns
    <3> QED BY <1>12, <3>1, <3>2
  <2> QED BY <1>1, <1>4, <1>5, <2>1 DEF AddsAreFresh
<1>19. SyncsAreOwn'
  <2> SUFFICES ASSUME NEW a \in Pending', a.type = "SYNC"
               PROVE  /\ browse'[a.browse].state \in {"RUNNING", "FREED"}
                      /\ ToSet(a.results) \subseteq freed' \cup Kept(a.browse)'
    BY DEF SyncsAreOwn
  <2>1. /\ a.browse \in Browse /\ browse[a.browse].state \in {"RUNNING", "FREED"}
        /\ ToSet(a.results) \subseteq freed \cup Kept(a.browse)
    BY <1>1, <1>5, <1>17, ActionFields DEF SyncsAreOwn
  <2>2. CASE a.browse \in over
    BY <1>3, <1>10, <1>12, <2>1, <2>2
  <2>3. CASE a.browse \notin over
    BY <1>10, <1>12, <1>14, <2>1, <2>3
  <2> QED BY <2>2, <2>3
<1>20. SilentBefore'
  BY <1>1, <1>4, <1>6, <1>12 DEF SilentBefore
<1>21. UpToDate'
  <2> SUFFICES ASSUME NEW c \in Chain'
               PROVE  /\ \A r \in Kept(c)' : r \in untold' \/ WillSay(c, r)' \/ Says(told'[c][result'[r].instance], result'[r])
                      /\ \A i \in Instances : told'[c][i] # Blank => \E r \in Kept(c)' : result'[r].instance = i
    BY DEF UpToDate
  <2>1. c \in Chain /\ c \in Browse \ over /\ Kept(c)' = Kept(c) /\ Kept(c) \cap gone = {}
    BY <1>6, <1>13, <1>14
  <2>2. \A r \in Kept(c) : result'[r] = result[r] /\ r \notin gone
    BY <1>1, <1>8, <1>10, <2>1 DEF CacheInv, KeptAreLive, Live
  <2>3. \A r : WillSay(c, r) => WillSay(c, r)'
    BY <1>5 DEF WillSay
  <2> QED BY <1>1, <1>4, <2>1, <2>2, <2>3 DEF UpToDate
<1> QED BY <1>15, <1>16, <1>18, <1>19, <1>20, <1>21 DEF BInv

LEMMA SyncKeeps ==
  ASSUME BInv, ~dangled, browse_sync
  PROVE  BInv'
<1>1. /\ BrowseTypeOK /\ CacheInv /\ AddsAreFresh /\ SyncsAreOwn /\ SilentBefore /\ UpToDate
  BY DEF BInv
<1>2. PICK sync : sync = Head(action)
  OBVIOUS
<1>3. PICK b : b = sync.browse
  OBVIOUS
<1>4. PICK S : S = ToSet(sync.results)
  OBVIOUS
<1>5. PICK goes : goes = {r \in S : result[r].ttl = 0}
  OBVIOUS
<1> DEFINE said(i) == {IF r \in goes THEN Blank ELSE result[r] : r \in {o \in S : result[o].instance = i}}
<1>6. /\ Executes("SYNC") /\ UNCHANGED <<s_browse, s_action_queue, ends, records>>
      /\ IF Dangles(sync)
         THEN dangled' = TRUE /\ UNCHANGED <<browse, result, freed, told, untold>>
         ELSE /\ told' = [told EXCEPT ![b] = [i \in Instances |->
                              IF said(i) = {} THEN @[i] ELSE CHOOSE s \in said(i) : TRUE]]
              /\ Release(goes) /\ untold' = untold \ S
              /\ browse' = [browse EXCEPT ![b].result = Without(@, goes)]
              /\ UNCHANGED dangled
  BY <1>2, <1>3, <1>4, <1>5 DEF browse_sync
<1> HIDE DEF said
<1>7. /\ sync \in Actions /\ sync.type = "SYNC" /\ action' = <<>> /\ sync \in Pending
      /\ Pending = {sync} \cup ToSet(s_action_queue) /\ Pending' = ToSet(s_action_queue)
  BY <1>1, <1>2, <1>6, Executed
<1>8. b \in Browse /\ sync.results \in Seq(Result) /\ S \subseteq Result
  BY <1>3, <1>4, <1>7, ActionFields DEF ToSet
<1>9. action' \in Seq(Actions) /\ Len(action') <= 1
  BY <1>7
<1>10. CASE Dangles(sync)
  <2>1. dangled' = TRUE /\ UNCHANGED <<browse, result, freed, told, untold>>
    BY <1>6, <1>10
  <2>2. BrowseTypeOK'
    BY <1>1, <1>6, <1>9, <2>1 DEF BrowseTypeOK
  <2> QED BY <2>1, <2>2 DEF BInv
<1>11. CASE ~Dangles(sync)
  <2>1. /\ told' = [told EXCEPT ![b] = [i \in Instances |->
                        IF said(i) = {} THEN @[i] ELSE CHOOSE s \in said(i) : TRUE]]
        /\ Release(goes) /\ untold' = untold \ S
        /\ browse' = [browse EXCEPT ![b].result = Without(@, goes)]
        /\ UNCHANGED dangled
    BY <1>6, <1>11
  <2>2. browse[b].state # "FREED" /\ S \subseteq DOMAIN result
    BY <1>3, <1>4, <1>11 DEF Dangles, Live
  <2>3. /\ Chain \subseteq Browse /\ s_browse \in Seq(Browse) /\ freed \cap DOMAIN result = {}
        /\ browse \in [Browse -> [state : {"UNUSED", "INIT", "RUNNING", "FREED"},
                                  result : Seq(Result), service : Service \cup {None}]]
        /\ result \in [DOMAIN result -> Contents] /\ told \in [Browse -> [Instances -> Contents \cup {Blank}]]
    BY <1>1, ChainInBrowse DEF BrowseTypeOK
  <2>4. b \in Chain /\ S \subseteq Kept(b)
    BY <1>1, <1>3, <1>4, <1>7, <1>8, <2>2, <2>3 DEF SyncsAreOwn, CacheInv, ChainRuns
  <2>5. goes \subseteq S /\ goes \subseteq DOMAIN result
    BY <1>5, <2>2
  <2>6. /\ DOMAIN result' = DOMAIN result \ goes /\ freed' = freed \cup goes
        /\ \A r \in DOMAIN result \ goes : result'[r] = result[r]
        /\ DOMAIN result' \subseteq Result /\ result' \in [DOMAIN result' -> Contents]
        /\ freed' \subseteq Result \ DOMAIN result'
    BY <1>1, <2>1, <2>5, Released
  <2>7. /\ Without(browse[b].result, goes) \in Seq(Result)
        /\ ToSet(Without(browse[b].result, goes)) = Kept(b) \ goes
    BY <1>8, <2>3, WithoutElements DEF Kept
  <2>8. /\ browse' \in [Browse -> [state : {"UNUSED", "INIT", "RUNNING", "FREED"},
                                   result : Seq(Result), service : Service \cup {None}]]
        /\ browse'[b].result = Without(browse[b].result, goes)
        /\ \A c \in Browse : browse'[c].state = browse[c].state /\ browse'[c].service = browse[c].service
        /\ \A c \in Browse : c # b => browse'[c] = browse[c]
    BY <1>8, <2>1, <2>3, <2>7
  <2>9. Chain' = Chain
    BY <1>6 DEF Chain
  <2>10. \A c \in Browse : Kept(c)' = Kept(c) \ goes
    <3>1. Kept(b)' = Kept(b) \ goes
      BY <2>7, <2>8 DEF Kept
    <3>2. \A c \in Browse : c # b => Kept(c)' = Kept(c)
      BY <2>8 DEF Kept
    <3>3. \A c \in Browse : c # b => Kept(c) \cap goes = {}
      BY <1>1, <1>8, <2>4, <2>5 DEF CacheInv, Apart
    <3> QED BY <3>1, <3>2, <3>3
  <2>11. \A c \in Chain : Kept(c) \subseteq DOMAIN result
    <3>1. \A c \in Browse : Kept(c) \subseteq Result
      BY <2>3 DEF Kept, ToSet
    <3> QED BY <1>1, <2>3, <3>1 DEF CacheInv, KeptAreLive, Live
  <2>12. \A c \in Browse \ Chain : Kept(c) = {}
    BY <1>1 DEF CacheInv, IdleAreEmpty, Kept, ToSet
  (* What is told of an instance *)
  <2>13. \A i \in Instances : said(i) \subseteq Contents \cup {Blank}
    BY <2>2, <2>3 DEF said
  <2>14. \A i \in Instances : told[b][i] \in Contents \cup {Blank}
    BY <1>8, <2>3
  <2> DEFINE say(i) == IF said(i) = {} THEN told[b][i] ELSE CHOOSE s \in said(i) : TRUE
             news == [i \in Instances |-> say(i)]
  <2>15. told' = [told EXCEPT ![b] = news]
    BY <1>8, <2>1, <2>3
  <2>16. \A i \in Instances : say(i) \in Contents \cup {Blank}
    BY <2>13, <2>14
  <2> HIDE DEF say
  <2>17. news \in [Instances -> Contents \cup {Blank}] /\ \A i \in Instances : news[i] = say(i)
    BY <2>16
  <2> HIDE DEF news
  <2>18. /\ told' \in [Browse -> [Instances -> Contents \cup {Blank}]]
         /\ told'[b] = news /\ \A c \in Browse : c # b => told'[c] = told[c]
    BY <1>8, <2>3, <2>15, <2>17
  <2>19. ASSUME NEW o \in S, NEW i \in Instances, result[o].instance = i
         PROVE  told'[b][i] = IF o \in goes THEN Blank ELSE result[o]
    <3>1. \A p \in S : result[p].instance = i => p = o
      BY <1>1, <1>8, <2>4, <2>19 DEF CacheInv, OneOfInstance
    <3>2. {p \in S : result[p].instance = i} = {o}
      BY <2>19, <3>1
    <3>3. said(i) = {IF o \in goes THEN Blank ELSE result[o]}
      BY <3>2 DEF said
    <3>4. say(i) = IF o \in goes THEN Blank ELSE result[o]
      BY <3>3 DEF say
    <3> QED BY <2>17, <2>18, <3>4
  <2>20. ASSUME NEW i \in Instances, \A o \in S : result[o].instance # i
         PROVE  told'[b][i] = told[b][i]
    <3>1. said(i) = {}
      BY <2>20 DEF said
    <3> QED BY <2>17, <2>18, <3>1 DEF say
  <2>21. BrowseTypeOK'
    <3>1. untold' \subseteq DOMAIN result'
      BY <1>1, <2>1, <2>5, <2>6 DEF BrowseTypeOK
    <3>2. UNCHANGED <<s_browse, s_action_queue, ends, records, dangled>>
      BY <1>6, <2>1
    <3> QED BY <1>1, <1>9, <2>6, <2>8, <2>18, <3>1, <3>2 DEF BrowseTypeOK
  <2>22. CacheInv'
    <3>1. ChainRuns' /\ OneOfService'
      BY <1>1, <2>3, <2>8, <2>9 DEF CacheInv, ChainRuns, OneOfService
    <3>2. Apart'
      BY <1>1, <2>10 DEF CacheInv, Apart
    <3>3. KeptAreLive'
      <4> SUFFICES ASSUME NEW r \in Result
                   PROVE  r \in DOMAIN result' <=> \E c \in Chain' : r \in Kept(c)'
        BY DEF KeptAreLive, Live
      <4>1. r \in DOMAIN result <=> \E c \in Chain : r \in Kept(c)
        BY <1>1 DEF CacheInv, KeptAreLive, Live
      <4>2. (\E c \in Chain' : r \in Kept(c)') <=> r \notin goes /\ \E c \in Chain : r \in Kept(c)
        BY <2>3, <2>9, <2>10
      <4> QED BY <2>6, <4>1, <4>2
    <3>4. IdleAreEmpty'
      BY <1>1, <2>4, <2>8, <2>9 DEF CacheInv, IdleAreEmpty
    <3>5. OneOfInstance'
      <4> SUFFICES ASSUME NEW c \in Browse, NEW r \in Kept(c)', NEW o \in Kept(c)', result'[r].instance = result'[o].instance
                   PROVE  r = o
        BY DEF OneOfInstance
      <4>1. c \in Chain /\ r \in Kept(c) \ goes /\ o \in Kept(c) \ goes
        BY <2>10, <2>12
      <4>2. result'[r] = result[r] /\ result'[o] = result[o]
        BY <2>6, <2>11, <4>1
      <4> QED BY <1>1, <4>1, <4>2 DEF CacheInv, OneOfInstance
    <3> QED BY <3>1, <3>2, <3>3, <3>4, <3>5 DEF CacheInv
  <2>23. \A a \in Pending : a \in Actions
    BY <1>1 DEF Pending, BrowseTypeOK, ToSet
  <2>24. AddsAreFresh'
    <3>1. \A a \in Pending' : a.type = "ADD" => browse'[a.browse].state = "INIT"
      BY <1>1, <1>7, <2>8, <2>23, ActionFields DEF AddsAreFresh
    <3> QED BY <1>1, <1>6, <1>7, <3>1 DEF AddsAreFresh
  <2>25. SyncsAreOwn'
    <3> SUFFICES ASSUME NEW a \in Pending', a.type = "SYNC"
                 PROVE  /\ browse'[a.browse].state \in {"RUNNING", "FREED"}
                        /\ ToSet(a.results) \subseteq freed' \cup Kept(a.browse)'
      BY DEF SyncsAreOwn
    <3>1. /\ a.browse \in Browse /\ browse[a.browse].state \in {"RUNNING", "FREED"}
          /\ ToSet(a.results) \subseteq freed \cup Kept(a.browse)
      BY <1>1, <1>7, <2>23, ActionFields DEF SyncsAreOwn
    <3> QED BY <2>6, <2>8, <2>10, <3>1
  <2>26. SilentBefore'
    <3> SUFFICES ASSUME NEW c \in Browse, browse'[c].state \in {"UNUSED", "INIT"}
                 PROVE  told'[c] = [i \in Instances |-> Blank]
      BY DEF SilentBefore
    <3>1. c # b /\ browse[c].state \in {"UNUSED", "INIT"}
      BY <1>1, <1>8, <2>4, <2>8 DEF CacheInv, ChainRuns
    <3> QED BY <1>1, <2>18, <3>1 DEF SilentBefore
  <2>27. ASSUME NEW c \in Chain', NEW r \in Kept(c)'
         PROVE  r \in untold' \/ WillSay(c, r)' \/ Says(told'[c][result'[r].instance], result'[r])
    <3>1. c \in Chain /\ c \in Browse /\ r \in Kept(c) /\ r \notin goes /\ r \in DOMAIN result
      BY <2>3, <2>9, <2>10, <2>11
    <3>2. result'[r] = result[r] /\ result[r] \in Contents
      BY <2>3, <2>6, <3>1
    <3>3. result[r].instance \in Instances
      BY <3>2 DEF Contents
    <3>4. CASE r \in S
      <4>1. c = b
        BY <1>1, <1>8, <2>4, <3>1, <3>4 DEF CacheInv, Apart
      <4>2. told'[b][result[r].instance] = result[r]
        BY <2>19, <3>1, <3>3, <3>4
      <4> QED BY <3>2, <4>1, <4>2 DEF Says
    <3>5. CASE r \notin S
      <4>1. r \in untold \/ WillSay(c, r) \/ Says(told[c][result[r].instance], result[r])
        BY <1>1, <3>1 DEF UpToDate
      <4>2. WillSay(c, r) => WillSay(c, r)'
        BY <1>4, <1>7, <3>5 DEF WillSay
      <4>3. told'[c][result[r].instance] = told[c][result[r].instance]
        <5>1. CASE c = b
          <6>1. \A o \in S : result[o].instance # result[r].instance
            BY <1>1, <1>8, <2>4, <3>1, <3>5, <5>1 DEF CacheInv, OneOfInstance
          <6>2. PICK i \in Instances : i = result[r].instance
            BY <3>3
          <6> QED BY <2>20, <5>1, <6>1, <6>2
        <5>2. CASE c # b
          BY <2>18, <3>1, <5>2
        <5> QED BY <5>1, <5>2
      <4> QED BY <2>1, <3>2, <3>5, <4>1, <4>2, <4>3
    <3> QED BY <3>4, <3>5
  <2>28. ASSUME NEW c \in Chain', NEW i \in Instances, told'[c][i] # Blank
         PROVE  \E r \in Kept(c)' : result'[r].instance = i
    <3>1. c \in Chain /\ c \in Browse
      BY <2>3, <2>9
    <3>2. CASE c = b
      <4>1. CASE \E o \in S : result[o].instance = i
        <5>1. PICK o \in S : result[o].instance = i
          BY <4>1
        <5>2. o \notin goes
          BY <2>19, <2>28, <3>2, <5>1
        <5>3. o \in Kept(c)' /\ result'[o] = result[o]
          BY <2>2, <2>4, <2>6, <2>10, <3>1, <3>2, <5>2
        <5> QED BY <5>1, <5>3
      <4>2. CASE \A o \in S : result[o].instance # i
        <5>1. told[b][i] # Blank
          BY <2>20, <2>28, <3>2, <4>2
        <5>2. PICK r \in Kept(b) : result[r].instance = i
          BY <1>1, <2>4, <5>1 DEF UpToDate
        <5>3. r \notin goes /\ r \in DOMAIN result
          BY <2>4, <2>5, <2>11, <4>2, <5>2
        <5>4. r \in Kept(c)' /\ result'[r] = result[r]
          BY <2>6, <2>10, <3>1, <3>2, <5>2, <5>3
        <5> QED BY <5>2, <5>4
      <4> QED BY <4>1, <4>2
    <3>3. CASE c # b
      <4>1. told[c][i] # Blank
        BY <2>18, <2>28, <3>1, <3>3
      <4>2. PICK r \in Kept(c) : result[r].instance = i
        BY <1>1, <3>1, <4>1 DEF UpToDate
      <4>3. r \notin goes /\ r \in DOMAIN result
        BY <1>1, <1>8, <2>4, <2>5, <2>11, <3>1, <3>3, <4>2 DEF CacheInv, Apart
      <4>4. r \in Kept(c)' /\ result'[r] = result[r]
        BY <2>6, <2>10, <3>1, <4>2, <4>3
      <4> QED BY <4>2, <4>4
    <3> QED BY <3>2, <3>3
  <2>29. UpToDate'
    BY <2>27, <2>28 DEF UpToDate
  <2> QED BY <2>21, <2>22, <2>24, <2>25, <2>26, <2>29 DEF BInv
<1> QED BY <1>10, <1>11

LEMMA CacheIsWholeUnread ==
  ASSUME BrowseTypeOK, CacheInv
  PROVE  Whole(Unread)
<1>1. Unread.result = result /\ \A b \in Browse : Unread.list[b] = browse[b].result
  BY DEF Unread
<1>2. Chain \subseteq Browse
  BY ChainInBrowse
<1>3. HasNothingFreed(Unread)
  BY <1>1 DEF HasNothingFreed, BrowseTypeOK
<1>4. HasWhatIsListed(Unread)
  BY <1>1, <1>2 DEF HasWhatIsListed, CacheInv, KeptAreLive, Live, Kept
<1>5. HasNoIdle(Unread) /\ HasListsApart(Unread)
  BY <1>1 DEF HasNoIdle, HasListsApart, CacheInv, IdleAreEmpty, Apart, Kept
<1>6. HasOneOfInstance(Unread)
  BY <1>1 DEF HasOneOfInstance, CacheInv, OneOfInstance, Kept
<1> QED BY <1>3, <1>4, <1>5, <1>6 DEF Whole

(* Saying the same is transitive.                                           *)
LEMMA SaysIsTransitive ==
  ASSUME NEW said, NEW old, NEW new, Says(said, old), Says(old, new)
  PROVE  Says(said, new)
BY DEF Says

LEMMA ParseKeeps ==
  ASSUME BInv, ~dangled, ParsePacket
  PROVE  BInv'
<1>1. /\ BrowseTypeOK /\ CacheInv /\ AddsAreFresh /\ SyncsAreOwn /\ SilentBefore /\ UpToDate
  BY DEF BInv
<1>2. PICK p : p = Head(action).packet
  OBVIOUS
<1>3. PICK h : h = Read(p)
  OBVIOUS
<1>4. PICK sync : sync = [type |-> "SYNC", browse |-> h.sync, results |-> h.changed]
  OBVIOUS
<1>5. /\ Executes("RX") /\ UNCHANGED <<s_browse, freed, told, dangled, ends, records>>
      /\ result' = h.result
      /\ browse' = [b \in Browse |-> [browse[b] EXCEPT !.result = h.list[b]]]
      /\ IF h.changed # <<>> /\ ~p.broken /\ HasRoom
         THEN s_action_queue' = Append(s_action_queue, sync) /\ UNCHANGED untold
         ELSE untold' = untold \cup ToSet(h.changed) /\ UNCHANGED s_action_queue
  BY <1>2, <1>3, <1>4 DEF ParsePacket
<1>6. /\ Head(action) \in Actions /\ Head(action).type = "RX" /\ action' = <<>>
      /\ Pending = {Head(action)} \cup ToSet(s_action_queue) /\ Pending' = ToSet(s_action_queue')
  BY <1>1, <1>5, Executed
<1>7. p \in Packet
  BY <1>2, <1>6, ActionFields
<1>8. Mid(h, {})
  BY <1>1, <1>3, <1>7, CacheIsWholeUnread, ReadIsGood
<1>9. /\ DOMAIN h.result \subseteq Result /\ h.result \in [DOMAIN h.result -> Contents]
      /\ h.list \in [Browse -> Seq(Result)] /\ h.changed \in Seq(Result)
  BY <1>8, MemoryFields DEF Mid
<1>10. /\ Chain \subseteq Browse /\ None \notin Browse
       /\ browse \in [Browse -> [state : {"UNUSED", "INIT", "RUNNING", "FREED"},
                                 result : Seq(Result), service : Service \cup {None}]]
  BY <1>1, ChainInBrowse DEF BrowseTypeOK
<1>11. /\ browse' \in [Browse -> [state : {"UNUSED", "INIT", "RUNNING", "FREED"},
                                  result : Seq(Result), service : Service \cup {None}]]
       /\ \A b \in Browse : /\ browse'[b].state = browse[b].state /\ browse'[b].service = browse[b].service
                            /\ browse'[b].result = h.list[b]
  BY <1>5, <1>9, <1>10
<1>12. Chain' = Chain /\ \A b \in Browse : Kept(b)' = ToSet(h.list[b])
  BY <1>5, <1>11 DEF Chain, Kept
<1>13. ToSet(h.changed) # {} => h.sync \in Chain /\ h.sync \in Browse /\ ToSet(h.changed) \subseteq ToSet(h.list[h.sync])
  <2>1. CASE h.sync = None
    <3>1. h.changed = <<>>
      BY <1>8, <2>1 DEF Mid, Bound
    <3> QED BY <1>9, <3>1, EmptyList
  <2>2. CASE h.sync # None
    BY <1>8, <1>10, <2>2 DEF Mid, Bound
  <2> QED BY <2>1, <2>2
<1>14. ToSet(h.changed) # {} <=> h.changed # <<>>
  BY <1>9, EmptyList
<1>15. ToSet(h.changed) \subseteq DOMAIN h.result
  <2>1. \A r \in ToSet(h.changed) : r \in ToSet(h.list[h.sync]) /\ h.sync \in Browse
    BY <1>13
  <2> QED BY <1>8, <2>1, ListedIsLive
(* The queue, and what is told of the changed *)
<1>16. \/ /\ s_action_queue' = Append(s_action_queue, sync) /\ untold' = untold /\ sync \in Actions
          /\ s_action_queue' \in Seq(Actions) /\ Len(s_action_queue') <= MaxQueue
          /\ Pending' = ToSet(s_action_queue) \cup {sync} /\ h.changed # <<>>
       \/ /\ s_action_queue' = s_action_queue /\ untold' = untold \cup ToSet(h.changed)
          /\ Pending' = ToSet(s_action_queue)
  <2>1. CASE h.changed # <<>> /\ ~p.broken /\ HasRoom
    <3>1. s_action_queue' = Append(s_action_queue, sync) /\ untold' = untold
      BY <1>5, <2>1
    <3>2. sync \in Actions
      BY <1>4, <1>9, <1>13, <1>14, <2>1 DEF Actions
    <3>3. mdns_priv_queue_action(sync)
      BY <2>1, <3>1 DEF mdns_priv_queue_action
    <3>4. /\ s_action_queue' \in Seq(Actions) /\ Len(s_action_queue') <= MaxQueue
          /\ ToSet(s_action_queue') = ToSet(s_action_queue) \cup {sync}
      BY <1>1, <3>2, <3>3, Queued
    <3> QED BY <1>6, <2>1, <3>1, <3>2, <3>4
  <2>2. CASE ~(h.changed # <<>> /\ ~p.broken /\ HasRoom)
    BY <1>5, <1>6, <2>2
  <2> QED BY <2>1, <2>2
<1>17. BrowseTypeOK'
  <2>1. action' \in Seq(Actions) /\ Len(action') <= 1
    BY <1>6
  <2>2. s_action_queue' \in Seq(Actions) /\ Len(s_action_queue') <= MaxQueue
    BY <1>1, <1>16 DEF BrowseTypeOK
  <2>3. untold' \subseteq DOMAIN result'
    <3>1. untold \subseteq DOMAIN h.result
      BY <1>1, <1>8 DEF BrowseTypeOK, Mid, Grown
    <3> QED BY <1>5, <1>15, <1>16, <3>1
  <2>4. freed' \subseteq Result \ DOMAIN result'
    BY <1>1, <1>5, <1>8 DEF BrowseTypeOK, Mid, Whole, HasNothingFreed
  <2> QED BY <1>1, <1>5, <1>9, <1>11, <2>1, <2>2, <2>3, <2>4 DEF BrowseTypeOK
<1>18. CacheInv'
  <2>1. ChainRuns' /\ OneOfService'
    BY <1>1, <1>10, <1>11, <1>12 DEF CacheInv, ChainRuns, OneOfService
  <2>2. Apart'
    BY <1>8, <1>12 DEF Apart, Mid, Whole, HasListsApart
  <2>3. KeptAreLive'
    BY <1>5, <1>8, <1>10, <1>12 DEF KeptAreLive, Live, Mid, Whole, HasWhatIsListed
  <2>4. IdleAreEmpty'
    BY <1>8, <1>11, <1>12 DEF IdleAreEmpty, Mid, Whole, HasNoIdle
  <2>5. OneOfInstance'
    BY <1>5, <1>8, <1>12 DEF OneOfInstance, Mid, Whole, HasOneOfInstance
  <2> QED BY <2>1, <2>2, <2>3, <2>4, <2>5 DEF CacheInv
<1>19. \A a \in Pending : a \in Actions
  BY <1>1 DEF Pending, BrowseTypeOK, ToSet
<1>20. sync.type = "SYNC" /\ sync.browse = h.sync /\ sync.results = h.changed
  BY <1>4
<1>21. AddsAreFresh'
  <2>1. \A a \in Pending' : a.type = "ADD" => browse'[a.browse].state = "INIT"
    <3> SUFFICES ASSUME NEW a \in Pending', a.type = "ADD" PROVE browse'[a.browse].state = "INIT"
      OBVIOUS
    <3>1. a \in Pending
      BY <1>6, <1>16, <1>20
    <3>2. a.browse \in Browse /\ browse[a.browse].state = "INIT"
      BY <1>1, <1>19, <3>1, ActionFields DEF AddsAreFresh
    <3> QED BY <1>11, <3>2
  <2>2. OnceEach(s_action_queue')
    <3>1. OnceEach(s_action_queue) /\ s_action_queue \in Seq(Actions) /\ sync.type # "ADD"
      BY <1>1, <1>20 DEF AddsAreFresh, BrowseTypeOK
    <3>2. CASE sync \in Actions /\ s_action_queue' = Append(s_action_queue, sync)
      BY <3>1, <3>2, OnceAppended
    <3>3. CASE s_action_queue' = s_action_queue
      BY <3>1, <3>3
    <3> QED BY <1>16, <3>2, <3>3
  <2> QED BY <1>6, <2>1, <2>2 DEF AddsAreFresh
<1>22. SyncsAreOwn'
  <2> SUFFICES ASSUME NEW a \in Pending', a.type = "SYNC"
               PROVE  /\ browse'[a.browse].state \in {"RUNNING", "FREED"}
                      /\ ToSet(a.results) \subseteq freed' \cup Kept(a.browse)'
    BY DEF SyncsAreOwn
  <2>1. CASE a \in ToSet(s_action_queue)
    <3>1. /\ a.browse \in Browse /\ browse[a.browse].state \in {"RUNNING", "FREED"}
          /\ ToSet(a.results) \subseteq freed \cup Kept(a.browse)
      BY <1>1, <1>6, <1>19, <2>1, ActionFields DEF SyncsAreOwn
    <3>2. Kept(a.browse) \subseteq Kept(a.browse)'
      BY <1>8, <1>12, <3>1 DEF Kept, Mid, Grown
    <3> QED BY <1>5, <1>11, <3>1, <3>2
  <2>2. CASE a = sync /\ h.changed # <<>>
    <3>1. h.sync \in Chain /\ h.sync \in Browse /\ ToSet(h.changed) \subseteq ToSet(h.list[h.sync])
      BY <1>13, <1>14, <2>2
    <3>2. browse[h.sync].state = "RUNNING"
      BY <1>1, <3>1 DEF CacheInv, ChainRuns
    <3> QED BY <1>11, <1>12, <1>20, <2>2, <3>1, <3>2
  <2> QED BY <1>16, <2>1, <2>2
<1>23. SilentBefore'
  BY <1>1, <1>5, <1>11 DEF SilentBefore
<1>24. \A c, r : WillSay(c, r) => WillSay(c, r)'
  <2>1. \A a \in Pending : a.type = "SYNC" => a \in Pending'
    BY <1>6, <1>16
  <2> QED BY <2>1 DEF WillSay
<1>25. ASSUME NEW c \in Chain', NEW r \in Kept(c)'
       PROVE  r \in untold' \/ WillSay(c, r)' \/ Says(told'[c][result'[r].instance], result'[r])
  <2>1. c \in Chain /\ c \in Browse /\ r \in ToSet(h.list[c])
    BY <1>10, <1>12
  <2>2. r \in DOMAIN h.result
    BY <1>8, <2>1, ListedIsLive
  <2>3. CASE r \in ToSet(h.changed)
    <3>1. c = h.sync
      BY <1>8, <1>13, <2>1, <2>3 DEF Mid, Whole, HasListsApart
    <3>2. sync \in Pending' => WillSay(c, r)'
      BY <1>20, <2>3, <3>1 DEF WillSay
    <3> QED BY <1>16, <2>3, <3>2
  <2>4. CASE r \notin ToSet(h.changed)
    <3>1. r \in DOMAIN result /\ Says(result[r], h.result[r])
      BY <1>8, <2>2, <2>4 DEF Mid, Heard
    <3>2. r \in Kept(c)
      <4>1. r \in Result
        BY <1>9, <2>2
      <4>2. PICK d \in Chain : r \in Kept(d)
        BY <1>1, <3>1, <4>1 DEF CacheInv, KeptAreLive, Live
      <4>3. r \in ToSet(h.list[d]) /\ d \in Browse
        BY <1>8, <1>10, <4>2 DEF Mid, Grown, Kept
      <4>4. d = c
        BY <1>8, <2>1, <4>3 DEF Mid, Whole, HasListsApart
      <4> QED BY <4>2, <4>4
    <3>3. r \in untold \/ WillSay(c, r) \/ Says(told[c][result[r].instance], result[r])
      BY <1>1, <2>1, <3>2 DEF UpToDate
    <3>4. result'[r] = h.result[r] /\ h.result[r].instance = result[r].instance
      BY <1>5, <1>8, <3>1 DEF Mid, Grown
    <3>5. Says(told[c][result[r].instance], result[r]) => Says(told'[c][result'[r].instance], result'[r])
      BY <1>5, <3>1, <3>4, SaysIsTransitive
    <3> QED BY <1>16, <1>24, <3>3, <3>5
  <2> QED BY <2>3, <2>4
<1>26. ASSUME NEW c \in Chain', NEW i \in Instances, told'[c][i] # Blank
       PROVE  \E r \in Kept(c)' : result'[r].instance = i
  <2>1. c \in Chain /\ c \in Browse /\ told[c][i] # Blank
    BY <1>5, <1>10, <1>12, <1>26
  <2>2. PICK r \in Kept(c) : result[r].instance = i
    BY <1>1, <2>1 DEF UpToDate
  <2>3. r \in DOMAIN result
    <3>1. r \in Result
      BY <1>10, <2>1 DEF Kept, ToSet
    <3> QED BY <1>1, <2>1, <2>2, <3>1 DEF CacheInv, KeptAreLive, Live
  <2>4. r \in Kept(c)' /\ result'[r].instance = i
    BY <1>5, <1>8, <1>12, <2>1, <2>2, <2>3 DEF Mid, Grown, Kept
  <2> QED BY <2>4
<1>27. UpToDate'
  BY <1>25, <1>26 DEF UpToDate
<1> QED BY <1>17, <1>18, <1>21, <1>22, <1>23, <1>27 DEF BInv

-----------------------------------------------------------------------------
LEMMA BInvNext == BInv /\ [BrowseNext]_browseVars => BInv'
<1> SUFFICES ASSUME BInv, [BrowseNext]_browseVars PROVE BInv'
  OBVIOUS
<1>1. CASE BrowseNext
  BY <1>1, NewKeeps, DeleteKeeps, ArrivalKeeps, TakeKeeps, ParseKeeps, BrowseAddKeeps, FinishKeeps, SyncKeeps
  DEF BrowseNext
<1>2. CASE UNCHANGED browseVars
  <2>1. Chain' = Chain /\ Pending' = Pending /\ \A b : Kept(b)' = Kept(b)
    BY <1>2 DEF browseVars, Chain, Pending, Kept
  <2>2. \A b, r : WillSay(b, r)' <=> WillSay(b, r)
    BY <2>1 DEF WillSay
  <2>3. BrowseTypeOK'
    BY <1>2 DEF browseVars, BInv, BrowseTypeOK
  <2>4. ASSUME ~dangled
        PROVE  CacheInv' /\ AddsAreFresh' /\ SyncsAreOwn' /\ SilentBefore' /\ UpToDate'
    <3>1. CacheInv /\ AddsAreFresh /\ SyncsAreOwn /\ SilentBefore /\ UpToDate
      BY <2>4 DEF BInv
    <3>2. CacheInv'
      BY <1>2, <3>1, CacheUntouched DEF browseVars
    <3>3. AddsAreFresh' /\ SyncsAreOwn' /\ SilentBefore'
      BY <1>2, <2>1, <3>1 DEF browseVars, AddsAreFresh, SyncsAreOwn, SilentBefore
    <3>4. UpToDate'
      BY <1>2, <2>1, <2>2, <3>1 DEF browseVars, UpToDate
    <3> QED BY <3>2, <3>3, <3>4
  <2> QED BY <1>2, <2>3, <2>4 DEF BInv, browseVars
<1> QED BY <1>1, <1>2

LEMMA BInvAlways == BrowseSpec => []BInv
BY BInvInit, BInvNext, PTL DEF BrowseSpec

(* For any number of browses, results, packets and calls: the types are     *)
(* right.                                                                   *)
THEOREM BrowseTypeCorrect == BrowseSpec => []BrowseTypeOK
<1>1. BInv => BrowseTypeOK
  BY DEF BInv
<1> QED BY <1>1, BInvAlways, PTL

(* The running browses are the chain, one for a service; every live result  *)
(* is in the list of one of them, one for an instance, and nothing in a     *)
(* list was freed.                                                          *)
THEOREM CacheStaysWhole == BrowseSpec => []CacheIsWhole
<1>1. BInv => CacheIsWhole
  <2> SUFFICES ASSUME BInv, ~dangled PROVE CacheIsWhole
    BY DEF CacheIsWhole
  <2>1. ChainRuns /\ OneOfService /\ KeptAreLive /\ OneOfInstance /\ Chain \subseteq Browse
    BY ChainInBrowse DEF BInv, CacheInv
  <2> QED BY <2>1 DEF CacheIsWhole, ChainRuns, OneOfService, KeptAreLive, OneOfInstance, Chain, Kept
<1> QED BY <1>1, BInvAlways, PTL

(* What the notifier has said is what the cache holds, unless a SYNC waits  *)
(* or the change was lost with a refused SYNC or a broken packet.           *)
THEOREM ListenerFollows == BrowseSpec => []ListenerIsUpToDate
<1>1. BInv => ListenerIsUpToDate
  <2> SUFFICES ASSUME BInv, ~dangled PROVE ListenerIsUpToDate
    BY DEF ListenerIsUpToDate
  <2>1. UpToDate /\ CacheInv /\ BrowseTypeOK /\ Chain \subseteq Browse
    BY ChainInBrowse DEF BInv
  <2>2. \A b, r : WillSay(b, r) <=> Told(b, r)
    BY <2>1, WaitingIsPending DEF WillSay, Told
  <2>3. ASSUME NEW b \in Chain, NEW r \in Kept(b)
        PROVE  \/ r \in untold
               \/ Told(b, r)
               \/ /\ told[b][result[r].instance].txt \in {None, result[r].txt}
                  /\ [told[b][result[r].instance] EXCEPT !.txt = result[r].txt] = result[r]
    <3>1. r \in untold \/ Told(b, r) \/ Says(told[b][result[r].instance], result[r])
      BY <2>1, <2>2, <2>3 DEF UpToDate
    <3>2. r \in DOMAIN result
      <4>1. r \in Result
        BY <2>1 DEF BrowseTypeOK, Kept, ToSet
      <4> QED BY <2>1, <4>1 DEF CacheInv, KeptAreLive, Live
    <3>3. result[r] \in Contents
      BY <2>1, <3>2 DEF BrowseTypeOK
    <3>4. result[r].instance \in Instances
      BY <3>3 DEF Contents
    <3>5. told[b][result[r].instance] \in Contents \cup {Blank}
      BY <2>1, <3>4 DEF BrowseTypeOK
    <3> QED BY <3>1, <3>3, <3>5, SaysIsSame
  <2>4. \A b \in Chain : \A i \in Instances :
           told[b][i] # Blank => \E r \in Kept(b) : result[r].instance = i
    BY <2>1 DEF UpToDate
  <2> QED BY <2>3, <2>4 DEF ListenerIsUpToDate, Chain, Kept
<1> QED BY <1>1, BInvAlways, PTL
=============================================================================
