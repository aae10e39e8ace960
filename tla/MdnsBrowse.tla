----------------------------- MODULE MdnsBrowse -----------------------------
(***************************************************************************)
(* Browsing (src/managed_components/espressif__mdns/mdns_browser.c): a      *)
(* browse asks for the instances of a service type and keeps what it hears  *)
(* of them in a list of results.  The receiver writes the results when a    *)
(* packet is handled and queues a SYNC action with the addresses of those   *)
(* that changed; only when that action is executed is the notifier called,  *)
(* and a result that said goodbye (time to live 0) freed.  New browses and  *)
(* their ends come through the same queue.                                  *)
(* There is one interface and one protocol here, a result keeps a host      *)
(* name, its addresses, a TXT record and a time to live, and an address of  *)
(* the heap is used once, so that a freed one is known for ever.            *)
(***************************************************************************)
EXTENDS Naturals, Lists

CONSTANTS
    Browse,     \* the addresses at which the heap can place a browse
    Result,     \* the addresses at which it can place a result; then it is exhausted
    Service,    \* the service types that are browsed
    Packet,     \* the packets that can arrive, each a sequence of records, broken or whole
    MaxQueue,   \* MDNS_ACTION_QUEUE_LEN
    MaxEnds,    \* bound: calls of mdns_browse_delete
    MaxRecords, \* bound: records received
    None        \* NULL

Records == UNION {ToSet(p.records) : p \in Packet}

ASSUME BoundsAreNumbers == MaxQueue \in Nat /\ MaxEnds \in Nat /\ MaxRecords \in Nat
ASSUME NoneIsNothing == None \notin Browse \cup Result
ASSUME PacketsAreRecords ==
    /\ \A p \in Packet : p.records \in Seq(Records) /\ p.broken \in BOOLEAN
    /\ \A rec \in Records : /\ rec.type \in {"PTR", "SRV", "TXT", "A"}
                            /\ rec.type # "A" => rec.instance # None

VARIABLES
    browse,          \* state, service and results of each browse
    s_browse,        \* the running browses, newest first
    result,          \* the live results, by address
    freed,           \* the addresses of results that were freed
    s_action_queue,
    action,          \* what the service task has taken from the queue and not executed
    told,            \* what the notifier of a browse has last said of an instance
    untold,            \* results whose change will be told by no SYNC
    dangled,         \* a SYNC has followed an address that was freed
    ends, records    \* calls of mdns_browse_delete, records received

browseVars == <<browse, s_browse, result, freed, s_action_queue, action, told, untold, dangled, ends, records>>

Instances == {rec.instance : rec \in Records} \ {None}

(* What a result says: the last five fields of a record, with any addresses *)
Contents == [instance : Instances, hostname : {rec.hostname : rec \in Records} \cup {None},
             addr : SUBSET {rec.ip : rec \in Records}, txt : {rec.txt : rec \in Records} \cup {None},
             ttl : {rec.ttl : rec \in Records}]
Blank == [instance |-> None, hostname |-> None, addr |-> {}, txt |-> None, ttl |-> 0]
NoBrowse(state) == [state |-> state, result |-> <<>>, service |-> None]

Actions == [type : {"ADD"}, browse : Browse] \cup [type : {"END"}, service : Service]
             \cup [type : {"RX"}, packet : Packet]
             \cup [type : {"SYNC"}, browse : Browse, results : Seq(Result)]

BrowseTypeOK ==
    /\ browse \in [Browse -> [state : {"UNUSED", "INIT", "RUNNING", "FREED"},
                              result : Seq(Result), service : Service \cup {None}]]
    /\ s_browse \in Seq(Browse)
    /\ DOMAIN result \subseteq Result /\ result \in [DOMAIN result -> Contents]
    /\ freed \subseteq Result \ DOMAIN result
    /\ s_action_queue \in Seq(Actions) /\ Len(s_action_queue) <= MaxQueue
    /\ action \in Seq(Actions) /\ Len(action) <= 1
    /\ told \in [Browse -> [Instances -> Contents \cup {Blank}]]
    /\ untold \subseteq DOMAIN result
    /\ dangled \in BOOLEAN /\ ends \in 0..MaxEnds /\ records \in 0..MaxRecords

BrowseInit ==
    /\ browse = [b \in Browse |-> NoBrowse("UNUSED")] /\ s_browse = <<>>
    /\ result = <<>> /\ freed = {}
    /\ s_action_queue = <<>> /\ action = <<>>
    /\ told = [b \in Browse |-> [i \in Instances |-> Blank]]
    /\ untold = {} /\ dangled = FALSE /\ ends = 0 /\ records = 0

Live(r) == r \in DOMAIN result
Release(gone) == result' = Restrict(result, DOMAIN result \ gone) /\ freed' = freed \cup gone
HasRoom == Len(s_action_queue) < MaxQueue
mdns_priv_queue_action(act) == HasRoom /\ s_action_queue' = Append(s_action_queue, act)

-----------------------------------------------------------------------------
(* The callers                                                              *)

(* With no room for its action the browse is freed at once: nothing changed.*)
mdns_browse_new(b, service) ==
    /\ browse[b].state = "UNUSED"
    /\ mdns_priv_queue_action([type |-> "ADD", browse |-> b])
    /\ browse' = [browse EXCEPT ![b] = [@ EXCEPT !.state = "INIT", !.service = service]]
    /\ UNCHANGED <<s_browse, result, freed, action, told, untold, dangled, ends, records>>

(* The browse that is allocated to carry the service type belongs to the    *)
(* action alone.                                                            *)
mdns_browse_delete(service) ==
    /\ ends < MaxEnds /\ ends' = ends + 1
    /\ mdns_priv_queue_action([type |-> "END", service |-> service])
    /\ UNCHANGED <<browse, s_browse, result, freed, action, told, untold, dangled, records>>

(* lwIP receives.  A packet the queue refuses is as one that got lost.      *)
PacketArrives(p) ==
    /\ records + Len(p.records) <= MaxRecords
    /\ records' = records + Len(p.records)
    /\ mdns_priv_queue_action([type |-> "RX", packet |-> p])
    /\ UNCHANGED <<browse, s_browse, result, freed, action, told, untold, dangled, ends>>

-----------------------------------------------------------------------------
(* Reading a packet.  `h' is the memory while it is read: the results and   *)
(* the lists they are in, the SYNC being prepared (of one browse), the last *)
(* browse a record belonged to, and the addresses put aside.                *)

OfService(service) == FirstOf(s_browse, {b \in Browse : browse[b].service = service}, None)

(* The browse that has a result on this host                                *)
OfHost(h, hostname) ==
    FirstOf(s_browse, {b \in Browse : \E r \in ToSet(h.list[b]) : h.result[r].hostname = hostname}, None)

ResultOf(h, b, instance) ==
    FirstOf(h.list[b], {r \in DOMAIN h.result : h.result[r].instance = instance}, None)

Write(h, r, content) == [h EXCEPT !.result[r] = content]

(* One SYNC for a packet: it stays with the first browse.                   *)
mdns_priv_browse_ensure_sync(h, b) == IF h.sync = None THEN [h EXCEPT !.sync = b] ELSE h

add_browse_result(h, r) == IF r \in ToSet(h.changed) THEN h ELSE [h EXCEPT !.changed = <<r>> \o @]

(* The smaller one stays, but a result that is going is taken back.         *)
UpdatedTtl(old, ttl) == IF old = 0 \/ ttl < old THEN ttl ELSE old

BugSetTtl(h, r, ttl) == Write(h, r, [h.result[r] EXCEPT !.ttl = UpdatedTtl(@, ttl)])

SetTtl(h, r, ttl) ==
    LET new == [h.result[r] EXCEPT !.ttl = UpdatedTtl(@, ttl)]
    IN  IF new = h.result[r] THEN h ELSE add_browse_result(Write(h, r, new), r)

(* A new result, if there is memory for it                                  *)
AddResult(h, b, r, content) ==
    add_browse_result([h EXCEPT !.result = [o \in DOMAIN h.result \cup {r} |->
                                               IF o = r THEN content ELSE h.result[o]],
                                !.list[b] = <<r>> \o @], r)

NewResult(h, b, content) ==
    LET unused == Result \ (freed \cup DOMAIN h.result)
    IN  IF unused = {} THEN h ELSE AddResult(h, b, CHOOSE r \in unused : TRUE, content)

mdns_priv_browse_result_add_ptr(h, b, rec) ==
    LET r == ResultOf(h, b, rec.instance)
    IN  IF r = None THEN NewResult(h, b, [Blank EXCEPT !.instance = rec.instance, !.ttl = rec.ttl])
        ELSE SetTtl(h, r, rec.ttl)

(* An instance that moves to a host of which the addresses are known gets   *)
(* them, unless it has some.                                                *)
copy_address_in_previous_result(h, b, r) ==
    LET known == FirstOf(h.list[b], {o \in DOMAIN h.result : /\ h.result[o].hostname = h.result[r].hostname
                                                             /\ h.result[o].addr # {}}, None)
    IN  IF h.result[r].addr # {} \/ known = None THEN h
        ELSE Write(h, r, [h.result[r] EXCEPT !.addr = h.result[known].addr])

MoveTo(h, b, r, hostname) ==
    IF h.result[r].hostname = hostname THEN h
    ELSE add_browse_result(
            copy_address_in_previous_result(Write(h, r, [h.result[r] EXCEPT !.hostname = hostname]), b, r), r)

mdns_priv_browse_result_add_srv(h, b, rec) ==
    LET r == ResultOf(h, b, rec.instance)
    IN  IF r = None
        THEN NewResult(h, b, [Blank EXCEPT !.instance = rec.instance, !.hostname = rec.hostname,
                                           !.ttl = rec.ttl])
        ELSE SetTtl(MoveTo(h, b, r, rec.hostname), r, rec.ttl)

(* A first TXT record is taken without a word.                              *)
SetTxt(h, r, txt) ==
    LET read == Write(h, r, [h.result[r] EXCEPT !.txt = txt])
    IN  IF h.result[r].txt \in {None, txt} THEN read ELSE add_browse_result(read, r)

mdns_priv_browse_result_add_txt(h, b, rec) ==
    LET r == ResultOf(h, b, rec.instance)
    IN  IF r = None
        THEN NewResult(h, b, [Blank EXCEPT !.instance = rec.instance, !.txt = rec.txt, !.ttl = rec.ttl])
        ELSE SetTtl(SetTxt(h, r, rec.txt), r, rec.ttl)

(* The first result on the host that does not have the address gets it.     *)
mdns_priv_browse_result_add_ip(h, rec) ==
    LET r == FirstOf(h.list[h.sync], {o \in DOMAIN h.result : /\ h.result[o].hostname = rec.hostname
                                                              /\ rec.ip \notin h.result[o].addr}, None)
    IN  IF r = None THEN h
        ELSE add_browse_result(Write(h, r, [h.result[r] EXCEPT !.addr = @ \cup {rec.ip},
                                                               !.ttl = UpdatedTtl(@, rec.ttl)]), r)

(* PTR, SRV and TXT are of a browse of their service; a record of another   *)
(* browse than that of the SYNC is dropped.                                 *)
OfInstance(h, rec) ==
    LET b == OfService(rec.service)
        s == mdns_priv_browse_ensure_sync([h EXCEPT !.last = b], b)
    IN  IF b = None THEN h
        ELSE IF s.sync # b THEN s
        ELSE CASE rec.type = "PTR" -> mdns_priv_browse_result_add_ptr(s, b, rec)
               [] rec.type = "SRV" -> mdns_priv_browse_result_add_srv(s, b, rec)
               [] rec.type = "TXT" -> mdns_priv_browse_result_add_txt(s, b, rec)

(* Addresses wait for the end of the packet, as their SRV may follow them.  *)
mdns_priv_browse_stage_ip(h, rec) ==
    LET b == OfHost(h, rec.hostname)
        s == IF b = None THEN h ELSE [h EXCEPT !.last = b]
    IN  IF s.last = None THEN s
        ELSE [mdns_priv_browse_ensure_sync(s, s.last) EXCEPT !.staged = <<rec>> \o @]

ReadRecord(h, rec) ==
    IF rec.type = "A" THEN mdns_priv_browse_stage_ip(h, rec) ELSE OfInstance(h, rec)

mdns_priv_browse_apply_staged_ips(h) ==
    LET done[k \in 0..Len(h.staged)] ==
            IF k = 0 THEN h ELSE mdns_priv_browse_result_add_ip(done[k - 1], h.staged[k])
    IN  IF h.last # h.sync THEN h ELSE done[Len(h.staged)]

Unread == [result |-> result, list |-> [b \in Browse |-> browse[b].result],
           sync |-> None, changed |-> <<>>, last |-> None, staged |-> <<>>]

Read(p) ==
    LET read[k \in 0..Len(p.records)] ==
            IF k = 0 THEN Unread ELSE ReadRecord(read[k - 1], p.records[k])
        h == read[Len(p.records)]
    IN  IF p.broken THEN h ELSE mdns_priv_browse_apply_staged_ips(h)

-----------------------------------------------------------------------------
(* The service task                                                         *)

ServiceTakes ==
    /\ action = <<>> /\ s_action_queue # <<>>
    /\ action' = <<Head(s_action_queue)>> /\ s_action_queue' = Tail(s_action_queue)
    /\ UNCHANGED <<browse, s_browse, result, freed, told, untold, dangled, ends, records>>

Executes(type) == action # <<>> /\ Head(action).type = type /\ action' = <<>>

(* What a broken packet said before the break stays, and is not told; nor   *)
(* is what the queue refuses.                                               *)
ParsePacket ==
    /\ Executes("RX")
    /\ LET p == Head(action).packet
           h == Read(p)
           sync == [type |-> "SYNC", browse |-> h.sync, results |-> h.changed]
       IN  /\ result' = h.result
           /\ browse' = [b \in Browse |-> [browse[b] EXCEPT !.result = h.list[b]]]
           /\ IF h.changed # <<>> /\ ~p.broken /\ HasRoom
              THEN s_action_queue' = Append(s_action_queue, sync) /\ UNCHANGED untold
              ELSE untold' = untold \cup ToSet(h.changed) /\ UNCHANGED s_action_queue
    /\ UNCHANGED <<s_browse, freed, told, dangled, ends, records>>

(* A second browse of a service is freed, although its caller has it.       *)
browse_add ==
    /\ Executes("ADD")
    /\ LET b == Head(action).browse
       IN  IF OfService(browse[b].service) # None
           THEN browse' = [browse EXCEPT ![b] = NoBrowse("FREED")] /\ UNCHANGED s_browse
           ELSE browse' = [browse EXCEPT ![b].state = "RUNNING"] /\ s_browse' = <<b>> \o s_browse
    /\ UNCHANGED <<result, freed, s_action_queue, told, untold, dangled, ends, records>>

BugBrowseFinish ==
    /\ Executes("END")
    /\ LET over == {b \in ToSet(s_browse) : browse[b].service = Head(action).service}
       IN  /\ browse' = [b \in Browse |-> IF b \in over THEN NoBrowse("FREED") ELSE browse[b]]
           /\ s_browse' = Without(s_browse, over)
    /\ UNCHANGED <<result, freed, s_action_queue, told, untold, dangled, ends, records>>

(* Every browse of the service is freed with its results.                   *)
browse_finish ==
    /\ Executes("END")
    /\ LET over == {b \in ToSet(s_browse) : browse[b].service = Head(action).service}
           gone == UNION {ToSet(browse[b].result) : b \in over}
       IN  /\ browse' = [b \in Browse |-> IF b \in over THEN NoBrowse("FREED") ELSE browse[b]]
           /\ s_browse' = Without(s_browse, over)
           /\ Release(gone) /\ untold' = untold \ gone
    /\ UNCHANGED <<s_action_queue, told, dangled, ends, records>>

Dangles(sync) == browse[sync.browse].state = "FREED" \/ \E r \in ToSet(sync.results) : ~Live(r)

(* The notifier is told of each result, and those that go are freed.        *)
browse_sync ==
    /\ Executes("SYNC")
    /\ LET sync == Head(action)
           b == sync.browse
           goes == {r \in ToSet(sync.results) : result[r].ttl = 0}
           said(i) == {IF r \in goes THEN Blank ELSE result[r] : r \in
                          {o \in ToSet(sync.results) : result[o].instance = i}}
       IN  IF Dangles(sync)
           THEN dangled' = TRUE /\ UNCHANGED <<browse, result, freed, told, untold>>
           ELSE /\ told' = [told EXCEPT ![b] = [i \in Instances |->
                                IF said(i) = {} THEN @[i] ELSE CHOOSE s \in said(i) : TRUE]]
                /\ Release(goes) /\ untold' = untold \ ToSet(sync.results)
                /\ browse' = [browse EXCEPT ![b].result = Without(@, goes)]
                /\ UNCHANGED dangled
    /\ UNCHANGED <<s_browse, s_action_queue, ends, records>>

BrowseNext ==
    /\ ~dangled
    /\ \/ \E b \in Browse, s \in Service : mdns_browse_new(b, s)
       \/ \E s \in Service : mdns_browse_delete(s)
       \/ \E p \in Packet : PacketArrives(p)
       \/ ServiceTakes
       \/ ParsePacket
       \/ browse_add
       \/ browse_finish
       \/ browse_sync

BrowseSpec == BrowseInit /\ [][BrowseNext]_browseVars

-----------------------------------------------------------------------------
Waiting == action \o s_action_queue
Told(b, r) == \E act \in ToSet(Waiting) : act.type = "SYNC" /\ act.browse = b /\ r \in ToSet(act.results)

(* The cache is whole: the running browses are those in the chain, one for  *)
(* a service type, each result is in the list of one of them, one for an    *)
(* instance, and nothing in a list was freed (browse_add, browse_finish and *)
(* the parser, against each other).                                         *)
CacheIsWhole ==
    ~dangled =>
      /\ \A b \in Browse : browse[b].state = "RUNNING" <=> b \in ToSet(s_browse)
      /\ \A b, c \in ToSet(s_browse) : browse[b].service = browse[c].service => b = c
      /\ \A r \in Result : Live(r) <=> \E b \in ToSet(s_browse) : r \in ToSet(browse[b].result)
      /\ \A b \in ToSet(s_browse) : \A r, o \in ToSet(browse[b].result) :
            result[r].instance = result[o].instance => r = o

(* What the notifier has said of an instance is what the cache holds of it, *)
(* and it has said nothing of others, unless a SYNC with the result waits   *)
(* or its change was lost with a refused SYNC or a broken packet (and even  *)
(* then the next change mends it).  Only a TXT record that comes to a known *)
(* result may be missing (mdns_priv_browse_result_add_* with browse_sync).  *)
ListenerIsUpToDate ==
    ~dangled => \A b \in ToSet(s_browse) :
      /\ \A r \in ToSet(browse[b].result) : \/ r \in untold
                                            \/ Told(b, r)
                                            \/ /\ told[b][result[r].instance].txt \in {None, result[r].txt}
                                               /\ [told[b][result[r].instance] EXCEPT !.txt = result[r].txt] = result[r]
      /\ \A i \in Instances : told[b][i] # Blank => \E r \in ToSet(browse[b].result) : result[r].instance = i

(* mdns_browser.c, line 62: "The passed result pointer is a live node in    *)
(* browse->result".                                                         *)
SyncedResultsAreLive == ~dangled
=============================================================================
