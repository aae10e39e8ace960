----------------------------- MODULE MdnsService -----------------------------
(***************************************************************************)
(* Starting and ending the mDNS component (src/managed_components/          *)
(* espressif__mdns/mdns_service.c with the init, deinit and cleanup         *)
(* functions of the other files).  mdns_init makes the server, the queue,   *)
(* the sockets, the lock, the timer and the task, and undoes it where one   *)
(* cannot be had; mdns_free ends all of them while the event loop, lwIP, a  *)
(* timer callback and the callers of queries are still under way.           *)
(* What the queue holds is freed action by action (free_action), and then   *)
(* the lists that the actions point into.                                   *)
(* An address of the heap is used once; a use of what was freed or deleted  *)
(* ends the model, and `fault' says what it was.  There is one interface.   *)
(* A query may begin at any moment, also in the middle of mdns_init and     *)
(* mdns_free; one caller at a time is between its check and its send, and   *)
(* one waits for its result: other searches were begun with a notifier.     *)
(***************************************************************************)
EXTENDS Naturals, SequencesExt

CONSTANTS
    Search,      \* the addresses at which the heap can place a search
    Packet,      \* those at which it can place a packet to send
    MaxQueue,    \* MDNS_ACTION_QUEUE_LEN
    MaxInits,    \* bound: calls of mdns_init
    MaxReceived, \* bound: packets and system events received
    None         \* NULL

ASSUME AddressAssumption == Search \cap Packet = {} /\ None \notin Search \cup Packet
ASSUME FaultAssumption == None \notin {"lock", "queue", "heap", "waiter"}
ASSUME BoundsAssumption == MaxQueue \in Nat /\ MaxInits \in Nat /\ MaxReceived \in Nat

VARIABLES
    main,       \* where the task that calls mdns_init and mdns_free is
    server,     \* s_server is allocated
    handler,    \* the system event handler: OFF, registered (ON), or past its check (POSTS)
    open,       \* the socket is open
    made, queue,    \* s_action_queue is a live queue; what is in it
    lock,       \* s_service_semaphore: NONE, FREE, MAIN (held by main)
    timer, callback,    \* the timer runs; its callback has not begun (NO), sends or walks
    task, taken,    \* the service task; the action it has taken
    caller,     \* the search a caller waits for
    asking,     \* that of a caller that has found the server and not yet sent
    chain, off, \* s_search_once; the searches the timer has turned off
    tx,         \* s_tx_queue_head, soonest first: the packet and its mark `queued'
    live, freed,    \* searches and packets
    inits, received,
    late,       \* history: a callback was under way when the timer was stopped
    refused,    \* history: the stop did not fit into the queue
    failed,     \* history: where an init failed with a handler registered: NETIF, TASK
    strayed,    \* history: the points at which a query was sent of those where it may get lost
    leaked,     \* history: actions that nobody has executed or freed
    fault       \* what was used after its end: lock, queue, heap, waiter

vars == <<main, server, handler, open, made, queue, lock, timer, callback, task, taken, caller,
          asking, chain, off, tx, live, freed, inits, received, late, refused, failed, strayed, leaked, fault>>
history == <<late, refused, failed, strayed, leaked>>
network == <<handler, open, received>>
heap == <<chain, off, tx, live, freed>>

Init ==
    /\ main = "DOWN" /\ server = FALSE /\ handler = "OFF" /\ open = FALSE
    /\ made = FALSE /\ queue = <<>> /\ lock = "NONE"
    /\ timer = FALSE /\ callback = "NO" /\ task = "NONE" /\ taken = <<>>
    /\ caller = None /\ asking = None /\ chain = <<>> /\ off = {} /\ tx = <<>> /\ live = {} /\ freed = {}
    /\ inits = 0 /\ received = 0
    /\ late = FALSE /\ refused = FALSE /\ failed = {} /\ strayed = {} /\ leaked = {}
    /\ fault = None

At(from, to) == main = from /\ main' = to
HasRoom == Len(queue) < MaxQueue

(* The action is queued if there is room.                                   *)
mdns_priv_queue_action(act) == made /\ HasRoom /\ queue' = Append(queue, act)

Act(type, of) == [type |-> type, of |-> of]

-----------------------------------------------------------------------------
(* mdns_init                                                                *)

mdns_priv_responder_init ==
    /\ inits < MaxInits /\ inits' = inits + 1
    /\ At("DOWN", "QUEUE") /\ server' = TRUE
    /\ UNCHANGED <<network, made, queue, lock, timer, callback, task, taken, caller, asking, heap, history, fault>>

CreatesQueue ==
    /\ \/ At("QUEUE", "NETIF") /\ made' = TRUE /\ queue' = <<>>
       \/ At("QUEUE", "SERVER") /\ UNCHANGED <<made, queue>>
    /\ UNCHANGED <<server, network, lock, timer, callback, task, taken, caller, asking, heap, inits, history, fault>>

(* The handler is registered for WIFI_EVENT and may run from then on, ...   *)
mdns_priv_netif_init ==
    /\ \/ At("NETIF", "REGISTER") /\ handler' = IF handler = "OFF" THEN "ON" ELSE handler
       \/ At("NETIF", "UNREGISTER") /\ UNCHANGED handler
    /\ UNCHANGED <<server, open, received, made, queue, lock, timer, callback, task, taken, caller, asking, heap, inits,
                   history, fault>>

(* ... and for IP_EVENT; if that fails it is taken back.                    *)
esp_event_handler_register ==
    /\ \/ At("REGISTER", "ENABLE") /\ UNCHANGED failed
       \/ At("REGISTER", "UNREGISTER") /\ failed' = failed \cup {"NETIF"}
    /\ UNCHANGED <<server, network, made, queue, lock, timer, callback, task, taken, caller, asking, heap, inits,
                   late, refused, strayed, leaked, fault>>

(* With an address the interface gets its socket.                           *)
mdns_priv_pcb_enable ==
    /\ At("ENABLE", "TASK") /\ open' \in BOOLEAN
    /\ UNCHANGED <<server, handler, received, made, queue, lock, timer, callback, task, taken, caller, asking, heap, inits,
                   history, fault>>

(* The lock, which it holds, and the timer; one of them may fail.           *)
service_task_start ==
    /\ \/ At("TASK", "CREATE") /\ lock' = "MAIN" /\ timer' = TRUE
       \/ At("TASK", "UNLOCK") /\ lock' = "MAIN" /\ UNCHANGED timer
       \/ At("TASK", "DISABLE") /\ UNCHANGED <<lock, timer>>
    /\ UNCHANGED <<server, network, made, queue, callback, task, taken, caller, asking, heap, inits, history, fault>>

create_task_with_caps ==
    /\ \/ At("CREATE", "UP") /\ task' = "WAITS" /\ lock' = "FREE" /\ UNCHANGED <<timer, late>>
       \/ At("CREATE", "UNLOCK") /\ timer' = FALSE /\ late' = (callback # "NO") /\ UNCHANGED <<task, lock>>
    /\ UNCHANGED <<server, network, made, queue, callback, taken, caller, asking, heap, inits, refused, failed, strayed, leaked, fault>>

StartFails ==
    /\ \/ At("UNLOCK", "UNMAKE") /\ lock' = "FREE"
       \/ At("UNMAKE", "DISABLE") /\ lock' = "NONE"
    /\ UNCHANGED <<server, network, made, queue, timer, callback, task, taken, caller, asking, heap, inits, history, fault>>

(* The handlers stay registered.                                            *)
mdns_priv_netif_deinit ==
    /\ At("DISABLE", "UNQUEUE") /\ open' = FALSE /\ failed' = failed \cup {"TASK"}
    /\ UNCHANGED <<server, handler, received, made, queue, lock, timer, callback, task, taken, caller, asking, heap, inits,
                   late, refused, strayed, leaked, fault>>

(* With what is in the queue                                                *)
InitFails ==
    /\ \/ /\ At("UNQUEUE", "SERVER") /\ made' = FALSE /\ queue' = <<>> /\ UNCHANGED server
          /\ leaked' = leaked \cup ToSet(queue)
       \/ At("SERVER", "DOWN") /\ server' = FALSE /\ UNCHANGED <<made, queue, leaked>>
    /\ UNCHANGED <<network, lock, timer, callback, task, taken, caller, asking, heap, inits, late, refused, failed,
                   strayed, fault>>

-----------------------------------------------------------------------------
(* mdns_free                                                                *)

BugForgetsHandlers ==
    /\ At("UP", "TIMER") \/ At("UNREGISTER", "UNQUEUE")
    /\ UNCHANGED <<server, network, made, queue, lock, timer, callback, task, taken, caller, asking, heap, inits, history, fault>>

(* First for WIFI_EVENT, then for IP_EVENT, of which it may run until the   *)
(* end; a handler that runs is waited for.  mdns_init calls it, too.        *)
mdns_priv_netif_unregister_predefined_handlers ==
    /\ At("UP", "TIMER") \/ At("UNREGISTER", "UNQUEUE")
    /\ handler # "POSTS" /\ handler' = "OFF"
    /\ UNCHANGED <<server, open, received, made, queue, lock, timer, callback, task, taken, caller, asking, heap, inits,
                   history, fault>>

(* It does not wait for a callback that runs.                               *)
stop_timer ==
    /\ At("TIMER", "STOP") /\ timer' = FALSE /\ late' = (callback # "NO")
    /\ UNCHANGED <<server, network, made, queue, lock, callback, task, taken, caller, asking, heap, inits,
                   refused, failed, strayed, leaked, fault>>

BugStopKeepsHandle ==
    /\ IF HasRoom
       THEN At("STOP", "JOIN") /\ mdns_priv_queue_action(Act("STOP", None)) /\ UNCHANGED refused
       ELSE At("STOP", "JOIN") /\ refused' = TRUE /\ UNCHANGED queue
    /\ UNCHANGED <<server, network, made, lock, timer, callback, task, taken, caller, asking, heap, inits, late, failed, strayed, leaked,
                   fault>>

(* A stop that does not fit is not waited for: the task is deleted with     *)
(* what it has taken.                                                       *)
service_task_stop ==
    /\ IF HasRoom
       THEN /\ At("STOP", "JOIN") /\ mdns_priv_queue_action(Act("STOP", None))
            /\ UNCHANGED <<task, taken, refused, leaked>>
       ELSE /\ At("STOP", "UNLOCKED") /\ refused' = TRUE /\ task' = "NONE"
            /\ taken' = <<>> /\ leaked' = leaked \cup ToSet(taken) /\ UNCHANGED queue
    /\ UNCHANGED <<server, network, made, lock, timer, callback, caller, asking, heap, inits, late, failed, strayed, fault>>

TaskDeleted ==
    /\ At("JOIN", "UNLOCKED") /\ task = "STOPPED" /\ task' = "NONE"
    /\ UNCHANGED <<server, network, made, queue, lock, timer, callback, taken, caller, asking, heap, inits, history, fault>>

LockDeleted ==
    /\ At("UNLOCKED", "SOCKETS") /\ lock' = "NONE"
    /\ UNCHANGED <<server, network, made, queue, timer, callback, task, taken, caller, asking, heap, inits, history, fault>>

(* The packets that wait stay.                                              *)
mdns_priv_pcb_deinit ==
    /\ At("SOCKETS", "DRAIN") /\ open' = FALSE
    /\ UNCHANGED <<server, handler, received, made, queue, lock, timer, callback, task, taken, caller, asking, heap, inits, history, fault>>

(* ACTION_CLEANUP: a search that has not begun, or one that is in the       *)
(* chain, where it stays                                                    *)
mdns_priv_query_action(act) ==
    IF act.type = "ADD" THEN {act.of} ELSE {act.of} \cap ToSet(chain)

(* What an action in the queue is freed with: a packet to send may be in    *)
(* the list or gone, and the packet of an RX goes with its action.          *)
free_action(act) ==
    CASE act.type \in {"ADD", "SEND", "END"} -> mdns_priv_query_action(act)
      [] act.type = "TX" -> {act.of}
      [] OTHER -> {}

(* The actions are freed in their order, one may dangle, and one may be     *)
(* what a caller waits for.                                                 *)
DrainQueue ==
    /\ main = "DRAIN" /\ queue # <<>> /\ queue' = Tail(queue)
    /\ LET gone == free_action(Head(queue))
       IN  /\ live' = live \ gone /\ freed' = freed \cup (live \cap gone)
           /\ fault' = IF ~(gone \subseteq live) THEN "heap" ELSE IF caller \in gone THEN "waiter" ELSE None
    /\ UNCHANGED <<main, server, network, made, lock, timer, callback, task, taken, caller, asking, chain, off, tx, inits,
                   history>>

BugQueueIsNotDrained ==
    /\ At("DRAIN", "DELETE")
    /\ UNCHANGED <<server, network, made, queue, lock, timer, callback, task, taken, caller, asking, heap, inits, history, fault>>

QueueDrained ==
    /\ queue = <<>> /\ At("DRAIN", "DELETE")
    /\ UNCHANGED <<server, network, made, queue, lock, timer, callback, task, taken, caller, asking, heap, inits, history, fault>>

(* With what a caller has sent since                                        *)
vQueueDelete ==
    /\ At("DELETE", "LISTS")
    /\ made' = FALSE /\ queue' = <<>> /\ leaked' = leaked \cup ToSet(queue)
    /\ UNCHANGED <<server, network, lock, timer, callback, task, taken, caller, asking, heap, inits, late, refused, failed,
                   strayed, fault>>

(* mdns_priv_clear_tx_queue, mdns_priv_query_free and the rest: all that is *)
(* in the lists, in the chain with the semaphore that the caller waits for. *)
FreeLists ==
    /\ At("LISTS", "DOWN") /\ server' = FALSE
    /\ LET listed == ToSet(chain) \cup {tx[k].packet : k \in DOMAIN tx}
       IN  /\ live' = live \ listed /\ freed' = freed \cup listed
           /\ fault' = IF listed \ live # {} THEN "heap"
                       ELSE IF Contains(chain, caller) THEN "waiter" ELSE None
    /\ chain' = <<>> /\ tx' = <<>> /\ UNCHANGED off
    /\ UNCHANGED <<network, made, queue, lock, timer, callback, task, taken, caller, asking, inits, history>>

-----------------------------------------------------------------------------
(* The event loop and lwIP                                                  *)

handle_system_event ==
    /\ handler = "ON" /\ server /\ received < MaxReceived
    /\ handler' = "POSTS" /\ received' = received + 1
    /\ UNCHANGED <<main, server, open, made, queue, lock, timer, callback, task, taken, caller, asking, heap, inits, history, fault>>

post_custom_action ==
    /\ handler = "POSTS" /\ handler' = "ON"
    /\ \/ ~made /\ fault' = "queue" /\ UNCHANGED queue
       \/ mdns_priv_queue_action(Act("EVENT", None)) /\ UNCHANGED fault
       \/ made /\ ~HasRoom /\ UNCHANGED <<queue, fault>>
    /\ UNCHANGED <<main, server, open, received, made, lock, timer, callback, task, taken, caller, asking, heap, inits, history>>

receive ==
    /\ open /\ received < MaxReceived /\ received' = received + 1
    /\ mdns_priv_queue_action(Act("RX", None))
    /\ UNCHANGED <<main, server, handler, open, made, lock, timer, callback, task, taken, caller, asking, heap, inits, history, fault>>

(* The server is all that a query asks for, from the first step of          *)
(* mdns_init to the last of mdns_free; then the search is allocated, ...    *)
QueryNew ==
    /\ server /\ asking = None
    /\ \E s \in Search \ (live \cup freed) : asking' = s /\ live' = live \cup {s}
    /\ UNCHANGED <<main, server, network, made, queue, lock, timer, callback, task, taken, caller, chain, off, tx, freed,
                   inits, history, fault>>

(* There is no queue, or none any more; ...                                 *)
Queueless == {"DOWN", "QUEUE", "SERVER", "LISTS"}

(* ... what is in it may end with it: in an mdns_init that fails, and       *)
(* between the loop that empties the queue and its end.                     *)
Unheard == {"NETIF", "REGISTER", "UNREGISTER", "UNQUEUE", "DELETE"}

(* ... and sent without the lock to whatever s_action_queue points to.  The *)
(* caller waits for it, or is told by a notifier.                           *)
send_search_action ==
    /\ asking # None /\ asking' = None
    /\ strayed' = strayed \cup ({main} \cap (Queueless \cup Unheard))
    /\ \/ ~made /\ fault' = "queue" /\ UNCHANGED <<queue, caller, live, freed>>
       \/ /\ mdns_priv_queue_action(Act("ADD", asking)) /\ UNCHANGED <<live, freed, fault>>
          /\ (caller = None /\ caller' = asking) \/ UNCHANGED caller
       \/ /\ made /\ ~HasRoom /\ live' = live \ {asking} /\ freed' = freed \cup {asking}
          /\ UNCHANGED <<queue, caller, fault>>
    /\ UNCHANGED <<main, server, network, made, lock, timer, callback, task, taken, chain, off, tx, inits,
                   late, refused, failed, leaked>>

-----------------------------------------------------------------------------
(* The timer                                                                *)

TimerFires ==
    /\ timer /\ callback = "NO" /\ callback' = "SENDS"
    /\ UNCHANGED <<main, server, network, made, queue, lock, timer, task, taken, caller, asking, heap, inits, history, fault>>

(* The first `n' of these that there is room for                            *)
Pushed(acts, n) == SubSeq(acts, 1, IF n < MaxQueue - Len(queue) THEN n ELSE MaxQueue - Len(queue))

Callback(at) ==
    /\ callback = at
    /\ UNCHANGED <<main, server, network, made, lock, timer, task, taken, caller, asking, chain, live, freed, inits, history>>

NoLock == lock = "NONE" /\ fault' = "lock" /\ UNCHANGED <<callback, queue, tx, off>>

(* The packets from the first that is not marked on are pushed, as many as  *)
(* it is time for.                                                          *)
mdns_priv_send_packets ==
    /\ Callback("SENDS")
    /\ \/ NoLock
       \/ /\ lock = "FREE" /\ callback' = "WALKS" /\ UNCHANGED <<off, fault>>
          /\ LET k == SelectInSeq(tx, LAMBDA e : ~e.queued)
                 rest == IF k = 0 THEN <<>> ELSE SubSeq(tx, k, Len(tx))
             IN  \E n \in 0..Len(rest) :
                    LET acts == Pushed([j \in DOMAIN rest |-> Act("TX", rest[j].packet)], n)
                        now == [j \in DOMAIN tx |-> [tx[j] EXCEPT !.queued = IF j \in k..k + n - 1 THEN j < k + Len(acts) ELSE @]]
                    IN  queue' = queue \o acts /\ tx' = now

(* Each search that is on may be over, may be sent, or has to wait: of those *)
(* that need not, as many as there is room for.                             *)
mdns_priv_query_start_stop ==
    /\ Callback("WALKS")
    /\ \/ NoLock
       \/ /\ lock = "FREE" /\ callback' = "NO" /\ UNCHANGED <<tx, fault>>
          /\ \E n \in {m \in 0..Len(chain) : Len(queue) + m <= MaxQueue} :
             \E at \in [1..n -> DOMAIN chain], type \in [1..n -> {"SEND", "END"}] :
                /\ \A i, j \in 1..n : i < j => at[i] < at[j]
                /\ \A j \in 1..n : chain[at[j]] \notin off
                /\ queue' = queue \o [j \in 1..n |-> Act(type[j], chain[at[j]])]
                /\ off' = off \cup {chain[at[j]] : j \in {i \in 1..n : type[i] = "END"}}

-----------------------------------------------------------------------------
(* The service task                                                         *)

ServiceTakes ==
    /\ task = "WAITS" /\ queue # <<>> /\ queue' = Tail(queue)
    /\ IF Head(queue).type = "STOP"
       THEN task' = "STOPPED" /\ UNCHANGED taken
       ELSE task' = "TAKEN" /\ taken' = <<Head(queue)>>
    /\ UNCHANGED <<main, server, network, made, lock, timer, callback, caller, asking, heap, inits, history, fault>>

Executes(types) ==
    /\ task = "TAKEN" /\ lock = "FREE" /\ Head(taken).type \in types
    /\ task' = "WAITS" /\ taken' = <<>>
    /\ UNCHANGED <<main, server, handler, received, made, queue, lock, timer, callback, asking, inits, history, fault>>

(* In order of time, which may be anywhere in the list                      *)
mdns_priv_send_after(list, p) ==
    \E k \in 1..Len(list) + 1 : tx' = InsertAt(list, k, [packet |-> p, queued |-> FALSE])

(* A packet or an event may have one scheduled: an answer, a probe (at      *)
(* which of the unused addresses, makes no difference).  An event may open  *)
(* the socket.                                                              *)
Schedules ==
    /\ Executes({"RX", "EVENT"})
    /\ UNCHANGED open \/ (Head(taken).type = "EVENT" /\ open' = TRUE)
    /\ \/ UNCHANGED <<live, tx>>
       \/ LET unused == Packet \ (live \cup freed)
              p == CHOOSE q \in unused : TRUE
          IN  unused # {} /\ live' = live \cup {p} /\ mdns_priv_send_after(tx, p)
    /\ UNCHANGED <<caller, chain, off, freed>>

mdns_priv_pcb_disable ==
    /\ Executes({"EVENT"}) /\ open' = FALSE
    /\ LET waiting == {tx[k].packet : k \in DOMAIN tx} IN live' = live \ waiting /\ freed' = freed \cup waiting
    /\ tx' = <<>>
    /\ UNCHANGED <<caller, chain, off>>

(* The packet at the head is sent, and freed or scheduled again.            *)
send_packet ==
    /\ Executes({"TX"})
    /\ IF tx # <<>> /\ Head(tx).packet = Head(taken).of /\ Head(tx).queued
       THEN \/ mdns_priv_send_after(Tail(tx), Head(tx).packet) /\ UNCHANGED <<live, freed>>
            \/ /\ tx' = Tail(tx) /\ live' = live \ {Head(tx).packet} /\ freed' = freed \cup {Head(tx).packet}
       ELSE UNCHANGED <<tx, live, freed>>
    /\ UNCHANGED <<open, caller, chain, off>>

search_add ==
    /\ Executes({"ADD"}) /\ chain' = <<Head(taken).of>> \o chain
    /\ UNCHANGED <<open, caller, off, tx, live, freed>>

(* The search leaves the chain, and is freed by whom it belongs to.         *)
Finish(s) ==
    /\ \E k \in DOMAIN chain : chain[k] = s /\ chain' = RemoveAt(chain, k)
    /\ off' = off \cup {s}
    /\ live' = live \ {s} /\ freed' = freed \cup {s}
    /\ caller' = IF caller = s THEN None ELSE caller

(* Timed out, or full with the results of a packet                          *)
search_finish ==
    /\ \/ Executes({"END"}) /\ Finish(Head(taken).of)
       \/ Executes({"RX"}) /\ \E s \in ToSet(chain) : Finish(s)
       \/ /\ Executes({"SEND", "END"}) /\ (Head(taken).type = "END" => ~Contains(chain, Head(taken).of))
          /\ UNCHANGED <<caller, chain, off, live, freed>>
    /\ UNCHANGED <<open, tx>>

-----------------------------------------------------------------------------
MdnsInit ==
    \/ mdns_priv_responder_init \/ CreatesQueue \/ mdns_priv_netif_init \/ esp_event_handler_register
    \/ mdns_priv_pcb_enable \/ service_task_start
    \/ create_task_with_caps \/ StartFails \/ mdns_priv_netif_deinit \/ InitFails

Ends ==
    \/ stop_timer \/ service_task_stop \/ TaskDeleted \/ LockDeleted
    \/ mdns_priv_pcb_deinit \/ DrainQueue \/ QueueDrained \/ vQueueDelete \/ FreeLists

Service ==
    \/ ServiceTakes \/ Schedules \/ mdns_priv_pcb_disable \/ send_packet \/ search_add \/ search_finish

Others ==
    \/ handle_system_event \/ post_custom_action \/ receive \/ QueryNew \/ send_search_action
    \/ TimerFires \/ mdns_priv_send_packets \/ mdns_priv_query_start_stop

Next ==
    /\ fault = None
    /\ MdnsInit \/ mdns_priv_netif_unregister_predefined_handlers \/ Ends \/ Service \/ Others

(* A call that has begun to end goes on, and the task has its turns.        *)
Fairness == WF_vars(fault = None /\ Ends) /\ WF_vars(fault = None /\ Service)

Spec == Init /\ [][Next]_vars /\ Fairness

-----------------------------------------------------------------------------
(* What is used after its end is used for a reason: the lock by a timer     *)
(* callback that was under way when the timer was stopped; the queue by a   *)
(* handler that an init which failed left registered, or by a query that    *)
(* was sent where there is none; the heap because such a callback, or a     *)
(* queue with no room for the stop, leaves actions behind the task.  In all *)
(* other runs every end, at whatever moment, uses only what is there; it    *)
(* may pull the semaphore from under the caller that waits.                 *)
FaultsHaveCauses ==
    /\ fault = "lock" => late
    /\ fault = "queue" => "TASK" \in failed \/ strayed \cap Queueless # {}
    /\ fault = "heap" => late \/ refused

(* The searches of the ADDs that were lost                                  *)
Lost == {act.of : act \in {a \in leaked : a.type = "ADD"}}

(* After mdns_free, or an mdns_init that failed, nothing is left that could *)
(* start work, but for the handlers where the task could not be had.        *)
(* Actions are left only by an init that failed with a handler registered,  *)
(* by a task deleted with what it had taken, and by a query sent where      *)
(* nobody hears it; of the heap only the searches of these, and the one     *)
(* that is about to be sent; and nobody is left waiting for another search. *)
NothingLeft ==
    main = "DOWN" /\ fault = None =>
      /\ ~open /\ ~made /\ ~timer /\ lock = "NONE" /\ task = "NONE"
      /\ "TASK" \in failed \/ handler = "OFF"
      /\ leaked = {} \/ failed # {} \/ refused \/ strayed \cap Unheard # {}
      /\ live \subseteq Lost \cup {asking}
      /\ caller \in Lost \cup {None}

(* mdns_free returns.                                                       *)
FreeReturns == main = "TIMER" ~> main = "DOWN" \/ fault # None
=============================================================================
