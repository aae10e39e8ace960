----------------------------- MODULE MdnsSearch -----------------------------
(***************************************************************************)
(* The one-shot queries of the mDNS component                               *)
(* (src/managed_components/espressif__mdns/mdns_querier.c), which           *)
(* scanForTvs asks for TVs through MDNS.queryService.  Four kinds of task   *)
(* share a search: the caller allocates it, waits for it or is notified,    *)
(* and frees it; the service task links it in, sends it, fills it and       *)
(* finishes it, one queued action at a time; the timer walks the chain to   *)
(* resend and to end searches; lwIP queues what it receives.  The service   *)
(* lock covers the actions, the walk and the deletion, but neither the      *)
(* queue nor the freeing of a synchronous query.                            *)
(***************************************************************************)
EXTENDS Naturals, Sequences

CONSTANTS
    Search,      \* the addresses at which the heap can place a search
    MaxQueue,    \* MDNS_ACTION_QUEUE_LEN
    MaxResults,  \* bound: the largest max_results asked for
    MaxQueries,  \* bound: searches allocated, one after the other
    MaxPackets   \* bound: packets received

ASSUME MaxQueueAssumption == MaxQueue \in Nat
ASSUME LimitsAssumption == MaxResults \in Nat /\ MaxQueries \in Nat /\ MaxPackets \in Nat

VARIABLES
    search,          \* what is at each address
    s_search_once,   \* the searches in the chain; their order decides nothing but who is first
    s_action_queue,  \* the actions waiting for the service task
    action,          \* the one it has taken and not executed yet, or none
    timer,           \* what the walk of the timer has still before it
    queries,         \* searches allocated so far
    packets          \* packets received so far

vars == <<search, s_search_once, s_action_queue, action, timer, queries, packets>>

(* id tells one allocation at an address from the next; told counts the     *)
(* calls of the notifier; max_results is 0 when there is no limit, and then *)
(* num_results is of no concern.                                            *)
Searches ==
    [user : {"none", "sync", "async"}, id : 0..MaxQueries,
     state : {"INIT", "RUNNING", "OFF"}, late : BOOLEAN, done : BOOLEAN, told : 0..2,
     max_results : 0..MaxResults, num_results : 0..MaxResults]

Freed == [user |-> "none", id |-> 0, state |-> "OFF", late |-> FALSE, done |-> FALSE, told |-> 0,
          max_results |-> 0, num_results |-> 0]

Actions == [type : {"ADD", "SEND", "END"}, search : Search, id : 0..MaxQueries]
             \cup [type : {"RX"}]

TypeOK ==
    /\ search \in [Search -> Searches]
    /\ s_search_once \subseteq Search
    /\ s_action_queue \in Seq(Actions) /\ Len(s_action_queue) <= MaxQueue
    /\ action \in Seq(Actions) /\ Len(action) <= 1
    /\ timer \subseteq Search
    /\ queries \in 0..MaxQueries
    /\ packets \in 0..MaxPackets

Init ==
    /\ search = [s \in Search |-> Freed]
    /\ s_search_once = {} /\ s_action_queue = <<>> /\ action = <<>> /\ timer = {}
    /\ queries = 0 /\ packets = 0

Live(s) == search[s].user # "none"
Listed(s) == s \in s_search_once

(* The lock is free unless the timer walks: an action and a deletion are    *)
(* one step each.                                                           *)
LockFree == timer = {}

HasRoom == Len(s_action_queue) < MaxQueue

SearchAction(type, s) == [type |-> type, search |-> s, id |-> search[s].id]

mdns_priv_queue_action(act) == HasRoom /\ s_action_queue' = Append(s_action_queue, act)

-----------------------------------------------------------------------------
(* The callers                                                              *)

BugQueryNewToFront(s, user, max) ==
    /\ ~Live(s) /\ queries < MaxQueries
    /\ queries' = queries + 1
    /\ search' = [search EXCEPT ![s] = [Freed EXCEPT !.user = user, !.id = queries + 1,
                                                     !.state = "INIT", !.max_results = max]]
    /\ HasRoom
    /\ s_action_queue' = <<[type |-> "ADD", search |-> s, id |-> queries + 1]>> \o s_action_queue
    /\ UNCHANGED <<s_search_once, action, timer, packets>>

(* With no room for the action the search is freed at once and the caller   *)
(* told: nothing has happened.                                              *)
QueryNew(s, user, max) ==
    /\ ~Live(s) /\ queries < MaxQueries
    /\ queries' = queries + 1
    /\ search' = [search EXCEPT ![s] = [Freed EXCEPT !.user = user, !.id = queries + 1,
                                                     !.state = "INIT", !.max_results = max]]
    /\ mdns_priv_queue_action([type |-> "ADD", search |-> s, id |-> queries + 1])
    /\ UNCHANGED <<s_search_once, action, timer, packets>>

(* mdns_query_generic wakes up and frees the search without the lock.       *)
QueryReturns(s) ==
    /\ search[s].user = "sync" /\ search[s].done
    /\ search' = [search EXCEPT ![s] = Freed]
    /\ UNCHANGED <<s_search_once, s_action_queue, action, timer, queries, packets>>

mdns_query_async_get_results(s) ==
    /\ search[s].user = "async" /\ search[s].done
    /\ search' = [search EXCEPT ![s].done = FALSE]
    /\ UNCHANGED <<s_search_once, s_action_queue, action, timer, queries, packets>>

BugAsyncDeleteKeepsListed(s) ==
    /\ search[s].user = "async"
    /\ LockFree
    /\ search[s].state = "OFF"
    /\ search' = [search EXCEPT ![s] = Freed]
    /\ UNCHANGED <<s_search_once, s_action_queue, action, timer, queries, packets>>

(* Between the walk that turned the search off and the action that ends it, *)
(* it is still in the chain.                                                *)
mdns_query_async_delete(s) ==
    /\ search[s].user = "async"
    /\ LockFree
    /\ search[s].state = "OFF"
    /\ s_search_once' = s_search_once \ {s}
    /\ search' = [search EXCEPT ![s] = Freed]
    /\ UNCHANGED <<s_action_queue, action, timer, queries, packets>>

-----------------------------------------------------------------------------
(* The timer: mdns_priv_query_start_stop                                    *)

TimesOut(s) ==
    /\ Live(s) /\ ~search[s].late
    /\ search' = [search EXCEPT ![s].late = TRUE]
    /\ UNCHANGED <<s_search_once, s_action_queue, action, timer, queries, packets>>

TimerBegins ==
    /\ LockFree
    /\ s_search_once # {}
    /\ timer' = s_search_once
    /\ UNCHANGED <<search, s_search_once, s_action_queue, action, queries, packets>>

BugEndSearchStaysOff(s) ==
    /\ search[s].state # "OFF" /\ search[s].late
    /\ search' = [search EXCEPT ![s].state = "OFF"]
    /\ \/ mdns_priv_queue_action(SearchAction("END", s))
       \/ ~HasRoom /\ UNCHANGED s_action_queue

EndSearch(s) ==
    /\ search[s].state # "OFF" /\ search[s].late
    /\ \/ /\ mdns_priv_queue_action(SearchAction("END", s))
          /\ search' = [search EXCEPT ![s].state = "OFF"]
       \/ /\ ~HasRoom /\ UNCHANGED s_action_queue
          /\ search' = [search EXCEPT ![s].state = "RUNNING"]

(* A running search is sent again after a second, or sooner when the last   *)
(* attempt found no room.                                                   *)
SendSearch(s) ==
    /\ search[s].state # "OFF" /\ ~search[s].late
    /\ search' = [search EXCEPT ![s].state = "RUNNING"]
    /\ \/ mdns_priv_queue_action(SearchAction("SEND", s))
       \/ ~HasRoom /\ UNCHANGED s_action_queue

LeaveSearch(s) ==
    /\ search[s].state = "OFF" \/ (search[s].state = "RUNNING" /\ ~search[s].late)
    /\ UNCHANGED <<search, s_action_queue>>

TimerVisits ==
    /\ \E s \in timer :
         /\ timer' = timer \ {s}
         /\ EndSearch(s) \/ SendSearch(s) \/ LeaveSearch(s)
    /\ UNCHANGED <<s_search_once, action, queries, packets>>

-----------------------------------------------------------------------------
(* The service task and lwIP                                                *)

(* A packet that finds no room is dropped.                                  *)
PacketArrives ==
    /\ packets < MaxPackets
    /\ packets' = packets + 1
    /\ mdns_priv_queue_action([type |-> "RX"])
    /\ UNCHANGED <<search, s_search_once, action, timer, queries>>

(* The action is taken from the queue before the lock is.                   *)
ServiceTakes ==
    /\ action = <<>> /\ s_action_queue # <<>>
    /\ action' = <<Head(s_action_queue)>>
    /\ s_action_queue' = Tail(s_action_queue)
    /\ UNCHANGED <<search, s_search_once, timer, queries, packets>>

Executes(type) ==
    /\ action # <<>> /\ action[1].type = type
    /\ LockFree
    /\ action' = <<>>
    /\ UNCHANGED <<s_action_queue, timer, queries, packets>>

search_add ==
    /\ Executes("ADD")
    /\ s_search_once' = s_search_once \cup {action[1].search}
    /\ UNCHANGED search

(* Only a search in the chain is looked at, and nothing of it changes.      *)
search_send ==
    /\ Executes("SEND")
    /\ UNCHANGED <<search, s_search_once>>

BugFinishedUnlisted(s, found) ==
    [found EXCEPT !.state = "OFF", !.done = TRUE,
                  !.told = IF found.user = "async" THEN found.told + 1 ELSE found.told]

(* search_finish: not in the chain, the address may be anyone's by now.     *)
Finished(s, found) ==
    IF Listed(s)
    THEN [found EXCEPT !.state = "OFF", !.done = TRUE,
                       !.told = IF found.user = "async" THEN found.told + 1 ELSE found.told]
    ELSE found

EndAction ==
    /\ Executes("END")
    /\ LET ended == action[1].search
       IN  /\ search' = [search EXCEPT ![ended] = Finished(ended, search[ended])]
           /\ s_search_once' = s_search_once \ {ended}

(* mdns_parse_packet: the answers go to the running searches they match, up *)
(* to the limit of each.                                                    *)
Answered(s, hits) ==
    LET found == search[s].num_results + hits[s]
        max == search[s].max_results
    IN  IF Listed(s) /\ search[s].state # "OFF"
        THEN [search[s] EXCEPT !.num_results = IF found < max THEN found ELSE max]
        ELSE search[s]

BugFull(answered) ==
    {s \in s_search_once : answered[s].num_results >= answered[s].max_results}

(* A packet with the authoritative flag finishes the searches that now have *)
(* all the results they asked for (mdns_priv_query_done).                   *)
Full(answered) ==
    {s \in s_search_once : /\ answered[s].max_results > 0
                           /\ answered[s].num_results >= answered[s].max_results}

Receive ==
    /\ Executes("RX")
    /\ \E hits \in [Search -> 0..MaxResults], authoritative \in BOOLEAN :
         LET answered == [s \in Search |-> Answered(s, hits)]
             full == IF authoritative THEN Full(answered) ELSE {}
         IN  /\ search' = [s \in Search |-> IF s \in full THEN Finished(s, answered[s])
                                                          ELSE answered[s]]
             /\ s_search_once' = s_search_once \ full

-----------------------------------------------------------------------------
Caller ==
    \E s \in Search :
        \/ \E user \in {"sync", "async"}, max \in 0..MaxResults : QueryNew(s, user, max)
        \/ QueryReturns(s)
        \/ mdns_query_async_get_results(s)
        \/ mdns_query_async_delete(s)

Timer == TimerBegins \/ TimerVisits

Execute == search_add \/ search_send \/ EndAction \/ Receive

Next ==
    \/ Caller \/ Timer \/ (\E s \in Search : TimesOut(s))
    \/ PacketArrives \/ ServiceTakes \/ Execute

Spec == Init /\ [][Next]_vars

(* The clock runs, the timer is periodic, the service task serves its queue *)
(* and a caller that is woken up runs.  The lock is a FreeRTOS mutex, free  *)
(* between two walks and given to the task that waits for it: hence strong  *)
(* fairness for what the service task does under it.  MaxPackets ends the   *)
(* traffic that could keep the queue full at every walk.                    *)
Fairness ==
    /\ WF_vars(ServiceTakes) /\ SF_vars(Execute) /\ WF_vars(Timer)
    /\ \A s \in Search : WF_vars(TimesOut(s)) /\ WF_vars(QueryReturns(s))

FairSpec == Spec /\ Fairness

-----------------------------------------------------------------------------
(* Properties                                                               *)

(* The chain and what the timer has still to visit hold only searches that  *)
(* are allocated and not finished: no task follows a pointer to freed or    *)
(* reused memory, wherever the deletion falls between the walk that turns a *)
(* search off and the action that ends it (mdns_query_async_delete).        *)
ListedIsLive ==
    /\ \A s \in s_search_once : Live(s) /\ ~search[s].done /\ search[s].told = 0
    /\ timer \subseteq s_search_once

Pending == action \o s_action_queue

ForSearch(act, s) == act.type # "RX" /\ act.search = s

(* An action never acts on another search than it was made for, although    *)
(* the heap may give the address to the next search while it is queued:     *)
(* stale actions stand before the ADD of the new owner, and find the address*)
(* out of the chain.                                                        *)
OwnAction ==
    action # <<>> /\ action[1].type # "RX" =>
        LET act == action[1]
        IN  act.type = "ADD" \/ Listed(act.search) => search[act.search].id = act.id

(* Nobody waits for a search that has been lost: one that is not finished   *)
(* is in the chain or on its way there, and one that the timer has turned   *)
(* off has its END on the way.                                              *)
WaitersAreServed ==
    \A s \in Search : Live(s) =>
        /\ \/ Listed(s)
           \/ \E i \in DOMAIN Pending : Pending[i].type = "ADD" /\ Pending[i].search = s
           \/ search[s].state = "OFF" /\ (search[s].user = "sync" => search[s].done)
        /\ Listed(s) /\ search[s].state = "OFF" =>
             \E i \in DOMAIN Pending : Pending[i].type = "END" /\ Pending[i].search = s

(* The notifier is called at most once for a search, although a full result *)
(* and the timeout may both finish it (search_finish).                      *)
NotifiedOnce == \A s \in Search : search[s].told <= 1

(* To the callers it looks as if there were no chain, no queue and no       *)
(* reused addresses: no action, packet or deletion ends a query that has    *)
(* neither all its results nor its time up, ends it twice, or writes to its *)
(* results once it is over (search_finish, mdns_query_async_delete).        *)
Phase(s) ==
    IF ~Live(s) THEN "none"
    ELSE IF search[s].done THEN "over"
    ELSE IF search[s].told > 0 THEN "taken"
    ELSE IF search[s].late THEN "late" ELSE "running"

AsPromised(s) == [phase |-> Phase(s), waits |-> search[s].user = "sync",
                  max |-> search[s].max_results, found |-> search[s].num_results]

query == [s \in Search |-> AsPromised(s)]

Promise == INSTANCE QueryPromise

Promised == Promise!Spec

(* Every query ends: the caller of mdns_query_generic, which waits without a*)
(* timeout of its own, gets its results back, and an asynchronous search    *)
(* gets to the state in which it may be deleted.                            *)
QueriesEnd ==
    \A s \in Search : /\ (search[s].user = "sync") ~> (search[s].user # "sync")
                      /\ (search[s].user = "async") ~> (search[s].state = "OFF")
=============================================================================
