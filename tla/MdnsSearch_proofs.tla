-------------------------- MODULE MdnsSearch_proofs --------------------------
(***************************************************************************)
(* Proofs about MdnsSearch, for every heap, queue, limit and number of      *)
(* queries and packets.  The invariant speaks of the actions on their way,  *)
(* Pending: the one the service task holds and then the queue.  A step      *)
(* appends to it, takes its first action off, or leaves it alone.  The      *)
(* last part shows that the queries are as QueryPromise says.               *)
(***************************************************************************)
EXTENDS MdnsSearch, SequenceTheorems, TLAPS

(* An ADD is for a search nobody has touched since it was allocated.        *)
AddsAreFresh ==
    \A i \in DOMAIN Pending : Pending[i].type = "ADD" =>
        LET s == Pending[i].search
        IN  /\ Live(s) /\ search[s].state = "INIT" /\ search[s].id = Pending[i].id
            /\ ~search[s].done /\ search[s].told = 0
            /\ ~Listed(s)

(* Nothing for a search stands behind its ADD.                              *)
NothingBehindAdd ==
    \A i, j \in DOMAIN Pending :
        i < j /\ Pending[i].type = "ADD" => ~ForSearch(Pending[j], Pending[i].search)

(* What is on its way for a search in the chain is its own.                 *)
ListedOwnsActions ==
    \A i \in DOMAIN Pending : \A s \in Search :
        Listed(s) /\ ForSearch(Pending[i], s) => search[s].id = Pending[i].id

IInv ==
    /\ TypeOK
    /\ ListedIsLive
    /\ AddsAreFresh
    /\ NothingBehindAdd
    /\ ListedOwnsActions
    /\ WaitersAreServed

-----------------------------------------------------------------------------
(* How Pending changes                                                      *)

LEMMA PendingIsSeq ==
    ASSUME TypeOK
    PROVE  /\ Pending \in Seq(Actions)
           /\ DOMAIN Pending = 1..Len(Pending) /\ Len(Pending) \in Nat
           /\ \A i \in DOMAIN Pending : Pending[i] \in Actions
<1>1. action \in Seq(Actions) /\ s_action_queue \in Seq(Actions)
  BY DEF TypeOK
<1>2. Pending \in Seq(Actions)
  BY <1>1, ConcatProperties DEF Pending
<1> QED BY <1>2, LenProperties, ElementOfSeq

LEMMA PendingAppends ==
    ASSUME TypeOK, NEW act \in Actions,
           s_action_queue' = Append(s_action_queue, act), UNCHANGED action
    PROVE  /\ DOMAIN Pending' = 1..Len(Pending) + 1
           /\ \A i \in DOMAIN Pending : i \in DOMAIN Pending' /\ Pending'[i] = Pending[i]
           /\ Pending'[Len(Pending) + 1] = act
<1>1. action \in Seq(Actions) /\ s_action_queue \in Seq(Actions)
  BY DEF TypeOK
<1>2. Pending' = Append(Pending, act)
  BY <1>1 DEF Pending
<1>3. Pending \in Seq(Actions) /\ DOMAIN Pending = 1..Len(Pending) /\ Len(Pending) \in Nat
  BY PendingIsSeq
<1>4. /\ Append(Pending, act) \in Seq(Actions)
      /\ Len(Append(Pending, act)) = Len(Pending) + 1
      /\ \A i \in 1..Len(Pending) : Append(Pending, act)[i] = Pending[i]
      /\ Append(Pending, act)[Len(Pending) + 1] = act
  BY <1>3
<1>5. DOMAIN Append(Pending, act) = 1..Len(Pending) + 1
  BY <1>4, LenProperties
<1> QED BY <1>2, <1>3, <1>4, <1>5

LEMMA PendingTaken ==
    ASSUME TypeOK, ServiceTakes
    PROVE  Pending' = Pending
<1>1. s_action_queue \in Seq(Actions) /\ s_action_queue # <<>>
  BY DEF TypeOK, ServiceTakes
<1>2. <<Head(s_action_queue)>> \o Tail(s_action_queue) = <<>> \o s_action_queue
  BY <1>1
<1> QED BY <1>2 DEF Pending, ServiceTakes

LEMMA PendingExecuted ==
    ASSUME TypeOK, action # <<>>, action' = <<>>, UNCHANGED s_action_queue
    PROVE  /\ 1 \in DOMAIN Pending /\ Pending[1] = action[1]
           /\ \A i \in DOMAIN Pending' : i + 1 \in DOMAIN Pending /\ Pending'[i] = Pending[i + 1]
           /\ DOMAIN Pending' = 1..Len(Pending) - 1
           /\ action[1] \in Actions
<1>1. action \in Seq(Actions) /\ Len(action) \in Nat \ {0} /\ Len(action) <= 1
  BY EmptySeq DEF TypeOK
<1>2. s_action_queue \in Seq(Actions) /\ Len(s_action_queue) \in Nat
  BY LenProperties DEF TypeOK
<1>3. /\ Pending \in Seq(Actions) /\ Len(Pending) = Len(action) + Len(s_action_queue)
      /\ \A i \in 1..Len(action) + Len(s_action_queue) :
            Pending[i] = IF i <= Len(action) THEN action[i] ELSE s_action_queue[i - Len(action)]
  BY <1>1, <1>2, ConcatProperties DEF Pending
<1>4. Len(action) = 1
  BY <1>1
<1>5. Pending' = s_action_queue
  BY <1>2, ConcatEmptySeq DEF Pending
<1>6. DOMAIN s_action_queue = 1..Len(s_action_queue) /\ DOMAIN Pending = 1..Len(Pending)
  BY <1>2, <1>3, LenProperties
<1>7. \A i \in 1..Len(s_action_queue) : i + 1 \in DOMAIN Pending /\ s_action_queue[i] = Pending[i + 1]
  BY <1>2, <1>3, <1>4, <1>6
<1>8. 1 \in DOMAIN Pending /\ Pending[1] = action[1]
  BY <1>2, <1>3, <1>4, <1>6
<1> QED BY <1>2, <1>3, <1>4, <1>5, <1>6, <1>7, <1>8, ElementOfSeq

LEMMA QueueKeepsType ==
    ASSUME TypeOK, NEW act \in Actions, mdns_priv_queue_action(act)
    PROVE  s_action_queue' \in Seq(Actions) /\ Len(s_action_queue') <= MaxQueue
<1>1. s_action_queue \in Seq(Actions) /\ s_action_queue' = Append(s_action_queue, act)
      /\ Len(s_action_queue) < MaxQueue
  BY DEF TypeOK, mdns_priv_queue_action, HasRoom
<1>2. Append(s_action_queue, act) \in Seq(Actions) /\ Len(s_action_queue) \in Nat
      /\ Len(Append(s_action_queue, act)) = Len(s_action_queue) + 1
  BY <1>1
<1> QED BY <1>1, <1>2, MaxQueueAssumption

LEMMA ActionsShape ==
    \A act \in Actions :
        /\ act.type \in {"ADD", "SEND", "END", "RX"}
        /\ act.type # "RX" => act.search \in Search /\ act.id \in 0..MaxQueries
BY DEF Actions

-----------------------------------------------------------------------------
(* The invariant, one action after the other                                *)

LEMMA QueryNewKeeps ==
    ASSUME IInv, NEW s \in Search, NEW user \in {"sync", "async"}, NEW max \in 0..MaxResults,
           QueryNew(s, user, max)
    PROVE  IInv'
<1> DEFINE act == [type |-> "ADD", search |-> s, id |-> queries + 1]
<1> USE LimitsAssumption, MaxQueueAssumption
<1>1. TypeOK /\ ListedIsLive /\ AddsAreFresh /\ NothingBehindAdd /\ ListedOwnsActions
      /\ WaitersAreServed
  BY DEF IInv
<1>2. act \in Actions /\ queries + 1 \in 0..MaxQueries
  BY <1>1 DEF QueryNew, Actions, TypeOK
<1>3. s_action_queue' = Append(s_action_queue, act) /\ UNCHANGED <<action, s_search_once, timer>>
  BY DEF QueryNew, mdns_priv_queue_action
<1>4. /\ DOMAIN Pending' = 1..Len(Pending) + 1
      /\ \A i \in DOMAIN Pending : i \in DOMAIN Pending' /\ Pending'[i] = Pending[i]
      /\ Pending'[Len(Pending) + 1] = act
  BY <1>1, <1>2, <1>3, PendingAppends
<1>5. DOMAIN Pending = 1..Len(Pending) /\ Len(Pending) \in Nat
      /\ \A i \in DOMAIN Pending : Pending[i] \in Actions
  BY <1>1, PendingIsSeq
<1>6. \A i \in DOMAIN Pending' : i \in DOMAIN Pending \/ i = Len(Pending) + 1
  BY <1>4, <1>5
<1>7. /\ \A t \in Search : t # s => search'[t] = search[t]
      /\ search'[s] = [user |-> user, id |-> queries + 1, state |-> "INIT", late |-> FALSE,
                       done |-> FALSE, told |-> 0, max_results |-> max, num_results |-> 0]
      /\ ~Live(s)
  BY <1>1 DEF QueryNew, Freed, TypeOK
<1>8. TypeOK'
  <2>1. search' \in [Search -> Searches]
    <3>1. search'[s] \in Searches
      BY <1>2, <1>7 DEF Searches
    <3>2. search' = [search EXCEPT ![s] = search'[s]]
      BY <1>1 DEF QueryNew, TypeOK
    <3> QED BY <1>1, <3>1, <3>2 DEF TypeOK
  <2>2. s_action_queue' \in Seq(Actions) /\ Len(s_action_queue') <= MaxQueue
    BY <1>1, <1>2, QueueKeepsType DEF QueryNew
  <2> QED BY <1>1, <1>2, <1>3, <2>1, <2>2 DEF TypeOK, QueryNew
<1>9. s \notin s_search_once
  BY <1>1, <1>7 DEF ListedIsLive
<1>10. ListedIsLive'
  BY <1>1, <1>3, <1>7, <1>9 DEF ListedIsLive, TypeOK, Live
<1>11. \A i \in DOMAIN Pending : Pending[i].type = "ADD" => Pending[i].search \in Search \ {s}
  BY <1>1, <1>5, <1>7, ActionsShape DEF AddsAreFresh
<1>12. AddsAreFresh'
  BY <1>1, <1>3, <1>4, <1>5, <1>6, <1>7, <1>9, <1>11 DEF AddsAreFresh, Live, Listed
<1>13. NothingBehindAdd'
  BY <1>1, <1>4, <1>5, <1>6, <1>11 DEF NothingBehindAdd, ForSearch
<1>14. ListedOwnsActions'
  BY <1>1, <1>3, <1>4, <1>6, <1>7, <1>9 DEF ListedOwnsActions, ForSearch, Listed
<1>15. WaitersAreServed'
  <2> SUFFICES ASSUME NEW t \in Search, Live(t)'
               PROVE  /\ \/ Listed(t)'
                         \/ \E i \in DOMAIN Pending' : Pending'[i].type = "ADD" /\ Pending'[i].search = t
                         \/ search'[t].state = "OFF" /\ (search'[t].user = "sync" => search'[t].done)
                      /\ Listed(t)' /\ search'[t].state = "OFF" =>
                           \E i \in DOMAIN Pending' : Pending'[i].type = "END" /\ Pending'[i].search = t
    BY DEF WaitersAreServed
  <2>1. CASE t = s
    BY <1>3, <1>4, <1>5, <1>9, <2>1 DEF Listed
  <2>2. CASE t # s
    BY <1>1, <1>3, <1>4, <1>7, <2>2 DEF WaitersAreServed, Listed, Live
  <2> QED BY <2>1, <2>2
<1> QED BY <1>8, <1>10, <1>12, <1>13, <1>14, <1>15 DEF IInv

(* What leaves the actions alone leaves Pending alone.                      *)
LEMMA PendingStays ==
    ASSUME UNCHANGED <<s_action_queue, action>>
    PROVE  Pending' = Pending
BY DEF Pending

(* The caller's other operations free, or mark as read, a finished search.  *)
LEMMA CallerKeeps ==
    ASSUME IInv, NEW s \in Search,
           QueryReturns(s) \/ mdns_query_async_get_results(s) \/ mdns_query_async_delete(s)
    PROVE  IInv'
<1> USE LimitsAssumption
<1>1. TypeOK /\ ListedIsLive /\ AddsAreFresh /\ NothingBehindAdd /\ ListedOwnsActions
      /\ WaitersAreServed
  BY DEF IInv
<1>2. UNCHANGED <<s_action_queue, action, timer, queries, packets>>
  BY DEF QueryReturns, mdns_query_async_get_results, mdns_query_async_delete
<1>3. Pending' = Pending
  BY <1>2, PendingStays
<1>4. \A i \in DOMAIN Pending : Pending[i] \in Actions
  BY <1>1, PendingIsSeq
<1>5. /\ search[s] \in Searches /\ search[s].user \in {"sync", "async"}
      /\ search[s].done \/ (search[s].state = "OFF" /\ search[s].user = "async")
      /\ search' = [search EXCEPT ![s] = search'[s]]
      /\ \A t \in Search : t # s => search'[t] = search[t]
      /\ s_search_once' \subseteq s_search_once
      /\ \A t \in Search : t # s => (t \in s_search_once' <=> t \in s_search_once)
  BY <1>1 DEF QueryReturns, mdns_query_async_get_results, mdns_query_async_delete, TypeOK
<1>6. \/ search'[s] = Freed
      \/ search'[s] = [search[s] EXCEPT !.done = FALSE] /\ search[s].user = "async" /\ search[s].done
  BY <1>1 DEF QueryReturns, mdns_query_async_get_results, mdns_query_async_delete, TypeOK
<1>7. TypeOK'
  <2>1. search'[s] \in Searches
    <3>1. Freed \in Searches
      BY DEF Searches, Freed
    <3>2. [search[s] EXCEPT !.done = FALSE] \in Searches
      BY <1>5 DEF Searches
    <3> QED BY <1>6, <3>1, <3>2
  <2>2. search' \in [Search -> Searches]
    BY <1>1, <1>5, <2>1 DEF TypeOK
  <2> QED BY <1>1, <1>2, <1>5, <2>2 DEF TypeOK
<1>8. s \notin s_search_once' /\ timer' \subseteq s_search_once'
  <2>1. CASE search[s].done
    BY <1>1, <1>2, <1>5, <2>1 DEF ListedIsLive, TypeOK
  <2>2. CASE ~search[s].done
    BY <1>1, <1>2, <2>2 DEF ListedIsLive, TypeOK, LockFree, QueryReturns,
       mdns_query_async_get_results, mdns_query_async_delete
  <2> QED BY <2>1, <2>2
<1>9. ListedIsLive'
  BY <1>1, <1>5, <1>8 DEF ListedIsLive, TypeOK, Live
<1>10. \A i \in DOMAIN Pending : Pending[i].type = "ADD" => Pending[i].search \in Search \ {s}
  BY <1>1, <1>4, <1>5, ActionsShape DEF AddsAreFresh
<1>11. AddsAreFresh'
  BY <1>1, <1>3, <1>5, <1>10 DEF AddsAreFresh, Live, Listed
<1>12. NothingBehindAdd'
  BY <1>1, <1>3 DEF NothingBehindAdd, ForSearch
<1>13. ListedOwnsActions'
  BY <1>1, <1>3, <1>5, <1>8 DEF ListedOwnsActions, ForSearch, Listed
<1>14. Live(s)' => search'[s].state = "OFF" /\ search'[s].user = "async"
  <2>1. CASE search'[s] = Freed
    BY <2>1 DEF Live, Freed
  <2>2. CASE search'[s] = [search[s] EXCEPT !.done = FALSE] /\ search[s].user = "async" /\ search[s].done
    <3>1. search[s].state = "OFF"
      <4>1. ~Listed(s)
        BY <1>1, <2>2 DEF ListedIsLive, Listed
      <4>2. ~ \E i \in DOMAIN Pending : Pending[i].type = "ADD" /\ Pending[i].search = s
        BY <1>10
      <4> QED BY <1>1, <2>2, <4>1, <4>2 DEF WaitersAreServed, Live
    <3> QED BY <1>5, <2>2, <3>1 DEF Searches
  <2> QED BY <1>6, <2>1, <2>2
<1>15. WaitersAreServed'
  <2> SUFFICES ASSUME NEW t \in Search, Live(t)'
               PROVE  /\ \/ Listed(t)'
                         \/ \E i \in DOMAIN Pending' : Pending'[i].type = "ADD" /\ Pending'[i].search = t
                         \/ search'[t].state = "OFF" /\ (search'[t].user = "sync" => search'[t].done)
                      /\ Listed(t)' /\ search'[t].state = "OFF" =>
                           \E i \in DOMAIN Pending' : Pending'[i].type = "END" /\ Pending'[i].search = t
    BY DEF WaitersAreServed
  <2>1. CASE t = s
    BY <1>8, <1>14, <2>1 DEF Listed
  <2>2. CASE t # s
    BY <1>1, <1>3, <1>5, <2>2 DEF WaitersAreServed, Listed, Live
  <2> QED BY <2>1, <2>2
<1> QED BY <1>7, <1>9, <1>11, <1>12, <1>13, <1>15 DEF IInv

(* Only late changes, which the invariant does not speak of.                *)
LEMMA TimesOutKeeps ==
    ASSUME IInv, NEW s \in Search, TimesOut(s)
    PROVE  IInv'
<1>1. TypeOK /\ ListedIsLive /\ AddsAreFresh /\ NothingBehindAdd /\ ListedOwnsActions
      /\ WaitersAreServed
  BY DEF IInv
<1>2. UNCHANGED <<s_search_once, s_action_queue, action, timer, queries, packets>>
  BY DEF TimesOut
<1>3. Pending' = Pending /\ \A i \in DOMAIN Pending : Pending[i] \in Actions
  BY <1>1, <1>2, PendingStays, PendingIsSeq
<1>4. /\ search'[s] = [search[s] EXCEPT !.late = TRUE]
      /\ search' = [search EXCEPT ![s] = search'[s]]
      /\ search[s] \in Searches
      /\ \A t \in Search : t # s => search'[t] = search[t]
  BY <1>1 DEF TimesOut, TypeOK
<1>5. search'[s] \in Searches
  BY <1>4 DEF Searches
<1>6. \A t \in Search :
        /\ search'[t].user = search[t].user /\ search'[t].id = search[t].id
        /\ search'[t].state = search[t].state /\ search'[t].done = search[t].done
        /\ search'[t].told = search[t].told
  BY <1>4 DEF Searches
<1>7. TypeOK'
  BY <1>1, <1>2, <1>4, <1>5 DEF TypeOK
<1>8. ListedIsLive'
  BY <1>1, <1>2, <1>6 DEF ListedIsLive, Live, TypeOK
<1>9. AddsAreFresh'
  BY <1>1, <1>2, <1>3, <1>6, ActionsShape DEF AddsAreFresh, Live, Listed
<1>10. NothingBehindAdd'
  BY <1>1, <1>3 DEF NothingBehindAdd, ForSearch
<1>11. ListedOwnsActions'
  BY <1>1, <1>2, <1>3, <1>6 DEF ListedOwnsActions, ForSearch, Listed
<1>12. WaitersAreServed'
  BY <1>1, <1>2, <1>3, <1>6 DEF WaitersAreServed, Live, Listed
<1> QED BY <1>7, <1>8, <1>9, <1>10, <1>11, <1>12 DEF IInv

LEMMA TimerBeginsKeeps ==
    ASSUME IInv, TimerBegins
    PROVE  IInv'
<1>1. UNCHANGED <<search, s_search_once, s_action_queue, action, queries, packets>>
      /\ timer' = s_search_once
  BY DEF TimerBegins
<1>2. Pending' = Pending
  BY <1>1, PendingStays
<1> QED BY <1>1, <1>2 DEF IInv, TypeOK, ListedIsLive, AddsAreFresh, NothingBehindAdd,
       ListedOwnsActions, WaitersAreServed, ForSearch, Live, Listed

(* What the walk leaves of the searches: it turns one that is in the chain  *)
(* OFF or sets it RUNNING, and at most queues an action for it.             *)
LEMMA VisitShape ==
    ASSUME IInv, NEW s \in timer, EndSearch(s) \/ SendSearch(s) \/ LeaveSearch(s)
    PROVE  /\ s \in Search /\ Listed(s) /\ search[s] \in Searches
           /\ search' = [search EXCEPT ![s] = search'[s]]
           /\ \E state \in {"INIT", "RUNNING", "OFF"} :
                /\ search'[s] = [search[s] EXCEPT !.state = state]
                /\ state = "OFF" /\ search[s].state # "OFF" =>
                     s_action_queue' = Append(s_action_queue, SearchAction("END", s))
           /\ \/ UNCHANGED s_action_queue
              \/ \E type \in {"SEND", "END"} :
                   mdns_priv_queue_action(SearchAction(type, s))
<1>1. s \in Search /\ Listed(s) /\ search \in [Search -> Searches]
  BY DEF IInv, TypeOK, ListedIsLive, Listed
<1>2. search[s] \in Searches /\ search = [search EXCEPT ![s] = search[s]]
      /\ search[s] = [search[s] EXCEPT !.state = search[s].state]
      /\ search[s].state \in {"INIT", "RUNNING", "OFF"}
  BY <1>1 DEF Searches
<1>3. CASE EndSearch(s)
  <2>1. CASE mdns_priv_queue_action(SearchAction("END", s)) /\ search' = [search EXCEPT ![s].state = "OFF"]
    BY <1>1, <1>2, <2>1 DEF mdns_priv_queue_action
  <2>2. CASE UNCHANGED s_action_queue /\ search' = [search EXCEPT ![s].state = "RUNNING"]
    BY <1>1, <1>2, <2>2
  <2> QED BY <1>3, <2>1, <2>2 DEF EndSearch
<1>4. CASE SendSearch(s)
  <2>1. search' = [search EXCEPT ![s].state = "RUNNING"]
    BY <1>4 DEF SendSearch
  <2> QED BY <1>1, <1>2, <1>4, <2>1 DEF SendSearch
<1>5. CASE LeaveSearch(s)
  BY <1>1, <1>2, <1>5 DEF LeaveSearch
<1> QED BY <1>3, <1>4, <1>5

LEMMA TimerVisitsKeeps ==
    ASSUME IInv, TimerVisits
    PROVE  IInv'
<1> USE LimitsAssumption
<1>1. TypeOK /\ ListedIsLive /\ AddsAreFresh /\ NothingBehindAdd /\ ListedOwnsActions
      /\ WaitersAreServed
  BY DEF IInv
<1>2. PICK s \in timer : timer' = timer \ {s} /\ (EndSearch(s) \/ SendSearch(s) \/ LeaveSearch(s))
  BY DEF TimerVisits
<1>3. UNCHANGED <<s_search_once, action, queries, packets>>
  BY DEF TimerVisits
<1>4. /\ s \in Search /\ Listed(s) /\ search[s] \in Searches
      /\ search' = [search EXCEPT ![s] = search'[s]]
      /\ \E state \in {"INIT", "RUNNING", "OFF"} :
           /\ search'[s] = [search[s] EXCEPT !.state = state]
           /\ state = "OFF" /\ search[s].state # "OFF" =>
                s_action_queue' = Append(s_action_queue, SearchAction("END", s))
      /\ \/ UNCHANGED s_action_queue
         \/ \E type \in {"SEND", "END"} :
              mdns_priv_queue_action(SearchAction(type, s))
  BY <1>2, VisitShape
<1>5. PICK state \in {"INIT", "RUNNING", "OFF"} :
        /\ search'[s] = [search[s] EXCEPT !.state = state]
        /\ state = "OFF" /\ search[s].state # "OFF" =>
             s_action_queue' = Append(s_action_queue, SearchAction("END", s))
  BY <1>4
<1>6. search'[s] \in Searches
  BY <1>4, <1>5 DEF Searches
<1>7. \A t \in Search :
        /\ search'[t].user = search[t].user /\ search'[t].id = search[t].id
        /\ search'[t].done = search[t].done /\ search'[t].told = search[t].told
        /\ t # s => search'[t] = search[t]
  BY <1>1, <1>4, <1>5 DEF Searches, TypeOK
<1>8. \A type \in {"SEND", "END"} : SearchAction(type, s) \in Actions
  BY <1>4 DEF SearchAction, Actions, Searches
<1>9. DOMAIN Pending = 1..Len(Pending) /\ Len(Pending) \in Nat
      /\ \A i \in DOMAIN Pending : Pending[i] \in Actions
  BY <1>1, PendingIsSeq
<1> DEFINE AtMostOneMore ==
      /\ \A i \in DOMAIN Pending : i \in DOMAIN Pending' /\ Pending'[i] = Pending[i]
      /\ \A i \in DOMAIN Pending' :
           i \in DOMAIN Pending
             \/ (i = Len(Pending) + 1 /\ \E type \in {"SEND", "END"} : Pending'[i] = SearchAction(type, s))
      /\ s_action_queue' = Append(s_action_queue, SearchAction("END", s)) =>
           \E i \in DOMAIN Pending' : Pending'[i] = SearchAction("END", s)
<1>10. AtMostOneMore
  <2>1. CASE UNCHANGED s_action_queue
    <3>1. Pending' = Pending
      BY <1>3, <2>1, PendingStays
    <3>2. s_action_queue' # Append(s_action_queue, SearchAction("END", s))
      <4>1. s_action_queue \in Seq(Actions) /\ SearchAction("END", s) \in Actions
        BY <1>1, <1>8 DEF TypeOK
      <4>2. Len(Append(s_action_queue, SearchAction("END", s))) = Len(s_action_queue) + 1
            /\ Len(s_action_queue) \in Nat
        BY <4>1
      <4> QED BY <2>1, <4>2
    <3> QED BY <3>1, <3>2
  <2>2. ASSUME NEW type \in {"SEND", "END"}, mdns_priv_queue_action(SearchAction(type, s))
        PROVE  AtMostOneMore
    <3>1. s_action_queue' = Append(s_action_queue, SearchAction(type, s))
      BY <2>2 DEF mdns_priv_queue_action
    <3>2. /\ DOMAIN Pending' = 1..Len(Pending) + 1
          /\ \A i \in DOMAIN Pending : i \in DOMAIN Pending' /\ Pending'[i] = Pending[i]
          /\ Pending'[Len(Pending) + 1] = SearchAction(type, s)
      BY <1>1, <1>3, <1>8, <3>1, PendingAppends
    <3>3. s_action_queue' = Append(s_action_queue, SearchAction("END", s)) =>
             Pending'[Len(Pending) + 1] = SearchAction("END", s)
      BY <1>1, <1>3, <1>8, PendingAppends
    <3> QED BY <1>9, <3>2, <3>3
  <2> QED BY <1>4, <2>1, <2>2
<1>11. TypeOK'
  <2>1. s_action_queue' \in Seq(Actions) /\ Len(s_action_queue') <= MaxQueue
    <3>1. CASE UNCHANGED s_action_queue
      BY <1>1, <3>1 DEF TypeOK
    <3>2. ASSUME NEW type \in {"SEND", "END"}, mdns_priv_queue_action(SearchAction(type, s))
          PROVE  s_action_queue' \in Seq(Actions) /\ Len(s_action_queue') <= MaxQueue
      BY <1>1, <1>8, <3>2, QueueKeepsType
    <3> QED BY <1>4, <3>1, <3>2
  <2>2. search' \in [Search -> Searches]
    BY <1>1, <1>4, <1>6 DEF TypeOK
  <2> QED BY <1>1, <1>2, <1>3, <2>1, <2>2 DEF TypeOK
<1>12. ListedIsLive'
  BY <1>1, <1>2, <1>3, <1>7 DEF ListedIsLive, Live, TypeOK
<1>13. AddsAreFresh'
  <2>1. \A i \in DOMAIN Pending : Pending[i].type = "ADD" => Pending[i].search \in Search \ {s}
    BY <1>1, <1>4, <1>9, ActionsShape DEF AddsAreFresh
  <2>2. \A i \in DOMAIN Pending' : Pending'[i].type = "ADD" => i \in DOMAIN Pending
    BY <1>10 DEF SearchAction
  <2> QED BY <1>1, <1>3, <1>7, <1>10, <2>1, <2>2 DEF AddsAreFresh, Live, Listed
<1>14. NothingBehindAdd'
  <2> SUFFICES ASSUME NEW i \in DOMAIN Pending', NEW j \in DOMAIN Pending', i < j,
                      Pending'[i].type = "ADD"
               PROVE  ~ForSearch(Pending'[j], Pending'[i].search)
    BY DEF NothingBehindAdd, ForSearch
  <2>1. i \in DOMAIN Pending /\ Pending'[i] = Pending[i] /\ Pending[i].search # s
    BY <1>1, <1>4, <1>9, <1>10, ActionsShape DEF AddsAreFresh, SearchAction
  <2>2. CASE j \in DOMAIN Pending
    BY <1>1, <1>10, <2>1, <2>2 DEF NothingBehindAdd
  <2>3. CASE j \notin DOMAIN Pending
    BY <1>10, <2>1, <2>3 DEF ForSearch, SearchAction
  <2> QED BY <2>2, <2>3
<1>15. ListedOwnsActions'
  BY <1>1, <1>3, <1>7, <1>10 DEF ListedOwnsActions, ForSearch, Listed, SearchAction
<1>16. WaitersAreServed'
  <2> SUFFICES ASSUME NEW t \in Search, Live(t)'
               PROVE  /\ \/ Listed(t)'
                         \/ \E i \in DOMAIN Pending' : Pending'[i].type = "ADD" /\ Pending'[i].search = t
                         \/ search'[t].state = "OFF" /\ (search'[t].user = "sync" => search'[t].done)
                      /\ Listed(t)' /\ search'[t].state = "OFF" =>
                           \E i \in DOMAIN Pending' : Pending'[i].type = "END" /\ Pending'[i].search = t
    BY DEF WaitersAreServed
  <2>0. Live(t)
    BY <1>7 DEF Live
  <2>1. CASE t = s
    <3>1. Listed(t)'
      BY <1>3, <1>4, <2>1 DEF Listed
    <3>2. ASSUME search'[s].state = "OFF"
          PROVE  \E i \in DOMAIN Pending' : Pending'[i].type = "END" /\ Pending'[i].search = s
      <4>1. state = "OFF"
        BY <1>4, <1>5, <3>2 DEF Searches
      <4>2. CASE search[s].state = "OFF"
        BY <1>1, <1>4, <1>10, <2>0, <2>1, <4>2 DEF WaitersAreServed
      <4>3. CASE search[s].state # "OFF"
        BY <1>5, <1>10, <4>1, <4>3 DEF SearchAction
      <4> QED BY <4>2, <4>3
    <3> QED BY <2>1, <3>1, <3>2
  <2>2. CASE t # s
    BY <1>1, <1>3, <1>7, <1>10, <2>0, <2>2 DEF WaitersAreServed, Listed
  <2> QED BY <2>1, <2>2
<1> QED BY <1>11, <1>12, <1>13, <1>14, <1>15, <1>16 DEF IInv

LEMMA PacketArrivesKeeps ==
    ASSUME IInv, PacketArrives
    PROVE  IInv'
<1> DEFINE act == [type |-> "RX"]
<1>1. TypeOK /\ ListedIsLive /\ AddsAreFresh /\ NothingBehindAdd /\ ListedOwnsActions
      /\ WaitersAreServed
  BY DEF IInv
<1>2. /\ s_action_queue' = Append(s_action_queue, act) /\ act \in Actions
      /\ mdns_priv_queue_action(act)
      /\ UNCHANGED <<search, s_search_once, action, timer, queries>>
      /\ packets' \in 0..MaxPackets
  BY <1>1, LimitsAssumption DEF PacketArrives, mdns_priv_queue_action, Actions, TypeOK
<1>3. /\ DOMAIN Pending' = 1..Len(Pending) + 1
      /\ \A i \in DOMAIN Pending : i \in DOMAIN Pending' /\ Pending'[i] = Pending[i]
      /\ Pending'[Len(Pending) + 1] = act
  BY <1>1, <1>2, PendingAppends
<1>4. DOMAIN Pending = 1..Len(Pending) /\ Len(Pending) \in Nat
  BY <1>1, PendingIsSeq
<1>5. \A i \in DOMAIN Pending' :
        i \in DOMAIN Pending \/ (i = Len(Pending) + 1 /\ Pending'[i].type = "RX")
  BY <1>3, <1>4
<1>6. TypeOK'
  BY <1>1, <1>2, QueueKeepsType DEF TypeOK
<1>7. ListedIsLive'
  BY <1>1, <1>2 DEF ListedIsLive, Live
<1>8. AddsAreFresh'
  BY <1>1, <1>2, <1>3, <1>5 DEF AddsAreFresh, Live, Listed
<1>9. NothingBehindAdd'
  BY <1>1, <1>3, <1>4, <1>5 DEF NothingBehindAdd, ForSearch
<1>10. ListedOwnsActions'
  BY <1>1, <1>2, <1>3, <1>5 DEF ListedOwnsActions, ForSearch, Listed
<1>11. WaitersAreServed'
  BY <1>1, <1>2, <1>3 DEF WaitersAreServed, Live, Listed
<1> QED BY <1>6, <1>7, <1>8, <1>9, <1>10, <1>11 DEF IInv

LEMMA ServiceTakesKeeps ==
    ASSUME IInv, ServiceTakes
    PROVE  IInv'
<1>1. TypeOK
  BY DEF IInv
<1>2. Pending' = Pending
  BY <1>1, PendingTaken
<1>3. UNCHANGED <<search, s_search_once, timer, queries, packets>>
  BY DEF ServiceTakes
<1>4. /\ action' \in Seq(Actions) /\ Len(action') <= 1
      /\ s_action_queue' \in Seq(Actions) /\ Len(s_action_queue') <= MaxQueue
  <2>1. s_action_queue \in Seq(Actions) /\ s_action_queue # <<>> /\ Len(s_action_queue) <= MaxQueue
    BY <1>1 DEF TypeOK, ServiceTakes
  <2>2. /\ Head(s_action_queue) \in Actions /\ Tail(s_action_queue) \in Seq(Actions)
        /\ Len(Tail(s_action_queue)) = Len(s_action_queue) - 1 /\ Len(s_action_queue) \in Nat
    BY <2>1
  <2> QED BY <2>1, <2>2, MaxQueueAssumption DEF ServiceTakes
<1>5. TypeOK'
  BY <1>1, <1>3, <1>4 DEF TypeOK
<1> QED BY <1>2, <1>3, <1>5 DEF IInv, ListedIsLive, AddsAreFresh, NothingBehindAdd,
       ListedOwnsActions, WaitersAreServed, ForSearch, Live, Listed

-----------------------------------------------------------------------------
(* The actions of the service task                                          *)

(* What every executed action does: it takes the first of Pending away, and *)
(* each search keeps its place or leaves the chain finished; a search that  *)
(* is not in the chain stays as it is.                                      *)
LEMMA ExecuteShape ==
    ASSUME IInv, search_send \/ EndAction \/ Receive
    PROVE  /\ Executes(action[1].type) /\ action[1].type # "ADD"
           /\ search' \in [Search -> Searches]
           /\ s_search_once' \subseteq s_search_once
           /\ \A t \in Search :
                /\ search'[t].user = search[t].user /\ search'[t].id = search[t].id
                /\ t \notin s_search_once => search'[t] = search[t]
                /\ t \in s_search_once' =>
                     /\ search'[t].state = search[t].state /\ search'[t].done = search[t].done
                     /\ search'[t].told = search[t].told
                /\ t \in s_search_once /\ t \notin s_search_once' =>
                     search'[t].state = "OFF" /\ search'[t].done /\ search'[t].told <= 1
           /\ action[1].type = "END" => action[1].search \notin s_search_once'
<1> USE LimitsAssumption
<1>1. TypeOK /\ ListedIsLive
  BY DEF IInv
<1>2. \A t \in Search, found \in Searches :
         /\ t \notin s_search_once => Finished(t, found) = found
         /\ t \in s_search_once /\ found.told = 0 =>
              /\ Finished(t, found) \in Searches
              /\ Finished(t, found).user = found.user /\ Finished(t, found).id = found.id
              /\ Finished(t, found).state = "OFF" /\ Finished(t, found).done
              /\ Finished(t, found).told <= 1
  <2> TAKE t \in Search, found \in Searches
  <2>1. CASE t \notin s_search_once
    <3>1. Finished(t, found) = found
      BY <2>1 DEF Finished, Listed
    <3> QED BY <2>1, <3>1
  <2>2. CASE t \in s_search_once /\ found.told = 0
    <3>1. ASSUME NEW told \in 0..1,
                 Finished(t, found) = [found EXCEPT !.state = "OFF", !.done = TRUE, !.told = told]
          PROVE  /\ Finished(t, found) \in Searches
                 /\ Finished(t, found).user = found.user /\ Finished(t, found).id = found.id
                 /\ Finished(t, found).state = "OFF" /\ Finished(t, found).done
                 /\ Finished(t, found).told <= 1
      <4>1. told \in 0..2 /\ told <= 1
        OBVIOUS
      <4>2. Finished(t, found).told = told
        BY <3>1 DEF Searches
      <4>3. /\ Finished(t, found) \in Searches
            /\ Finished(t, found).user = found.user /\ Finished(t, found).id = found.id
            /\ Finished(t, found).state = "OFF" /\ Finished(t, found).done
        BY <3>1, <4>1 DEF Searches
      <4> QED BY <4>1, <4>2, <4>3
    <3>2. CASE found.user = "async"
      <4>1. Finished(t, found) = [found EXCEPT !.state = "OFF", !.done = TRUE, !.told = 1]
        BY <2>2, <3>2 DEF Finished, Listed
      <4> QED BY <2>2, <3>1, <4>1
    <3>3. CASE found.user # "async"
      <4>1. Finished(t, found) = [found EXCEPT !.state = "OFF", !.done = TRUE, !.told = 0]
        BY <2>2, <3>3 DEF Finished, Listed
      <4> QED BY <2>2, <3>1, <4>1
    <3> QED BY <3>2, <3>3
  <2> QED BY <2>1, <2>2
<1>3. CASE search_send
  BY <1>1, <1>3 DEF search_send, Executes, TypeOK
<1>4. CASE EndAction
  <2> DEFINE ended == action[1].search
  <2>1. Executes("END") /\ action[1].type = "END"
        /\ search' = [search EXCEPT ![ended] = Finished(ended, search[ended])]
        /\ s_search_once' = s_search_once \ {ended}
    BY <1>4 DEF EndAction, Executes
  <2>2. ended \in Search
    BY <1>1, <2>1, PendingExecuted, ActionsShape DEF Executes
  <2>3. search \in [Search -> Searches] /\ \A t \in s_search_once : search[t].told = 0
    BY <1>1 DEF TypeOK, ListedIsLive
  <2>4. Finished(ended, search[ended]) \in Searches
    BY <1>2, <2>2, <2>3
  <2> QED BY <1>2, <2>1, <2>2, <2>3, <2>4
<1>5. CASE Receive
  <2>1. PICK hits \in [Search -> 0..MaxResults], authoritative \in BOOLEAN :
          LET answered == [s \in Search |-> Answered(s, hits)]
              full == IF authoritative THEN Full(answered) ELSE {}
          IN  /\ search' = [s \in Search |-> IF s \in full THEN Finished(s, answered[s])
                                                          ELSE answered[s]]
              /\ s_search_once' = s_search_once \ full
    BY <1>5 DEF Receive
  <2> DEFINE answered == [s \in Search |-> Answered(s, hits)]
             full == IF authoritative THEN Full(answered) ELSE {}
  <2>2. /\ search' = [s \in Search |-> IF s \in full THEN Finished(s, answered[s]) ELSE answered[s]]
        /\ s_search_once' = s_search_once \ full
        /\ full \subseteq s_search_once
    BY <2>1 DEF Full
  <2>3. search \in [Search -> Searches] /\ \A t \in s_search_once : search[t].told = 0
    BY <1>1 DEF TypeOK, ListedIsLive
  <2>4. \A t \in Search :
          /\ answered[t] \in Searches
          /\ answered[t].user = search[t].user /\ answered[t].id = search[t].id
          /\ answered[t].state = search[t].state /\ answered[t].done = search[t].done
          /\ answered[t].told = search[t].told
          /\ t \notin s_search_once => answered[t] = search[t]
    <3> TAKE t \in Search
    <3>1. CASE answered[t] = search[t]
      BY <2>3, <3>1
    <3>2. ASSUME NEW n \in 0..MaxResults, answered[t] = [search[t] EXCEPT !.num_results = n], t \in s_search_once
          PROVE  /\ answered[t] \in Searches
                 /\ answered[t].user = search[t].user /\ answered[t].id = search[t].id
                 /\ answered[t].state = search[t].state /\ answered[t].done = search[t].done
                 /\ answered[t].told = search[t].told
      <4>1. search[t] \in Searches
        BY <2>3
      <4> HIDE DEF answered
      <4> QED BY <3>2, <4>1 DEF Searches
    <3>3. answered[t] = search[t]
            \/ (t \in s_search_once /\ \E n \in 0..MaxResults : answered[t] = [search[t] EXCEPT !.num_results = n])
      <4> DEFINE found == search[t].num_results + hits[t]
                 max == search[t].max_results
      <4>1. max \in 0..MaxResults /\ search[t].num_results \in 0..MaxResults /\ hits[t] \in 0..MaxResults
        BY <2>1, <2>3 DEF Searches
      <4>2. (IF found < max THEN found ELSE max) \in 0..MaxResults
        BY <4>1
      <4> QED BY <4>2 DEF Answered, Listed
    <3> QED BY <3>1, <3>2, <3>3
  <2> HIDE DEF answered, full
  <2>5. \A t \in Search : search'[t] = IF t \in full THEN Finished(t, answered[t]) ELSE answered[t]
    BY <2>2
  <2>6. \A t \in Search : search'[t] \in Searches
    BY <1>2, <2>2, <2>3, <2>4, <2>5
  <2>7. search' \in [Search -> Searches]
    BY <2>2, <2>6
  <2>8. Executes("RX") /\ action[1].type = "RX"
    BY <1>5 DEF Receive, Executes
  <2>9. \A t \in Search :
          /\ search'[t].user = search[t].user /\ search'[t].id = search[t].id
          /\ t \notin s_search_once => search'[t] = search[t]
          /\ t \in s_search_once' =>
               /\ search'[t].state = search[t].state /\ search'[t].done = search[t].done
               /\ search'[t].told = search[t].told
          /\ t \in s_search_once /\ t \notin s_search_once' =>
               search'[t].state = "OFF" /\ search'[t].done /\ search'[t].told <= 1
    BY <1>2, <2>2, <2>3, <2>4, <2>5
  <2> QED BY <2>2, <2>7, <2>8, <2>9
<1> QED BY <1>3, <1>4, <1>5

LEMMA ExecuteKeeps ==
    ASSUME IInv, search_send \/ EndAction \/ Receive
    PROVE  IInv'
<1>1. TypeOK /\ ListedIsLive /\ AddsAreFresh /\ NothingBehindAdd /\ ListedOwnsActions
      /\ WaitersAreServed
  BY DEF IInv
<1>2. /\ Executes(action[1].type) /\ action[1].type # "ADD"
      /\ search' \in [Search -> Searches]
      /\ s_search_once' \subseteq s_search_once
      /\ action[1].type = "END" => action[1].search \notin s_search_once'
  BY ExecuteShape
<1>3. \A t \in Search :
        /\ search'[t].user = search[t].user /\ search'[t].id = search[t].id
        /\ t \notin s_search_once => search'[t] = search[t]
        /\ t \in s_search_once' =>
             /\ search'[t].state = search[t].state /\ search'[t].done = search[t].done
             /\ search'[t].told = search[t].told
        /\ t \in s_search_once /\ t \notin s_search_once' =>
             search'[t].state = "OFF" /\ search'[t].done
  BY ExecuteShape
<1>4. action # <<>> /\ action' = <<>> /\ timer = {} /\ UNCHANGED <<s_action_queue, timer, queries, packets>>
  BY <1>2 DEF Executes, LockFree
<1>5. /\ 1 \in DOMAIN Pending /\ Pending[1] = action[1]
      /\ \A i \in DOMAIN Pending' : i + 1 \in DOMAIN Pending /\ Pending'[i] = Pending[i + 1]
      /\ DOMAIN Pending' = 1..Len(Pending) - 1
  BY <1>1, <1>4, PendingExecuted
<1>6. DOMAIN Pending = 1..Len(Pending) /\ Len(Pending) \in Nat
      /\ \A i \in DOMAIN Pending : Pending[i] \in Actions
  BY <1>1, PendingIsSeq
<1>7. \A i \in DOMAIN Pending : i # 1 => i - 1 \in DOMAIN Pending' /\ Pending'[i - 1] = Pending[i]
  BY <1>5, <1>6
<1>8. TypeOK'
  BY <1>1, <1>2, <1>4, EmptySeq DEF TypeOK
<1>9. ListedIsLive'
  BY <1>1, <1>2, <1>3, <1>4 DEF ListedIsLive, Live, TypeOK
<1>10. AddsAreFresh'
  <2> SUFFICES ASSUME NEW i \in DOMAIN Pending', NEW s, Pending'[i].type = "ADD",
                      s = Pending'[i].search
               PROVE  /\ Live(s)' /\ search'[s].state = "INIT" /\ search'[s].id = Pending'[i].id
                      /\ ~search'[s].done /\ search'[s].told = 0
                      /\ ~Listed(s)'
    BY DEF AddsAreFresh, Live, Listed
  <2>1. i + 1 \in DOMAIN Pending /\ Pending'[i] = Pending[i + 1] /\ s \in Search
        /\ Pending[i + 1].type = "ADD" /\ Pending[i + 1].search = s
    BY <1>5, <1>6, ActionsShape
  <2>2. /\ Live(s) /\ search[s].state = "INIT" /\ search[s].id = Pending[i + 1].id
        /\ ~search[s].done /\ search[s].told = 0 /\ ~Listed(s)
    BY <1>1, <2>1 DEF AddsAreFresh, Live, Listed
  <2>3. search'[s] = search[s] /\ ~Listed(s)'
    BY <1>2, <1>3, <2>1, <2>2 DEF Listed
  <2> QED BY <2>1, <2>2, <2>3 DEF Live
<1>11. NothingBehindAdd'
  <2> SUFFICES ASSUME NEW i \in DOMAIN Pending', NEW j \in DOMAIN Pending', i < j,
                      Pending'[i].type = "ADD"
               PROVE  ~ForSearch(Pending'[j], Pending'[i].search)
    BY DEF NothingBehindAdd, ForSearch
  <2>1. i + 1 < j + 1 /\ i + 1 \in DOMAIN Pending /\ j + 1 \in DOMAIN Pending
        /\ Pending'[i] = Pending[i + 1] /\ Pending'[j] = Pending[j + 1]
    BY <1>5
  <2> QED BY <1>1, <2>1 DEF NothingBehindAdd
<1>12. ListedOwnsActions'
  BY <1>1, <1>2, <1>3, <1>5 DEF ListedOwnsActions, ForSearch, Listed
<1>13. WaitersAreServed'
  <2> SUFFICES ASSUME NEW t \in Search, Live(t)'
               PROVE  /\ \/ Listed(t)'
                         \/ \E i \in DOMAIN Pending' : Pending'[i].type = "ADD" /\ Pending'[i].search = t
                         \/ search'[t].state = "OFF" /\ (search'[t].user = "sync" => search'[t].done)
                      /\ Listed(t)' /\ search'[t].state = "OFF" =>
                           \E i \in DOMAIN Pending' : Pending'[i].type = "END" /\ Pending'[i].search = t
    BY DEF WaitersAreServed
  <2>1. Live(t)
    BY <1>3 DEF Live
  <2>2. CASE Listed(t)'
    <3>1. Listed(t) /\ search'[t].state = search[t].state
      BY <1>2, <1>3, <2>2 DEF Listed
    <3>2. ASSUME NEW i \in DOMAIN Pending, Pending[i].type = "END", Pending[i].search = t
          PROVE  i # 1
      BY <1>2, <1>5, <2>2, <3>2 DEF Listed
    <3> QED BY <1>1, <1>7, <2>1, <2>2, <3>1, <3>2 DEF WaitersAreServed
  <2>3. CASE ~Listed(t)' /\ Listed(t)
    BY <1>3, <2>3 DEF Listed
  <2>4. CASE ~Listed(t)' /\ ~Listed(t)
    <3>1. search'[t] = search[t]
      BY <1>3, <2>4 DEF Listed
    <3>2. \A i \in DOMAIN Pending : Pending[i].type = "ADD" => i # 1
      BY <1>2, <1>5
    <3> QED BY <1>1, <1>7, <2>1, <2>4, <3>1, <3>2 DEF WaitersAreServed
  <2> QED BY <2>2, <2>3, <2>4
<1> QED BY <1>8, <1>9, <1>10, <1>11, <1>12, <1>13 DEF IInv

LEMMA AddKeeps ==
    ASSUME IInv, search_add
    PROVE  IInv'
<1> DEFINE new == action[1].search
<1>1. TypeOK /\ ListedIsLive /\ AddsAreFresh /\ NothingBehindAdd /\ ListedOwnsActions
      /\ WaitersAreServed
  BY DEF IInv
<1>2. /\ action # <<>> /\ action' = <<>> /\ action[1].type = "ADD" /\ timer = {}
      /\ UNCHANGED <<search, s_action_queue, timer, queries, packets>>
      /\ s_search_once' = s_search_once \cup {new}
  BY DEF search_add, Executes, LockFree
<1>3. /\ 1 \in DOMAIN Pending /\ Pending[1] = action[1]
      /\ \A i \in DOMAIN Pending' : i + 1 \in DOMAIN Pending /\ Pending'[i] = Pending[i + 1]
      /\ DOMAIN Pending' = 1..Len(Pending) - 1
      /\ action[1] \in Actions
  BY <1>1, <1>2, PendingExecuted
<1>4. DOMAIN Pending = 1..Len(Pending) /\ Len(Pending) \in Nat
      /\ \A i \in DOMAIN Pending : Pending[i] \in Actions
  BY <1>1, PendingIsSeq
<1>5. \A i \in DOMAIN Pending : i # 1 => i - 1 \in DOMAIN Pending' /\ Pending'[i - 1] = Pending[i]
  BY <1>3, <1>4
<1>6. /\ new \in Search /\ Live(new) /\ search[new].state = "INIT"
      /\ ~search[new].done /\ search[new].told = 0
  BY <1>1, <1>2, <1>3, ActionsShape DEF AddsAreFresh
<1>7. \A i \in DOMAIN Pending' : ~ForSearch(Pending'[i], new)
  <2> TAKE i \in DOMAIN Pending'
  <2>1. i + 1 \in DOMAIN Pending /\ 1 < i + 1 /\ Pending'[i] = Pending[i + 1]
    BY <1>3
  <2> QED BY <1>1, <1>2, <1>3, <2>1 DEF NothingBehindAdd
<1>8. TypeOK'
  BY <1>1, <1>2, <1>6, EmptySeq DEF TypeOK
<1>9. ListedIsLive'
  BY <1>1, <1>2, <1>6 DEF ListedIsLive, Live
<1>10. AddsAreFresh'
  BY <1>1, <1>2, <1>3, <1>7 DEF AddsAreFresh, Live, Listed, ForSearch
<1>11. NothingBehindAdd'
  <2> SUFFICES ASSUME NEW i \in DOMAIN Pending', NEW j \in DOMAIN Pending', i < j,
                      Pending'[i].type = "ADD"
               PROVE  ~ForSearch(Pending'[j], Pending'[i].search)
    BY DEF NothingBehindAdd, ForSearch
  <2>1. i + 1 < j + 1 /\ i + 1 \in DOMAIN Pending /\ j + 1 \in DOMAIN Pending
        /\ Pending'[i] = Pending[i + 1] /\ Pending'[j] = Pending[j + 1]
    BY <1>3
  <2> QED BY <1>1, <2>1 DEF NothingBehindAdd
<1>12. ListedOwnsActions'
  BY <1>1, <1>2, <1>3, <1>7 DEF ListedOwnsActions, ForSearch, Listed
<1>13. WaitersAreServed'
  <2> SUFFICES ASSUME NEW t \in Search, Live(t)
               PROVE  /\ \/ Listed(t)'
                         \/ \E i \in DOMAIN Pending' : Pending'[i].type = "ADD" /\ Pending'[i].search = t
                         \/ search[t].state = "OFF" /\ (search[t].user = "sync" => search[t].done)
                      /\ Listed(t)' /\ search[t].state = "OFF" =>
                           \E i \in DOMAIN Pending' : Pending'[i].type = "END" /\ Pending'[i].search = t
    BY <1>2 DEF WaitersAreServed, Live
  <2>1. CASE t = new
    BY <1>2, <1>6, <2>1 DEF Listed
  <2>2. CASE t # new
    <3>1. \A i \in DOMAIN Pending : ForSearch(Pending[i], t) => i # 1
      BY <1>2, <1>3, <2>2 DEF ForSearch
    <3> QED BY <1>1, <1>2, <1>5, <2>2, <3>1 DEF WaitersAreServed, Listed, ForSearch
  <2> QED BY <2>1, <2>2
<1> QED BY <1>8, <1>9, <1>10, <1>11, <1>12, <1>13 DEF IInv

-----------------------------------------------------------------------------
(* The invariant and what follows from it                                   *)

(* Every reachable state satisfies the invariant.                           *)
THEOREM Invariance == Spec => []IInv
<1>1. Init => IInv
  <2> SUFFICES ASSUME Init PROVE IInv
    OBVIOUS
  <2> USE LimitsAssumption, MaxQueueAssumption
  <2>1. Freed \in Searches
    BY DEF Freed, Searches
  <2>2. TypeOK
    BY <2>1, EmptySeq DEF Init, TypeOK
  <2>3. Pending = <<>> /\ DOMAIN Pending = {}
    BY DEF Init, Pending
  <2> QED BY <2>2, <2>3 DEF Init, IInv, ListedIsLive, AddsAreFresh, NothingBehindAdd,
         ListedOwnsActions, WaitersAreServed, Live, Listed, Freed
<1>2. IInv /\ [Next]_vars => IInv'
  <2> SUFFICES ASSUME IInv, [Next]_vars PROVE IInv'
    OBVIOUS
  <2>1. CASE Caller
    <3>1. PICK s \in Search :
            \/ \E user \in {"sync", "async"}, max \in 0..MaxResults : QueryNew(s, user, max)
            \/ QueryReturns(s) \/ mdns_query_async_get_results(s) \/ mdns_query_async_delete(s)
      BY <2>1 DEF Caller
    <3> QED BY <3>1, QueryNewKeeps, CallerKeeps
  <2>2. CASE Timer
    BY <2>2, TimerBeginsKeeps, TimerVisitsKeeps DEF Timer
  <2>3. CASE \E s \in Search : TimesOut(s)
    BY <2>3, TimesOutKeeps
  <2>4. CASE PacketArrives
    BY <2>4, PacketArrivesKeeps
  <2>5. CASE ServiceTakes
    BY <2>5, ServiceTakesKeeps
  <2>6. CASE Execute
    BY <2>6, AddKeeps, ExecuteKeeps DEF Execute
  <2>7. CASE UNCHANGED vars
    <3>1. Pending' = Pending
      BY <2>7, PendingStays DEF vars
    <3> QED BY <2>7, <3>1 DEF vars, IInv, TypeOK, ListedIsLive, AddsAreFresh, NothingBehindAdd,
           ListedOwnsActions, WaitersAreServed, ForSearch, Live, Listed
  <2> QED BY <2>1, <2>2, <2>3, <2>4, <2>5, <2>6, <2>7 DEF Next
<1> QED BY <1>1, <1>2, PTL DEF Spec

(* Type correctness; that the notifier count stays in its type already needs*)
(* that a search leaves the chain when it is finished.                      *)
THEOREM TypeCorrect == Spec => []TypeOK
BY Invariance, PTL DEF IInv

(* No task follows a pointer to a freed search.                             *)
THEOREM NoFreedSearch == Spec => []ListedIsLive
BY Invariance, PTL DEF IInv

(* The notifier of a search is called at most once: what finishes a search  *)
(* takes it out of the chain, and what is out of the chain is not finished. *)
THEOREM ToldOnce == Spec => []NotifiedOnce
<1>1. Init => NotifiedOnce
  <2>1. Freed.told <= 1
    BY DEF Freed
  <2>2. ASSUME Init, NEW s \in Search
        PROVE  search[s] = Freed
    BY <2>2 DEF Init
  <2> QED BY <2>1, <2>2 DEF NotifiedOnce
<1>2. IInv /\ NotifiedOnce /\ [Next]_vars => NotifiedOnce'
  <2> SUFFICES ASSUME IInv, NotifiedOnce, [Next]_vars, NEW t \in Search
               PROVE  search'[t].told <= 1
    BY DEF NotifiedOnce
  <2>1. search \in [Search -> Searches] /\ search[t] \in Searches /\ search[t].told <= 1
    BY DEF IInv, TypeOK, NotifiedOnce
  <2>2. ASSUME NEW s \in Search, NEW user \in {"sync", "async"}, NEW max \in 0..MaxResults,
               QueryNew(s, user, max)
        PROVE  search'[t].told <= 1
    BY <2>1, <2>2 DEF QueryNew, Freed
  <2>3. ASSUME NEW s \in Search, QueryReturns(s) \/ mdns_query_async_delete(s)
        PROVE  search'[t].told <= 1
    BY <2>1, <2>3 DEF QueryReturns, mdns_query_async_delete, Freed
  <2>4. ASSUME NEW s \in Search, mdns_query_async_get_results(s) \/ TimesOut(s)
        PROVE  search'[t].told <= 1
    BY <2>1, <2>4 DEF mdns_query_async_get_results, TimesOut, Searches
  <2>5. CASE Timer
    BY <2>1, <2>5 DEF Timer, TimerBegins, TimerVisits, EndSearch, SendSearch, LeaveSearch, Searches
  <2>6. CASE search_send \/ EndAction \/ Receive
    BY <2>1, <2>6, ExecuteShape
  <2>7. CASE PacketArrives \/ ServiceTakes \/ search_add \/ UNCHANGED vars
    BY <2>1, <2>7 DEF PacketArrives, ServiceTakes, search_add, vars
  <2> QED BY <2>2, <2>3, <2>4, <2>5, <2>6, <2>7 DEF Next, Caller, Execute
<1> QED BY <1>1, <1>2, Invariance, PTL DEF Spec

(* No caller waits for a search that has been lost.                         *)
THEOREM NobodyIsForgotten == Spec => []WaitersAreServed
BY Invariance, PTL DEF IInv

(* A stale action never acts on the next search at its address.             *)
THEOREM NoForeignAction == Spec => []OwnAction
<1>1. IInv => OwnAction
  <2> SUFFICES ASSUME IInv, action # <<>>, action[1].type # "RX",
                      action[1].type = "ADD" \/ Listed(action[1].search)
               PROVE  search[action[1].search].id = action[1].id
    BY DEF OwnAction
  <2>1. action \in Seq(Actions) /\ action[1] \in Actions
        /\ 1 \in DOMAIN Pending /\ Pending[1] = action[1]
    <3>1. action \in Seq(Actions) /\ Len(action) \in Nat \ {0} /\ s_action_queue \in Seq(Actions)
      BY EmptySeq, LenProperties DEF IInv, TypeOK
    <3>2. Len(s_action_queue) \in Nat
      BY <3>1, LenProperties
    <3> QED BY <3>1, <3>2, ConcatProperties, LenProperties, ElementOfSeq DEF Pending
  <2> QED BY <2>1, ActionsShape DEF IInv, AddsAreFresh, ListedOwnsActions, ForSearch
<1> QED BY <1>1, Invariance, PTL

-----------------------------------------------------------------------------
(* The promise                                                              *)

(* What is at an address that is free; who is off has ended or is due; who  *)
(* asked for results of a limited number gets no more; and so on.           *)
Kept(q) ==
    /\ q.user = "none" => q = Freed
    /\ q.user # "none" /\ q.state = "OFF" => q.late \/ q.done \/ q.told > 0
    /\ q.num_results <= q.max_results
    /\ q.user = "async" /\ q.done => q.told > 0
    /\ q.id <= queries

(* An action was made for a search that has been allocated, and an END for  *)
(* one whose time is up.                                                    *)
Sound(act) ==
    act.type # "RX" =>
        /\ act.id <= queries
        /\ act.type = "END" /\ Live(act.search) /\ search[act.search].id = act.id => search[act.search].late

PInv ==
    /\ \A s \in Search : Kept(search[s])
    /\ \A i \in DOMAIN Pending : Sound(Pending[i])

(* A search is the one it was, or gone, or one that no action was made for. *)
GoesOn(s) ==
    \/ search'[s].id = search[s].id /\ (search[s].late => search'[s].late) /\ Live(s)
    \/ search'[s].user = "none"
    \/ search'[s].id > queries
    \/ search'[s] = search[s]

(* An allocation at the address of an action gets an id of its own.         *)
LEMMA ActionStaysSound ==
    ASSUME TypeOK, TypeOK', NEW act \in Actions, Sound(act), queries' >= queries,
           \A s \in Search : GoesOn(s)
    PROVE  Sound(act)'
<1> SUFFICES ASSUME act.type # "RX" PROVE Sound(act)'
  BY DEF Sound
<1>1. act.search \in Search /\ act.id \in Nat
  BY ActionsShape
<1>2. act.id <= queries /\ queries \in Nat /\ queries' \in Nat
  BY DEF Sound, TypeOK
<1>3. search'[act.search].id \in Nat
  BY <1>1 DEF TypeOK, Searches
<1>4. GoesOn(act.search)
  BY <1>1
<1> QED BY <1>1, <1>2, <1>3, <1>4 DEF Sound, GoesOn, Live

(* No step but a push brings a new action.                                  *)
LEMMA ActionsStaySound ==
    ASSUME TypeOK, TypeOK', PInv, queries' >= queries, \A s \in Search : GoesOn(s),
           \A i \in DOMAIN Pending' : \/ \E j \in DOMAIN Pending : Pending'[i] = Pending[j]
                                      \/ \E act \in Actions : Pending'[i] = act /\ Sound(act)'
    PROVE  (\A i \in DOMAIN Pending : Sound(Pending[i]))'
<1>1. \A act \in Actions : Sound(act) => Sound(act)'
  BY ActionStaysSound
<1>2. ASSUME NEW i \in DOMAIN Pending'
      PROVE  \E act \in Actions : Pending'[i] = act /\ Sound(act)'
  <2>1. CASE \E act \in Actions : Pending'[i] = act /\ Sound(act)'
    BY <2>1
  <2>2. ASSUME NEW j \in DOMAIN Pending, Pending'[i] = Pending[j]
        PROVE  \E act \in Actions : Pending'[i] = act /\ Sound(act)'
    <3>1. \E act \in Actions : act = Pending[j] /\ Sound(act)
      BY PendingIsSeq DEF PInv
    <3> QED BY <1>1, <2>2, <3>1
  <2> QED BY <1>2, <2>1, <2>2
<1> QED BY <1>2 DEF Sound

(* Nor does a step that queues nothing.                                     *)
LEMMA NoNewAction ==
    ASSUME TypeOK, TypeOK', PInv, queries' >= queries, \A s \in Search : GoesOn(s),
           \A i \in DOMAIN Pending' : \E j \in DOMAIN Pending : Pending'[i] = Pending[j]
    PROVE  (\A i \in DOMAIN Pending : Sound(Pending[i]))'
BY ActionsStaySound

(* How query changes with search.                                          *)
LEMMA OneQueryChanges ==
    ASSUME NEW s \in Search, \A t \in Search : t # s => search'[t] = search[t]
    PROVE  query' = [query EXCEPT ![s] = AsPromised(s)']
<1>1. \A t \in Search : t # s => AsPromised(t)' = AsPromised(t)
  BY DEF AsPromised, Phase, Live
<1> QED BY <1>1 DEF query

LEMMA NoQueryChanges ==
    ASSUME \A s \in Search : AsPromised(s)' = AsPromised(s)
    PROVE  query' = query
BY DEF query

-----------------------------------------------------------------------------
(* The callers and the clock                                                *)

(* An allocation asks, and the ADD it queues has the newest id.             *)
LEMMA QueryNewAsks ==
    ASSUME IInv, IInv', PInv, NEW s \in Search, NEW user \in {"sync", "async"},
           NEW max \in 0..MaxResults, QueryNew(s, user, max)
    PROVE  PInv' /\ Promise!Ask(s)
<1> DEFINE act == [type |-> "ADD", search |-> s, id |-> queries + 1]
<1> USE LimitsAssumption
<1>1. TypeOK /\ TypeOK'
  BY DEF IInv
<1>2. /\ \A t \in Search : t # s => search'[t] = search[t]
      /\ search'[s] = [user |-> user, id |-> queries + 1, state |-> "INIT", late |-> FALSE,
                       done |-> FALSE, told |-> 0, max_results |-> max, num_results |-> 0]
  BY <1>1 DEF QueryNew, Freed, TypeOK
<1>3. search[s] = Freed
  BY DEF QueryNew, Live, PInv, Kept
<1>4. /\ queries' = queries + 1 /\ queries \in Nat /\ queries + 1 \in 0..MaxQueries
       /\ s_action_queue' = Append(s_action_queue, act) /\ UNCHANGED action
  BY <1>1 DEF QueryNew, TypeOK, mdns_priv_queue_action
<1>5. act \in Actions
  BY <1>4 DEF Actions
<1>6. (\A t \in Search : Kept(search[t]))'
  <2> SUFFICES ASSUME NEW t \in Search PROVE Kept(search[t])'
    OBVIOUS
  <2>1. CASE t = s
    BY <1>2, <1>3, <1>4, <2>1 DEF Kept
  <2>2. CASE t # s
    <3>1. search[t].id \in Nat /\ search[t].id <= queries /\ Kept(search[t])
      BY <1>1 DEF PInv, Kept, TypeOK, Searches
    <3> QED BY <1>2, <1>3, <1>4, <2>2, <3>1 DEF Kept
  <2> QED BY <2>1, <2>2
<1>7. \A t \in Search : GoesOn(t)
  BY <1>2, <1>3, <1>4 DEF GoesOn
<1>8. \A i \in DOMAIN Pending' : (\E j \in DOMAIN Pending : Pending'[i] = Pending[j]) \/ Pending'[i] = act
  <2> HIDE DEF act
  <2>1. /\ DOMAIN Pending' = 1..Len(Pending) + 1
        /\ \A i \in DOMAIN Pending : Pending'[i] = Pending[i]
        /\ Pending'[Len(Pending) + 1] = act
    BY <1>1, <1>4, <1>5, PendingAppends
  <2>2. DOMAIN Pending = 1..Len(Pending) /\ Len(Pending) \in Nat
    BY <1>1, PendingIsSeq
  <2> QED BY <2>1, <2>2
<1>9. (\A i \in DOMAIN Pending : Sound(Pending[i]))'
  <2>1. \A i \in DOMAIN Pending' : \/ \E j \in DOMAIN Pending : Pending'[i] = Pending[j]
                                   \/ \E a \in Actions : Pending'[i] = a /\ Sound(a)'
    <3> SUFFICES ASSUME NEW i \in DOMAIN Pending', Pending'[i] = act
                 PROVE  \E a \in Actions : Pending'[i] = a /\ Sound(a)'
      BY <1>8
    <3>1. \A a : a = act => Sound(a)'
      BY <1>2, <1>3, <1>4 DEF Sound
    <3> QED BY <1>5, <3>1
  <2>2. queries' >= queries
    BY <1>2, <1>3, <1>4
  <2> QED BY <1>1, <1>7, <2>1, <2>2, ActionsStaySound
<1>10. Promise!Ask(s)
  <2>1. query[s] = Promise!None
    <3>1. ~Live(s) /\ search[s].user = "none" /\ search[s].max_results = 0 /\ search[s].num_results = 0
      BY <1>3 DEF Live, Freed
    <3>2. Phase(s) = "none" /\ (search[s].user = "sync") = FALSE
      BY <3>1 DEF Phase
    <3>3. AsPromised(s) = Promise!None
      BY <3>1, <3>2 DEF AsPromised, Promise!None
    <3> QED BY <3>3 DEF query
  <2>2. AsPromised(s)' = [phase |-> "running", waits |-> user = "sync", max |-> max, found |-> 0]
    BY <1>2, <1>3, <1>4 DEF AsPromised, Phase, Live
  <2>3. query' = [query EXCEPT ![s] = [phase |-> "running", waits |-> user = "sync",
                                       max |-> max, found |-> 0]]
    BY <1>2, <1>3, <1>4, <2>2, OneQueryChanges
  <2>4. (user = "sync") \in BOOLEAN
    OBVIOUS
  <2> QED BY <2>1, <2>3, <2>4 DEF Promise!Ask
<1> QED BY <1>6, <1>9, <1>10 DEF PInv


(* A step that touches one search and queues nothing.                       *)
LEMMA OneSearchSteps ==
    ASSUME IInv, IInv', PInv, NEW s \in Search, UNCHANGED <<s_action_queue, action, queries>>,
           \A t \in Search : t # s => search'[t] = search[t],
           Kept(search[s])', GoesOn(s)
    PROVE  PInv'
<1>1. TypeOK /\ TypeOK' /\ queries' = queries /\ queries \in Nat
  BY DEF IInv, TypeOK
<1>2. (\A t \in Search : Kept(search[t]))'
  BY <1>1 DEF PInv, Kept
<1>3. \A t \in Search : GoesOn(t)
  BY DEF GoesOn
<1>4. Pending' = Pending
  BY PendingStays
<1>5. \A i \in DOMAIN Pending' : \E j \in DOMAIN Pending : Pending'[i] = Pending[j]
  BY <1>4
<1>6. queries' >= queries
  BY <1>1
<1> QED BY <1>1, <1>2, <1>3, <1>5, <1>6, NoNewAction DEF PInv

(* Who frees a search has waited for it, or sees it OFF.                    *)
LEMMA FreeReleases ==
    ASSUME IInv, IInv', PInv, NEW s \in Search, search' = [search EXCEPT ![s] = Freed],
           UNCHANGED <<s_action_queue, action, queries>>,
           \/ search[s].user = "sync" /\ search[s].done
           \/ search[s].user = "async" /\ search[s].state = "OFF"
    PROVE  PInv' /\ Promise!Release(s)
<1>1. search \in [Search -> Searches] /\ queries \in Nat
  BY DEF IInv, TypeOK
<1>2. search'[s] = Freed /\ \A t \in Search : t # s => search'[t] = search[t]
  BY <1>1
<1>3. Kept(search[s])'
  BY <1>1, <1>2 DEF Kept, Freed
<1>4. GoesOn(s)
  BY <1>2 DEF GoesOn, Freed
<1>5. PInv'
  BY <1>2, <1>3, <1>4, OneSearchSteps
<1>6. query[s].phase = Phase(s) /\ query[s].waits = (search[s].user = "sync")
  BY DEF query, AsPromised
<1>7. \/ Phase(s) = "over"
      \/ Phase(s) \in {"late", "taken"} /\ search[s].user # "sync"
  BY DEF PInv, Kept, Phase, Live
<1>8. AsPromised(s)' = Promise!None
  <2>1. search'[s].user = "none" /\ search'[s].max_results = 0 /\ search'[s].num_results = 0
    BY <1>2 DEF Freed
  <2>2. Phase(s)' = "none" /\ (search'[s].user = "sync") = FALSE
    BY <2>1 DEF Phase, Live
  <2> QED BY <2>1, <2>2 DEF AsPromised, Promise!None
<1>9. query' = [query EXCEPT ![s] = Promise!None]
  BY <1>2, <1>8, OneQueryChanges
<1> QED BY <1>5, <1>6, <1>7, <1>9 DEF Promise!Release

LEMMA GetResultsTakes ==
    ASSUME IInv, IInv', PInv, NEW s \in Search, mdns_query_async_get_results(s)
    PROVE  PInv' /\ Promise!Take(s)
<1>1. search \in [Search -> Searches] /\ search[s] \in Searches
  BY DEF IInv, TypeOK
<1>2. /\ search'[s] = [search[s] EXCEPT !.done = FALSE]
      /\ \A t \in Search : t # s => search'[t] = search[t]
      /\ UNCHANGED <<s_action_queue, action, queries>>
      /\ search[s].user = "async" /\ search[s].done
  BY <1>1 DEF mdns_query_async_get_results
<1>3. /\ search'[s].user = "async" /\ ~search'[s].done /\ search'[s].id = search[s].id
      /\ search'[s].told = search[s].told /\ search'[s].late = search[s].late
      /\ search'[s].max_results = search[s].max_results
      /\ search'[s].num_results = search[s].num_results
  BY <1>1, <1>2 DEF Searches
<1>4. search[s].told > 0 /\ Kept(search[s])
  BY <1>2 DEF PInv, Kept
<1>5. Kept(search[s])'
  BY <1>2, <1>3, <1>4 DEF Kept
<1>6. GoesOn(s)
  BY <1>2, <1>3 DEF GoesOn, Live
<1>7. PInv'
  BY <1>2, <1>5, <1>6, OneSearchSteps
<1>8. Phase(s) = "over" /\ Phase(s)' = "taken"
  BY <1>2, <1>3, <1>4 DEF Phase, Live
<1>9. AsPromised(s)' = [AsPromised(s) EXCEPT !.phase = "taken"]
  BY <1>2, <1>3, <1>8 DEF AsPromised
<1>10. query[s] = AsPromised(s) /\ query[s].phase = "over" /\ ~query[s].waits
  BY <1>2, <1>8 DEF query, AsPromised
<1>11. query' = [query EXCEPT ![s].phase = "taken"]
  BY <1>2, <1>9, <1>10, OneQueryChanges
<1> QED BY <1>7, <1>10, <1>11 DEF Promise!Take

LEMMA TimesOutSimulates ==
    ASSUME IInv, IInv', PInv, NEW s \in Search, TimesOut(s)
    PROVE  PInv' /\ (Promise!TimeIsUp(s) \/ UNCHANGED query)
<1>1. search \in [Search -> Searches] /\ search[s] \in Searches
  BY DEF IInv, TypeOK
<1>2. /\ search'[s] = [search[s] EXCEPT !.late = TRUE]
      /\ \A t \in Search : t # s => search'[t] = search[t]
      /\ UNCHANGED <<s_action_queue, action, queries>>
      /\ Live(s) /\ ~search[s].late
  BY <1>1 DEF TimesOut
<1>3. /\ search'[s].late
      /\ search'[s].user = search[s].user /\ search'[s].done = search[s].done
      /\ search'[s].told = search[s].told /\ search'[s].id = search[s].id
      /\ search'[s].max_results = search[s].max_results
      /\ search'[s].num_results = search[s].num_results
  BY <1>1, <1>2 DEF Searches
<1>4. Kept(search[s])'
  <2>1. Kept(search[s])
    BY DEF PInv
  <2> QED BY <1>2, <1>3, <2>1 DEF Kept, Live
<1>5. GoesOn(s)
  BY <1>2, <1>3 DEF GoesOn, Live
<1>6. PInv'
  BY <1>2, <1>4, <1>5, OneSearchSteps
<1>7. CASE search[s].done \/ search[s].told > 0
  <2>1. Phase(s)' = Phase(s)
    BY <1>3, <1>7 DEF Phase, Live
  <2>2. \A t \in Search : AsPromised(t)' = AsPromised(t)
    BY <1>2, <1>3, <2>1 DEF AsPromised, Phase, Live
  <2> QED BY <1>6, <2>2, NoQueryChanges
<1>8. CASE ~(search[s].done \/ search[s].told > 0)
  <2>1. Phase(s) = "running" /\ Phase(s)' = "late"
    BY <1>2, <1>3, <1>8 DEF Phase, Live
  <2>2. AsPromised(s)' = [AsPromised(s) EXCEPT !.phase = "late"]
    BY <1>3, <2>1 DEF AsPromised
  <2>3. query[s] = AsPromised(s) /\ query[s].phase = "running"
    BY <2>1 DEF query, AsPromised
  <2>4. query' = [query EXCEPT ![s].phase = "late"]
    BY <1>2, <2>2, <2>3, OneQueryChanges
  <2> QED BY <1>6, <2>3, <2>4 DEF Promise!TimeIsUp
<1> QED BY <1>7, <1>8

-----------------------------------------------------------------------------
(* What the callers do not notice                                           *)

(* Packets, and actions that are taken from the queue.                      *)
LEMMA SearchesStay ==
    ASSUME IInv, IInv', PInv, UNCHANGED <<search, queries>>,
           \A i \in DOMAIN Pending' : \/ \E j \in DOMAIN Pending : Pending'[i] = Pending[j]
                                      \/ Pending'[i] = [type |-> "RX"]
    PROVE  PInv' /\ UNCHANGED query
<1>1. TypeOK /\ TypeOK' /\ queries' >= queries
  BY DEF IInv, TypeOK
<1>2. (\A t \in Search : Kept(search[t]))'
  BY DEF PInv, Kept
<1>3. \A t \in Search : GoesOn(t)
  BY DEF GoesOn
<1>4. [type |-> "RX"] \in Actions
  BY DEF Actions
<1>5. \A a : a = [type |-> "RX"] => Sound(a)'
  BY DEF Sound
<1>6. \A i \in DOMAIN Pending' : \/ \E j \in DOMAIN Pending : Pending'[i] = Pending[j]
                                 \/ \E a \in Actions : Pending'[i] = a /\ Sound(a)'
  BY <1>4, <1>5
<1>7. (\A i \in DOMAIN Pending : Sound(Pending[i]))'
  BY <1>1, <1>3, <1>6, ActionsStaySound
<1>8. \A t \in Search : AsPromised(t)' = AsPromised(t)
  BY DEF AsPromised, Phase, Live
<1> QED BY <1>2, <1>7, <1>8, NoQueryChanges DEF PInv

LEMMA PacketIsNotNoticed ==
    ASSUME IInv, IInv', PInv, PacketArrives
    PROVE  PInv' /\ UNCHANGED query
<1> DEFINE act == [type |-> "RX"]
<1>1. TypeOK /\ act \in Actions
  BY DEF IInv, Actions
<1>2. UNCHANGED <<search, queries, action>> /\ s_action_queue' = Append(s_action_queue, act)
  BY DEF PacketArrives, mdns_priv_queue_action
<1>3. \A i \in DOMAIN Pending' : (\E j \in DOMAIN Pending : Pending'[i] = Pending[j]) \/ Pending'[i] = act
  BY <1>1, <1>2, PendingAppends, PendingIsSeq
<1> QED BY <1>2, <1>3, SearchesStay

LEMMA TakingIsNotNoticed ==
    ASSUME IInv, IInv', PInv, TimerBegins \/ ServiceTakes \/ UNCHANGED vars
    PROVE  PInv' /\ UNCHANGED query
<1>1. UNCHANGED <<search, queries>>
  BY DEF TimerBegins, ServiceTakes, vars
<1>2. Pending' = Pending
  BY PendingTaken, PendingStays DEF IInv, TimerBegins, vars
<1> QED BY <1>1, <1>2, SearchesStay

LEMMA SendingIsNotNoticed ==
    ASSUME IInv, IInv', PInv, search_add \/ search_send
    PROVE  PInv' /\ UNCHANGED query
<1>1. /\ UNCHANGED <<search, queries, s_action_queue>>
      /\ action # <<>> /\ action' = <<>>
  BY DEF search_add, search_send, Executes
<1>2. TypeOK
  BY DEF IInv
<1>3. \A i \in DOMAIN Pending' : i + 1 \in DOMAIN Pending /\ Pending'[i] = Pending[i + 1]
  BY <1>1, <1>2, PendingExecuted
<1> QED BY <1>1, <1>3, SearchesStay

(* The walk of the timer only turns OFF, and queues an END for, a search    *)
(* whose time is up.                                                        *)
LEMMA WalkIsNotNoticed ==
    ASSUME IInv, IInv', PInv, TimerVisits
    PROVE  PInv' /\ UNCHANGED query
<1>1. TypeOK /\ TypeOK' /\ search \in [Search -> Searches] /\ queries \in Nat
  BY DEF IInv, TypeOK
<1>2. PICK s \in timer : EndSearch(s) \/ SendSearch(s) \/ LeaveSearch(s)
  BY DEF TimerVisits
<1>3. UNCHANGED <<action, queries>>
  BY DEF TimerVisits
<1>4. /\ s \in Search /\ Listed(s) /\ search[s] \in Searches
      /\ search' = [search EXCEPT ![s] = search'[s]]
  BY <1>2, VisitShape
<1>5. \E state \in {"INIT", "RUNNING", "OFF"} :
         /\ search'[s] = [search[s] EXCEPT !.state = state]
         /\ state = "OFF" => search[s].late \/ search[s].state = "OFF"
  <2>1. CASE EndSearch(s)
    BY <1>1, <1>4, <2>1 DEF EndSearch
  <2>2. CASE SendSearch(s)
    BY <1>1, <1>4, <2>2 DEF SendSearch
  <2>3. CASE LeaveSearch(s)
    <3>1. search'[s] = [search[s] EXCEPT !.state = search[s].state]
          /\ search[s].state \in {"INIT", "RUNNING", "OFF"}
      BY <1>1, <1>4, <2>3 DEF LeaveSearch, Searches
    <3> QED BY <3>1
  <2> QED BY <1>2, <2>1, <2>2, <2>3
<1>6. /\ \A t \in Search : t # s => search'[t] = search[t]
      /\ search'[s].user = search[s].user /\ search'[s].id = search[s].id
      /\ search'[s].late = search[s].late /\ search'[s].done = search[s].done
      /\ search'[s].told = search[s].told
      /\ search'[s].max_results = search[s].max_results
      /\ search'[s].num_results = search[s].num_results
      /\ search'[s].state = "OFF" => search[s].late \/ search[s].state = "OFF"
  BY <1>1, <1>4, <1>5 DEF Searches
<1>7. Live(s)
  BY <1>4 DEF IInv, ListedIsLive, Listed
<1>8. (\A t \in Search : Kept(search[t]))'
  <2> SUFFICES ASSUME NEW t \in Search PROVE Kept(search[t])'
    OBVIOUS
  <2>1. Kept(search[t])
    BY DEF PInv
  <2> QED BY <1>3, <1>6, <1>7, <2>1 DEF Kept, Live
<1>9. \A t \in Search : GoesOn(t)
  BY <1>6, <1>7 DEF GoesOn
<1>10. \A i \in DOMAIN Pending' : \/ \E j \in DOMAIN Pending : Pending'[i] = Pending[j]
                                  \/ \E a \in Actions : Pending'[i] = a /\ Sound(a)'
  <2>1. CASE UNCHANGED s_action_queue
    BY <1>3, <2>1, PendingStays
  <2>2. ASSUME NEW type \in {"SEND", "END"}, type = "END" => search[s].late,
               s_action_queue' = Append(s_action_queue, SearchAction(type, s))
        PROVE  \A i \in DOMAIN Pending' : \/ \E j \in DOMAIN Pending : Pending'[i] = Pending[j]
                                          \/ \E a \in Actions : Pending'[i] = a /\ Sound(a)'
    <3>1. SearchAction(type, s) \in Actions
      BY <1>4 DEF Actions, Searches, SearchAction
    <3>2. search[s].id <= queries
      BY <1>4 DEF PInv, Kept
    <3>3. \A a : a = SearchAction(type, s) => Sound(a)'
      BY <1>3, <1>6, <2>2, <3>2 DEF Sound, SearchAction
    <3>4. \A i \in DOMAIN Pending' : \/ \E j \in DOMAIN Pending : Pending'[i] = Pending[j]
                                     \/ Pending'[i] = SearchAction(type, s)
      <4>1. /\ DOMAIN Pending' = 1..Len(Pending) + 1
            /\ \A i \in DOMAIN Pending : Pending'[i] = Pending[i]
            /\ Pending'[Len(Pending) + 1] = SearchAction(type, s)
        BY <1>1, <1>3, <2>2, <3>1, PendingAppends
      <4>2. DOMAIN Pending = 1..Len(Pending) /\ Len(Pending) \in Nat
        BY <1>1, PendingIsSeq
      <4> QED BY <4>1, <4>2
    <3> QED BY <3>1, <3>3, <3>4
  <2>3. CASE EndSearch(s)
    BY <2>1, <2>2, <2>3 DEF EndSearch, mdns_priv_queue_action
  <2>4. CASE SendSearch(s)
    BY <2>1, <2>2, <2>4 DEF SendSearch, mdns_priv_queue_action
  <2>5. CASE LeaveSearch(s)
    BY <2>1, <2>5 DEF LeaveSearch
  <2> QED BY <1>2, <2>3, <2>4, <2>5
<1>11. (\A i \in DOMAIN Pending : Sound(Pending[i]))'
  <2>1. queries' >= queries
    BY <1>1, <1>3
  <2> QED BY <1>1, <1>9, <1>10, <2>1, ActionsStaySound
<1>12. \A t \in Search : AsPromised(t)' = AsPromised(t)
  BY <1>6 DEF AsPromised, Phase, Live
<1> QED BY <1>8, <1>11, <1>12, NoQueryChanges DEF PInv

-----------------------------------------------------------------------------
(* Serving and ending                                                       *)

(* What the service task does to a search: it fills it up to its limit, and *)
(* finishes it when it is full or late.                                     *)
Fed(s) ==
    /\ Listed(s)
    /\ \E n \in search[s].num_results..search[s].max_results :
         \/ search'[s] = [search[s] EXCEPT !.num_results = n]
         \/ /\ search[s].late \/ (search[s].max_results > 0 /\ n = search[s].max_results)
            /\ \E told \in {0, 1} :
                 /\ search[s].user = "async" => told = 1
                 /\ search'[s] = [search[s] EXCEPT !.num_results = n, !.state = "OFF",
                                                   !.done = TRUE, !.told = told]

(* The asker sees that as more results, and as the end when they are all    *)
(* there or the time is up.                                                 *)
LEMMA FedIsServed ==
    ASSUME IInv, IInv', PInv, queries' = queries, NEW s \in Search, Fed(s)
    PROVE  /\ Kept(search[s])' /\ GoesOn(s)
           /\ Promise!Served(query[s], query'[s])
<1>1. search[s] \in Searches /\ Kept(search[s]) /\ MaxResults \in Nat
  BY LimitsAssumption DEF IInv, TypeOK, PInv
<1>2. Live(s) /\ ~search[s].done /\ search[s].told = 0
  BY DEF Fed, IInv, ListedIsLive, Listed
<1>3. PICK n \in search[s].num_results..search[s].max_results :
         \/ search'[s] = [search[s] EXCEPT !.num_results = n]
         \/ /\ search[s].late \/ (search[s].max_results > 0 /\ n = search[s].max_results)
            /\ \E told \in {0, 1} :
                 /\ search[s].user = "async" => told = 1
                 /\ search'[s] = [search[s] EXCEPT !.num_results = n, !.state = "OFF",
                                                   !.done = TRUE, !.told = told]
  BY DEF Fed
<1> DEFINE full == search[s].max_results > 0 /\ n = search[s].max_results
<1>4. /\ search[s].num_results \in Nat /\ search[s].max_results \in Nat
      /\ n \in Nat /\ n <= search[s].max_results
  BY <1>1 DEF Searches
<1>5. /\ search'[s].user = search[s].user /\ search'[s].id = search[s].id
      /\ search'[s].late = search[s].late /\ search'[s].num_results = n
      /\ search'[s].max_results = search[s].max_results
      /\ \/ /\ ~search'[s].done /\ search'[s].told = 0 /\ search'[s].state = search[s].state
         \/ /\ search[s].late \/ full
            /\ search'[s].done /\ (search[s].user = "async" => search'[s].told = 1)
  <2>1. CASE search'[s] = [search[s] EXCEPT !.num_results = n]
    BY <1>1, <1>2, <2>1 DEF Searches
  <2>2. ASSUME search[s].late \/ full, NEW told \in {0, 1}, search[s].user = "async" => told = 1,
               search'[s] = [search[s] EXCEPT !.num_results = n, !.state = "OFF",
                                              !.done = TRUE, !.told = told]
        PROVE  /\ search'[s].user = search[s].user /\ search'[s].id = search[s].id
               /\ search'[s].late = search[s].late /\ search'[s].num_results = n
               /\ search'[s].max_results = search[s].max_results
               /\ search'[s].done /\ search'[s].told = told
    BY <1>1, <2>2 DEF Searches
  <2> QED BY <1>3, <2>1, <2>2
<1>6. Kept(search[s])'
  BY <1>1, <1>2, <1>4, <1>5 DEF Kept, Live
<1>7. GoesOn(s)
  BY <1>2, <1>5 DEF GoesOn
<1>8. Phase(s) = IF search[s].late THEN "late" ELSE "running"
  BY <1>2 DEF Phase
<1>9. \/ Phase(s)' = Phase(s)
      \/ (search[s].late \/ full) /\ Phase(s)' = "over"
  BY <1>2, <1>5, <1>8 DEF Phase, Live
<1>10. PICK waits \in BOOLEAN : waits = (search[s].user = "sync")
  OBVIOUS
<1> DEFINE q == [phase |-> Phase(s), waits |-> waits, max |-> search[s].max_results,
                 found |-> search[s].num_results]
           g == [phase |-> Phase(s), waits |-> waits, max |-> search[s].max_results,
                 found |-> n]
<1>11. query[s] = q /\ Promise!Runs(q)
  BY <1>8, <1>10 DEF query, AsPromised, Promise!Runs
<1>12. query'[s] = [phase |-> Phase(s)', waits |-> waits, max |-> search[s].max_results,
                    found |-> n]
  BY <1>5, <1>10 DEF query, AsPromised
<1>13. g \in Promise!Grown(q)
  BY <1>3 DEF Promise!Grown
<1>14. (search[s].late => g.phase = "late") /\ (full => Promise!HasAll(g))
  BY <1>8 DEF Promise!HasAll
<1>15. CASE Phase(s)' = Phase(s)
  BY <1>6, <1>7, <1>11, <1>12, <1>13, <1>15 DEF Promise!Served
<1>16. CASE (search[s].late \/ full) /\ Phase(s)' = "over"
  <2>1. query'[s] = [g EXCEPT !.phase = "over"]
    BY <1>12, <1>16
  <2> QED BY <1>6, <1>7, <1>11, <1>13, <1>14, <1>16, <2>1 DEF Promise!Served
<1> QED BY <1>9, <1>15, <1>16

LEMMA FeedingServes ==
    ASSUME IInv, IInv', PInv, action # <<>>, action' = <<>>, UNCHANGED <<s_action_queue, queries>>,
           \A s \in Search : search'[s] = search[s] \/ Fed(s)
    PROVE  PInv' /\ Promise!Serve
<1>1. TypeOK /\ TypeOK' /\ queries' >= queries /\ queries' = queries
  BY DEF IInv, TypeOK
<1>2. \A s \in Search : search'[s] = search[s] => Kept(search[s])' /\ GoesOn(s) /\ query'[s] = query[s]
  BY <1>1 DEF PInv, Kept, GoesOn, query, AsPromised, Phase, Live
<1>3. \A s \in Search : Fed(s) => /\ Kept(search[s])' /\ GoesOn(s)
                                  /\ Promise!Served(query[s], query'[s])
  BY <1>1, FedIsServed
<1>4. (\A s \in Search : Kept(search[s]))' /\ \A s \in Search : GoesOn(s)
  BY <1>2, <1>3
<1>5. \A i \in DOMAIN Pending' : \E j \in DOMAIN Pending : Pending'[i] = Pending[j]
  BY <1>1, PendingExecuted
<1>6. PInv'
  BY <1>1, <1>4, <1>5, NoNewAction DEF PInv
<1>7. query' \in [Search -> Promise!Queries]
  <2> SUFFICES ASSUME NEW s \in Search PROVE AsPromised(s)' \in Promise!Queries
    BY DEF query
  <2>1. search'[s] \in Searches
    BY <1>1 DEF TypeOK
  <2>2. Phase(s)' \in Promise!Phases
    BY DEF Phase, Promise!Phases
  <2>3. (search'[s].user = "sync") \in BOOLEAN
    OBVIOUS
  <2> QED BY <2>1, <2>2, <2>3 DEF AsPromised, Promise!Queries, Searches
<1>8. \A s \in Search : query'[s] = query[s] \/ Promise!Served(query[s], query'[s])
  BY <1>2, <1>3
<1> QED BY <1>6, <1>7, <1>8 DEF Promise!Serve

(* search_finish for one in the chain.                                      *)
LEMMA FinishedShape ==
    ASSUME NEW s \in s_search_once, NEW found \in Searches, found.told = 0
    PROVE  \E told \in {0, 1} :
             /\ found.user = "async" => told = 1
             /\ Finished(s, found) = [found EXCEPT !.state = "OFF", !.done = TRUE, !.told = told]
<1>1. CASE found.user = "async"
  BY <1>1 DEF Finished, Listed
<1>2. CASE found.user # "async"
  BY <1>2 DEF Finished, Listed
<1> QED BY <1>1, <1>2

(* An END that finds its search in the chain is its own, and in time.       *)
LEMMA EndFeeds ==
    ASSUME IInv, IInv', PInv, EndAction
    PROVE  PInv' /\ Promise!Serve
<1> DEFINE ended == action[1].search
<1>1. /\ action # <<>> /\ action[1].type = "END" /\ action' = <<>>
      /\ UNCHANGED <<s_action_queue, queries>>
      /\ search' = [search EXCEPT ![ended] = Finished(ended, search[ended])]
  BY DEF EndAction, Executes
<1>2. TypeOK /\ search \in [Search -> Searches]
  BY DEF IInv, TypeOK
<1>3. 1 \in DOMAIN Pending /\ Pending[1] = action[1] /\ ended \in Search
  BY <1>1, <1>2, PendingExecuted, ActionsShape
<1>4. \A s \in Search : s # ended => search'[s] = search[s]
  BY <1>1, <1>2
<1>5. CASE ~Listed(ended)
  <2>1. search'[ended] = search[ended]
    BY <1>1, <1>2, <1>3, <1>5 DEF Finished
  <2> QED BY <1>1, <1>4, <2>1, FeedingServes
<1>6. CASE Listed(ended)
  <2>1. Live(ended) /\ search[ended].told = 0 /\ search[ended].id = action[1].id
    BY <1>1, <1>3, <1>6 DEF IInv, ListedIsLive, ListedOwnsActions, ForSearch, Listed
  <2>2. search[ended].late
    <3>1. Sound(action[1])
      BY <1>3 DEF PInv
    <3> QED BY <1>1, <2>1, <3>1 DEF Sound
  <2>3. search[ended] \in Searches /\ ended \in s_search_once
    BY <1>2, <1>3, <1>6 DEF Listed
  <2>4. PICK told \in {0, 1} :
          /\ search[ended].user = "async" => told = 1
          /\ Finished(ended, search[ended]) =
               [search[ended] EXCEPT !.state = "OFF", !.done = TRUE, !.told = told]
    BY <2>1, <2>3, FinishedShape
  <2> DEFINE n == search[ended].num_results
  <2>5. n \in n..search[ended].max_results
    <3>1. Kept(search[ended])
      BY <1>3 DEF PInv
    <3> QED BY <2>3, <3>1, LimitsAssumption DEF Kept, Searches
  <2>6. search'[ended] = [search[ended] EXCEPT !.num_results = n, !.state = "OFF",
                                               !.done = TRUE, !.told = told]
    BY <1>1, <1>2, <1>3, <2>3, <2>4 DEF Searches
  <2> HIDE DEF ended
  <2>7. Fed(ended)
    BY <1>6, <2>2, <2>4, <2>5, <2>6 DEF Fed
  <2> QED BY <1>1, <1>4, <2>7, FeedingServes
<1> QED BY <1>5, <1>6

(* A packet gives results to the running searches it answers, and finishes  *)
(* those it fills.                                                          *)
LEMMA ReceiveFeeds ==
    ASSUME IInv, IInv', PInv, Receive
    PROVE  PInv' /\ Promise!Serve
<1>1. action # <<>> /\ action' = <<>> /\ UNCHANGED <<s_action_queue, queries>>
  BY DEF Receive, Executes
<1>2. PICK hits \in [Search -> 0..MaxResults], authoritative \in BOOLEAN :
        LET answered == [s \in Search |-> Answered(s, hits)]
            full == IF authoritative THEN Full(answered) ELSE {}
        IN  search' = [s \in Search |-> IF s \in full THEN Finished(s, answered[s])
                                                      ELSE answered[s]]
  BY DEF Receive
<1> DEFINE answered == [s \in Search |-> Answered(s, hits)]
           full == IF authoritative THEN Full(answered) ELSE {}
<1>3. \A s \in Search : search'[s] = IF s \in full THEN Finished(s, answered[s]) ELSE answered[s]
  BY <1>2
<1>4. \A s \in full : /\ Listed(s) /\ answered[s].max_results > 0
                      /\ answered[s].num_results >= answered[s].max_results
  BY DEF Full, Listed
<1>5. ASSUME NEW s \in Search
      PROVE  search'[s] = search[s] \/ Fed(s)
  <2> DEFINE found == search[s].num_results + hits[s]
             max == search[s].max_results
             n == IF found < max THEN found ELSE max
  <2>1. search[s] \in Searches /\ Kept(search[s]) /\ hits[s] \in Nat
    BY <1>2, LimitsAssumption DEF IInv, TypeOK, PInv
  <2>2. max \in Nat /\ search[s].num_results \in Nat /\ search[s].num_results <= max
    BY <2>1, LimitsAssumption DEF Searches, Kept
  <2>3. /\ n \in search[s].num_results..max
        /\ search[s].num_results \in search[s].num_results..max
    BY <2>1, <2>2
  <2>4. \E m \in search[s].num_results..max :
          /\ answered[s] = [search[s] EXCEPT !.num_results = m]
          /\ answered[s] = search[s] \/ Listed(s)
    <3>1. CASE Listed(s) /\ search[s].state # "OFF"
      BY <2>3, <3>1 DEF Answered
    <3>2. CASE ~(Listed(s) /\ search[s].state # "OFF")
      <4>1. search[s] = [search[s] EXCEPT !.num_results = search[s].num_results]
        BY <2>1 DEF Searches
      <4> QED BY <2>3, <3>2, <4>1 DEF Answered
    <3> QED BY <3>1, <3>2
  <2> HIDE DEF answered, full
  <2>5. PICK m \in search[s].num_results..max :
          /\ answered[s] = [search[s] EXCEPT !.num_results = m]
          /\ answered[s] = search[s] \/ Listed(s)
    BY <2>4
  <2>6. CASE s \notin full
    BY <1>3, <2>5, <2>6 DEF Fed
  <2>7. CASE s \in full
    <3>1. m \in Nat /\ m <= max /\ m \in 0..MaxResults /\ Listed(s) /\ search[s].told = 0
      BY <1>4, <2>1, <2>2, <2>5, <2>7, LimitsAssumption DEF IInv, ListedIsLive, Listed, Searches
    <3>2. /\ answered[s] \in Searches /\ answered[s].told = 0
          /\ answered[s].user = search[s].user
          /\ answered[s].num_results = m /\ answered[s].max_results = max
      BY <2>1, <2>5, <3>1 DEF Searches
    <3>3. m = max /\ max > 0
      BY <1>4, <2>2, <2>7, <3>1, <3>2
    <3>4. PICK told \in {0, 1} :
            /\ answered[s].user = "async" => told = 1
            /\ Finished(s, answered[s]) =
                 [answered[s] EXCEPT !.state = "OFF", !.done = TRUE, !.told = told]
      <4>1. s \in s_search_once
        BY <3>1 DEF Listed
      <4> QED BY <3>2, <4>1, FinishedShape
    <3>5. search'[s] = [search[s] EXCEPT !.num_results = m, !.state = "OFF",
                                         !.done = TRUE, !.told = told]
      BY <1>3, <2>1, <2>5, <2>7, <3>4 DEF Searches
    <3> QED BY <2>5, <3>1, <3>2, <3>3, <3>4, <3>5 DEF Fed
  <2> QED BY <2>6, <2>7
<1> QED BY <1>1, <1>5, FeedingServes

-----------------------------------------------------------------------------
(* The callers see what QueryPromise promises: each query ends once, with   *)
(* all its results or its time up, and is left alone from then on, whatever *)
(* becomes of the chain, the queue and the addresses meanwhile.             *)
THEOREM PromiseKept == Spec => Promised
<1>1. Init => PInv /\ Promise!Init
  <2> SUFFICES ASSUME Init PROVE PInv /\ Promise!Init
    OBVIOUS
  <2>1. \A s \in Search : search[s] = Freed
    BY DEF Init
  <2>2. \A s \in Search : Kept(search[s])
    <3> TAKE s \in Search
    <3>1. /\ search[s] = Freed /\ search[s].user = "none" /\ search[s].id = 0 /\ queries = 0
          /\ search[s].num_results = 0 /\ search[s].max_results = 0
      BY <2>1 DEF Freed, Init
    <3> QED BY <3>1 DEF Kept
  <2>3. DOMAIN Pending = {}
    BY DEF Init, Pending
  <2>4. \A s \in Search : AsPromised(s) = Promise!None
    <3> TAKE s \in Search
    <3>1. search[s].user = "none" /\ search[s].max_results = 0 /\ search[s].num_results = 0
      BY <2>1 DEF Freed
    <3>2. Phase(s) = "none" /\ (search[s].user = "sync") = FALSE
      BY <3>1 DEF Phase, Live
    <3> QED BY <3>1, <3>2 DEF AsPromised, Promise!None
  <2> QED BY <2>2, <2>3, <2>4 DEF PInv, Promise!Init, query
<1>2. IInv /\ IInv' /\ PInv /\ [Next]_vars => PInv' /\ [Promise!Next]_query
  <2> SUFFICES ASSUME IInv, IInv', PInv, [Next]_vars
               PROVE  PInv' /\ (Promise!Next \/ UNCHANGED query)
    OBVIOUS
  <2>1. CASE Caller
    <3>1. PICK s \in Search :
            \/ \E user \in {"sync", "async"}, max \in 0..MaxResults : QueryNew(s, user, max)
            \/ QueryReturns(s) \/ mdns_query_async_get_results(s) \/ mdns_query_async_delete(s)
      BY <2>1 DEF Caller
    <3>2. CASE QueryReturns(s) \/ mdns_query_async_delete(s)
      BY <3>2, FreeReleases DEF QueryReturns, mdns_query_async_delete, Promise!Next
    <3> QED BY <3>1, <3>2, QueryNewAsks, GetResultsTakes DEF Promise!Next
  <2>2. CASE Timer
    BY <2>2, TakingIsNotNoticed, WalkIsNotNoticed DEF Timer
  <2>3. CASE \E s \in Search : TimesOut(s)
    BY <2>3, TimesOutSimulates DEF Promise!Next
  <2>4. CASE PacketArrives \/ ServiceTakes \/ UNCHANGED vars
    BY <2>4, PacketIsNotNoticed, TakingIsNotNoticed
  <2>5. CASE Execute
    BY <2>5, SendingIsNotNoticed, EndFeeds, ReceiveFeeds DEF Execute, Promise!Next
  <2> QED BY <2>1, <2>2, <2>3, <2>4, <2>5 DEF Next
<1> QED BY <1>1, <1>2, Invariance, PTL DEF Spec, Promised, Promise!Spec
=============================================================================
