---------------------------- MODULE QueryPromise ----------------------------
(***************************************************************************)
(* What the querier promises to those who ask, without chain, queue, timer, *)
(* lock and pointers: a query gets results only while it runs and no more   *)
(* than it asked for; it ends once, and not before it has all of them or    *)
(* its time is up, whatever becomes of the others; when it has ended it is  *)
(* left alone, and its asker, who alone releases it, is told once.          *)
(***************************************************************************)
EXTENDS Naturals

CONSTANTS
    Search,     \* the places for queries
    MaxResults  \* bound: the largest number of results asked for

VARIABLE query  \* the query at each place

(* late: its time is up; over: it has ended; taken: its asker, who does not *)
(* wait for it, has seen that.                                              *)
Phases == {"none", "running", "late", "over", "taken"}

Queries == [phase : Phases, waits : BOOLEAN, max : 0..MaxResults, found : 0..MaxResults]

None == [phase |-> "none", waits |-> FALSE, max |-> 0, found |-> 0]

Init == query = [s \in Search |-> None]

(* A caller who waits, or one who comes back for the results.               *)
Ask(s) ==
    /\ query[s] = None
    /\ \E waits \in BOOLEAN, max \in 0..MaxResults :
          query' = [query EXCEPT ![s] = [phase |-> "running", waits |-> waits, max |-> max, found |-> 0]]

TimeIsUp(s) ==
    /\ query[s].phase = "running"
    /\ query' = [query EXCEPT ![s].phase = "late"]

Runs(q) == q.phase \in {"running", "late"}

HasAll(q) == q.max > 0 /\ q.found = q.max

Grown(q) == {[q EXCEPT !.found = n] : n \in q.found..q.max}

(* One packet may answer several queries, and end several.                  *)
Served(q, r) ==
    /\ Runs(q)
    /\ \E g \in Grown(q) : \/ r = g
                           \/ (g.phase = "late" \/ HasAll(g)) /\ r = [g EXCEPT !.phase = "over"]

Serve ==
    /\ query' \in [Search -> Queries]
    /\ \A s \in Search : query'[s] = query[s] \/ Served(query[s], query'[s])

Take(s) ==
    /\ query[s].phase = "over" /\ ~query[s].waits
    /\ query' = [query EXCEPT ![s].phase = "taken"]

(* He who waits goes on when the query is over; the other may release it    *)
(* from when its time is up.                                                *)
Release(s) ==
    /\ \/ query[s].phase = "over"
       \/ query[s].phase \in {"late", "taken"} /\ ~query[s].waits
    /\ query' = [query EXCEPT ![s] = None]

Next == Serve \/ \E s \in Search : Ask(s) \/ TimeIsUp(s) \/ Take(s) \/ Release(s)

Spec == Init /\ [][Next]_query
=============================================================================
