-------------------------- MODULE MdnsService_proofs --------------------------
(* MdnsService for any number of searches and packets, every length of the  *)
(* queue and every number of inits and packets received.                    *)
EXTENDS MdnsService, ListTheorems

Action ==
    [type : {"ADD", "SEND", "END"}, of : Search] \cup [type : {"TX"}, of : Packet]
      \cup [type : {"RX", "EVENT", "STOP"}, of : {None}]
Scheduled == [packet : Packet, queued : BOOLEAN]

Starting == {"QUEUE", "NETIF", "REGISTER", "ENABLE", "UNREGISTER", "TASK", "CREATE",
             "UNLOCK", "UNMAKE", "DISABLE", "UNQUEUE", "SERVER"}
Running == {"UP", "TIMER", "STOP", "JOIN"}
Emptying == {"DRAIN", "DELETE", "LISTS"}
Ending == {"UNLOCKED", "SOCKETS"} \cup Emptying

Typed ==
    /\ main \in {"DOWN"} \cup Starting \cup Running \cup Ending
    /\ queue \in Seq(Action) /\ taken \in Seq(Action)
    /\ chain \in Seq(Search) /\ tx \in Seq(Scheduled)
    /\ caller \in Search \cup {None} /\ asking \in Search \cup {None} /\ leaked \subseteq Action
    /\ callback \in {"NO", "SENDS", "WALKS"} /\ handler \in {"OFF", "ON", "POSTS"}
    /\ late \in BOOLEAN /\ refused \in BOOLEAN

(* What exists at each point of mdns_init and mdns_free                     *)
Built ==
    /\ lock = IF main \in Running \cup {"UNMAKE", "UNLOCKED"} THEN "FREE"
              ELSE IF main \in {"CREATE", "UNLOCK"} THEN "MAIN" ELSE "NONE"
    /\ made <=> main \notin Queueless
    /\ timer <=> main \in {"CREATE", "UP", "TIMER"}
    /\ task \in IF main \notin Running THEN {"NONE"}
                ELSE IF main = "JOIN" THEN {"WAITS", "TAKEN", "STOPPED"} ELSE {"WAITS", "TAKEN"}
    /\ Len(taken) = IF task = "TAKEN" THEN 1 ELSE 0
    /\ ~made => queue = <<>>
    /\ open => main \notin Queueless \cup Unheard \cup {"ENABLE", "DRAIN"}

(* Why something may be lost with the queue                                 *)
LossHasCause == failed # {} \/ strayed \cap Unheard # {}

(* What an init that failed leaves behind                                   *)
Causes ==
    /\ handler # "OFF" => \/ "TASK" \in failed \/ (main = "UNREGISTER" /\ failed # {})
                         \/ main \in {"REGISTER", "ENABLE", "TASK", "CREATE", "UNLOCK", "UNMAKE", "DISABLE", "UP"}
    /\ main \in {"NETIF", "UNREGISTER", "UNQUEUE", "DELETE"} => LossHasCause \/ queue = <<>>
    /\ leaked # {} => LossHasCause \/ refused
    /\ callback # "NO" => late \/ timer

(* The stop is behind all that the timer asked for; only packets, events    *)
(* and the searches of queries come behind it, and what a late callback     *)
(* pushes.                                                                  *)
Follows(act) == act.type \in {"RX", "EVENT", "ADD"} \/ (act.type # "STOP" /\ late)
OnlyFollowersAfter(k) == \A j \in DOMAIN queue : j > k => Follows(queue[j])

StopIsLast ==
    /\ main = "JOIN" /\ task # "STOPPED" => \E k \in DOMAIN queue : queue[k].type = "STOP"
    /\ \A k \in DOMAIN queue : queue[k].type = "STOP" => OnlyFollowersAfter(k)
    /\ main = "JOIN" /\ task = "STOPPED" => OnlyFollowersAfter(0)
    /\ main \in {"UNLOCKED", "SOCKETS", "DRAIN"} => refused \/ OnlyFollowersAfter(0)
    /\ main # "JOIN" => \A k \in DOMAIN queue : queue[k].type # "STOP"
    /\ \A k \in DOMAIN taken : taken[k].type # "STOP"

(* What is allocated is a search that a caller is about to send, that is in *)
(* an ADD or in the chain, or was lost in an ADD, or a packet that is in    *)
(* the list, and in one place only.  What a late callback pushed, or the    *)
(* task left, may free what is in the lists before they are freed.  And who *)
(* waits waits for one of these searches.                                   *)
Pipe == taken \o queue
AddsAt == {k \in DOMAIN Pipe : Pipe[k].type = "ADD"}
Added == {Pipe[k].of : k \in AddsAt}
AddedOnce == \A j, k \in AddsAt : Pipe[j].of = Pipe[k].of => j = k
Packets(list) == {list[k].packet : k \in DOMAIN list}
Distinct(list) == \A j, k \in DOMAIN list : list[j].packet = list[k].packet => j = k
InUse == ToSet(chain) \cup Packets(tx)
Asked == {asking} \ {None}
Owned == Added \cup Lost \cup Asked

Apart ==
    /\ Added \cap ToSet(chain) = {} /\ Asked \cap (Added \cup ToSet(chain)) = {}
    /\ Lost \cap (Added \cup ToSet(chain) \cup Asked) = {}

HeapIsKept ==
    /\ IsInjective(chain) /\ Distinct(tx) /\ AddedOnce /\ Apart
    /\ chain # <<>> \/ tx # <<>> => main \in Running \cup Ending
    /\ Owned \subseteq live /\ live \subseteq InUse \cup Owned
    /\ InUse \subseteq live \/ (main \in Emptying /\ (late \/ refused) /\ InUse \subseteq live \cup freed)
    /\ caller \in ToSet(chain) \cup Added \cup Lost \cup {None}

Sound == Typed /\ Built /\ Causes /\ StopIsLast /\ HeapIsKept

IInv == FaultsHaveCauses /\ (fault = None => Sound)

-----------------------------------------------------------------------------
(* The queue                                                                *)

LEMMA NoFault == ASSUME fault' = None PROVE FaultsHaveCauses'
BY FaultAssumption DEF FaultsHaveCauses

(* What is pushed comes behind what is there.                               *)
LEMMA PipeGrows ==
  ASSUME Typed, NEW acts \in Seq(Action), queue' = queue \o acts, taken' = taken
  PROVE  /\ queue' \in Seq(Action) /\ Pipe \in Seq(Action) /\ Pipe' \in Seq(Action)
         /\ Len(Pipe') = Len(Pipe) + Len(acts)
         /\ \A k \in 1..Len(Pipe) : Pipe'[k] = Pipe[k]
         /\ \A k \in 1..Len(acts) : Pipe'[Len(Pipe) + k] = acts[k]
<1>1. queue \in Seq(Action) /\ taken \in Seq(Action)
  BY DEF Typed
<1>2. queue' \in Seq(Action) /\ Pipe \in Seq(Action)
  BY <1>1, ConcatProperties DEF Pipe
<1>3. Pipe' = Pipe \o acts
  BY <1>1, ConcatAssociative DEF Pipe
<1>4. /\ Pipe \o acts \in Seq(Action) /\ Len(Pipe \o acts) = Len(Pipe) + Len(acts)
      /\ \A k \in 1..Len(Pipe) + Len(acts) :
            (Pipe \o acts)[k] = IF k <= Len(Pipe) THEN Pipe[k] ELSE acts[k - Len(Pipe)]
  BY <1>2, ConcatProperties
<1>5. Len(Pipe) \in Nat /\ Len(acts) \in Nat
  BY <1>2
<1>6. \A k \in 1..Len(Pipe) : k \in 1..Len(Pipe) + Len(acts) /\ k <= Len(Pipe)
  BY <1>5
<1>7. \A k \in 1..Len(acts) : /\ Len(Pipe) + k \in 1..Len(Pipe) + Len(acts)
                              /\ ~(Len(Pipe) + k <= Len(Pipe)) /\ (Len(Pipe) + k) - Len(Pipe) = k
  BY <1>5
<1> QED BY <1>2, <1>3, <1>4, <1>6, <1>7

LEMMA AddsStay ==
  ASSUME Typed, NEW acts \in Seq(Action), \A k \in DOMAIN acts : acts[k].type # "ADD",
         queue' = queue \o acts, taken' = taken
  PROVE  Added' = Added /\ (AddedOnce => AddedOnce')
<1>1. /\ Len(Pipe) \in Nat /\ Len(acts) \in Nat /\ Len(Pipe') = Len(Pipe) + Len(acts)
      /\ DOMAIN Pipe = 1..Len(Pipe) /\ DOMAIN Pipe' = 1..Len(Pipe') /\ DOMAIN acts = 1..Len(acts)
      /\ \A k \in 1..Len(Pipe) : Pipe'[k] = Pipe[k]
      /\ \A k \in 1..Len(acts) : Pipe'[Len(Pipe) + k] = acts[k]
  BY PipeGrows
<1>2. \A k \in 1..Len(Pipe') : k \in 1..Len(Pipe) \/ (k - Len(Pipe) \in 1..Len(acts) /\ Len(Pipe) + (k - Len(Pipe)) = k)
  BY <1>1
<1>3. \A k \in DOMAIN Pipe' : Pipe'[k].type = "ADD" => k \in DOMAIN Pipe /\ Pipe'[k] = Pipe[k]
  <2> SUFFICES ASSUME NEW k \in 1..Len(Pipe'), Pipe'[k].type = "ADD"
               PROVE  k \in 1..Len(Pipe) /\ Pipe'[k] = Pipe[k]
    BY <1>1
  <2>1. CASE k \in 1..Len(Pipe)
    BY <1>1, <2>1
  <2>2. CASE k - Len(Pipe) \in 1..Len(acts) /\ Len(Pipe) + (k - Len(Pipe)) = k
    <3>1. Pipe'[k] = acts[k - Len(Pipe)]
      BY <1>1, <2>2
    <3> QED BY <1>1, <2>2, <3>1
  <2> QED BY <1>2, <2>1, <2>2
<1>4. \A k \in DOMAIN Pipe : k \in DOMAIN Pipe' /\ Pipe'[k] = Pipe[k]
  BY <1>1
<1>5. AddsAt' = AddsAt /\ \A k \in AddsAt : Pipe'[k] = Pipe[k]
  BY <1>3, <1>4 DEF AddsAt
<1> QED BY <1>5 DEF Added, AddedOnce

LEMMA PushKeepsStop ==
  ASSUME Typed, StopIsLast, NEW acts \in Seq(Action), queue' = queue \o acts,
         UNCHANGED <<main, task, taken, late, refused>>,
         \A k \in DOMAIN acts :
            /\ acts[k].type # "STOP"
            /\ main \in {"JOIN", "UNLOCKED", "SOCKETS", "DRAIN"} => Follows(acts[k])
  PROVE  StopIsLast'
<1>1. queue \in Seq(Action) /\ Len(queue) \in Nat /\ Len(acts) \in Nat
  BY DEF Typed
<1>2. /\ queue' \in Seq(Action) /\ Len(queue') = Len(queue) + Len(acts)
      /\ \A k \in 1..Len(queue) + Len(acts) :
            queue'[k] = IF k <= Len(queue) THEN queue[k] ELSE acts[k - Len(queue)]
  BY <1>1, ConcatProperties
<1>3. \A k \in 1..Len(queue) + Len(acts) :
         k \in 1..Len(queue) \/ (~(k <= Len(queue)) /\ k - Len(queue) \in 1..Len(acts))
  BY <1>1
<1>4. /\ DOMAIN queue = 1..Len(queue) /\ DOMAIN acts = 1..Len(acts)
      /\ DOMAIN queue' = 1..Len(queue) + Len(acts)
  BY <1>1, <1>2
<1>5. \A k \in DOMAIN queue : k \in DOMAIN queue' /\ queue'[k] = queue[k]
  BY <1>1, <1>2, <1>4
<1>6. \A k \in DOMAIN queue' : (k \in DOMAIN queue /\ queue'[k] = queue[k])
                                 \/ \E j \in DOMAIN acts : queue'[k] = acts[j]
  BY <1>1, <1>2, <1>3, <1>4
<1>7. \A act : Follows(act)' <=> Follows(act)
  BY DEF Follows
<1>8. ASSUME NEW n \in Nat, OnlyFollowersAfter(n), main \in {"JOIN", "UNLOCKED", "SOCKETS", "DRAIN"}
      PROVE  OnlyFollowersAfter(n)'
  BY <1>6, <1>7, <1>8 DEF OnlyFollowersAfter
<1>9. ASSUME NEW k \in DOMAIN queue', queue'[k].type = "STOP"
      PROVE  OnlyFollowersAfter(k)'
  <2>1. k \in DOMAIN queue /\ queue'[k] = queue[k] /\ k \in Nat
    BY <1>1, <1>4, <1>6, <1>9
  <2> QED BY <1>8, <1>9, <2>1 DEF StopIsLast
<1> QED BY <1>5, <1>6, <1>8, <1>9 DEF StopIsLast

(* The action the task takes is still in the pipe; a stop leaves it.        *)
LEMMA PipeTaken ==
  ASSUME Typed, taken = <<>>, queue # <<>>, taken' = <<Head(queue)>>, queue' = Tail(queue)
  PROVE  Pipe' = Pipe /\ taken' \in Seq(Action) /\ queue' \in Seq(Action) /\ Len(taken') = 1
<1>1. queue \in Seq(Action) /\ Head(queue) \in Action /\ queue' \in Seq(Action)
  BY DEF Typed
<1>2. Pipe = queue
  BY <1>1, ConcatEmptySeq DEF Pipe
<1>3. <<Head(queue)>> \o Tail(queue) = queue
  BY <1>1
<1> QED BY <1>1, <1>2, <1>3 DEF Pipe

(* An action that is done, or stops the task, leaves the pipe in front.     *)
LEMMA PipeShrinks ==
  ASSUME Pipe \in Seq(Action), Pipe # <<>>, Pipe' = Tail(Pipe)
  PROVE  /\ Added' \cup (IF Head(Pipe).type = "ADD" THEN {Head(Pipe).of} ELSE {}) = Added
         /\ AddedOnce => AddedOnce' /\ (Head(Pipe).type = "ADD" => Head(Pipe).of \notin Added')
<1>1. /\ Head(Pipe) = Pipe[1] /\ 1 \in DOMAIN Pipe
      /\ DOMAIN Pipe \subseteq Nat /\ DOMAIN Pipe' \subseteq Nat
      /\ \A k \in DOMAIN Pipe' : k >= 1 /\ k + 1 \in DOMAIN Pipe /\ Pipe'[k] = Pipe[k + 1]
      /\ \A k \in DOMAIN Pipe : k = 1 \/ (k - 1 \in DOMAIN Pipe' /\ Pipe'[k - 1] = Pipe[k])
  BY TailElements
<1>2. \A k \in AddsAt' : k \in Nat /\ k + 1 \in AddsAt /\ Pipe'[k] = Pipe[k + 1] /\ k + 1 # 1
  BY <1>1 DEF AddsAt
<1>3. \A k \in AddsAt : k = 1 \/ (k - 1 \in AddsAt' /\ Pipe'[k - 1] = Pipe[k])
  BY <1>1 DEF AddsAt
<1>4. 1 \in AddsAt <=> Head(Pipe).type = "ADD"
  BY <1>1 DEF AddsAt
<1>5. ASSUME AddedOnce
      PROVE  AddedOnce' /\ (Head(Pipe).type = "ADD" => Head(Pipe).of \notin Added')
  <2>1. ASSUME NEW j \in AddsAt', NEW k \in AddsAt', Pipe'[j].of = Pipe'[k].of
        PROVE  j = k
    <3>1. /\ j + 1 \in AddsAt /\ k + 1 \in AddsAt
          /\ Pipe[j + 1].of = Pipe[k + 1].of
      BY <1>2, <2>1
    <3>2. j + 1 = k + 1
      BY <1>5, <3>1 DEF AddedOnce
    <3>3. j \in Nat /\ k \in Nat
      BY <1>2
    <3> QED BY <3>2, <3>3
  <2>2. ASSUME Head(Pipe).type = "ADD", NEW k \in AddsAt', Pipe'[k].of = Head(Pipe).of
        PROVE  FALSE
    <3>1. 1 \in AddsAt /\ k + 1 \in AddsAt /\ k + 1 # 1
      BY <1>2, <1>4, <2>2
    <3>2. Pipe[k + 1].of = Pipe[1].of
      BY <1>1, <1>2, <2>2
    <3> QED BY <1>5, <3>1, <3>2 DEF AddedOnce
  <2> QED BY <2>1, <2>2 DEF AddedOnce, Added
<1>6. Added' \subseteq Added
  BY <1>2 DEF Added
<1>7. \A k \in AddsAt : k = 1 \/ Pipe[k].of \in Added'
  BY <1>3 DEF Added
<1>8. Head(Pipe).type = "ADD" => Head(Pipe).of \in Added
  BY <1>1, <1>4 DEF Added
<1>9. Added \subseteq Added' \cup (IF Head(Pipe).type = "ADD" THEN {Head(Pipe).of} ELSE {})
  <2> SUFFICES ASSUME NEW k \in AddsAt
               PROVE  Pipe[k].of \in Added' \cup (IF Head(Pipe).type = "ADD" THEN {Head(Pipe).of} ELSE {})
    BY DEF Added
  <2>1. CASE k = 1
    <3>1. Head(Pipe).type = "ADD" /\ Pipe[k] = Head(Pipe)
      BY <1>1, <1>4, <2>1
    <3> QED BY <3>1
  <2> QED BY <1>7, <2>1
<1> QED BY <1>5, <1>6, <1>8, <1>9

(* What is executed was the head of the pipe.                               *)
LEMMA PipeDone ==
  ASSUME Typed, Len(taken) = 1, taken' = <<>>, queue' = queue
  PROVE  /\ Pipe \in Seq(Action) /\ Pipe # <<>> /\ Pipe' = Tail(Pipe) /\ Head(Pipe) = Head(taken)
         /\ Head(taken) \in Action /\ taken' \in Seq(Action) /\ Len(taken') = 0
<1>1. queue \in Seq(Action) /\ taken \in Seq(Action) /\ taken = <<taken[1]>> /\ taken[1] \in Action
  <2>1. queue \in Seq(Action) /\ taken \in Seq(Action)
    BY DEF Typed
  <2>2. taken[1] \in Action
    BY <2>1, ElementOfSeq
  <2>3. <<taken[1]>> \in Seq(Action) /\ Len(<<taken[1]>>) = 1 /\ <<taken[1]>>[1] = taken[1]
    BY <2>2
  <2> QED BY <2>1, <2>2, <2>3, SeqEqual
<1> DEFINE a == taken[1]
<1> HIDE DEF a
<1>2. a \in Action /\ taken = <<a>> /\ Head(taken) = a
  BY <1>1 DEF a
<1>3. Pipe = <<a>> \o queue
  BY <1>2 DEF Pipe
<1>4. Pipe \in Seq(Action) /\ Pipe # <<>> /\ Tail(Pipe) = queue /\ Head(Pipe) = a
  <2> DEFINE p == <<a>> \o queue
  <2>1. /\ p \in Seq(Action) /\ Len(p) = 1 + Len(queue) /\ p[1] = a
        /\ \A k \in 1..Len(queue) : p[k + 1] = queue[k]
    BY <1>1, <1>2
  <2> HIDE DEF p
  <2>2. /\ Tail(p) \in Seq(Action) /\ Len(Tail(p)) = Len(queue) /\ Head(p) = a /\ p # <<>>
        /\ \A k \in 1..Len(queue) : Tail(p)[k] = queue[k]
    BY <1>1, <2>1
  <2>3. Tail(p) = queue
    BY <1>1, <2>2, SeqEqual
  <2> QED BY <1>3, <2>1, <2>2, <2>3 DEF p
<1>5. Pipe' = queue
  BY <1>1, ConcatEmptySeq DEF Pipe
<1> QED BY <1>2, <1>3, <1>4, <1>5

(* The task takes the first action, which may be the stop.                  *)
LEMMA TakingKeepsStop ==
  ASSUME Typed, Built, StopIsLast, ServiceTakes
  PROVE  StopIsLast'
<1>1. /\ queue \in Seq(Action) /\ queue # <<>> /\ queue' = Tail(queue) /\ task = "WAITS"
      /\ main' = main /\ refused' = refused /\ late' = late
      /\ IF Head(queue).type = "STOP" THEN task' = "STOPPED" /\ taken' = taken
         ELSE task' = "TAKEN" /\ taken' = <<Head(queue)>>
  BY DEF ServiceTakes, Typed, history
<1>2. /\ Head(queue) = queue[1] /\ 1 \in DOMAIN queue
      /\ DOMAIN queue \subseteq Nat /\ DOMAIN queue' \subseteq Nat
      /\ \A k \in DOMAIN queue' : k >= 1 /\ k + 1 \in DOMAIN queue /\ queue'[k] = queue[k + 1]
      /\ \A k \in DOMAIN queue : k = 1 \/ (k - 1 \in DOMAIN queue' /\ queue'[k - 1] = queue[k])
  BY <1>1, TailElements
<1>3. main \in Running
  BY <1>1 DEF Built
<1>4. \A act : Follows(act)' <=> Follows(act)
  BY <1>1 DEF Follows
<1>5. ASSUME NEW k \in DOMAIN queue', queue'[k].type = "STOP"
      PROVE  OnlyFollowersAfter(k)'
  <2>1. OnlyFollowersAfter(k + 1)
    BY <1>2, <1>5 DEF StopIsLast
  <2>2. ASSUME NEW j \in DOMAIN queue', j > k PROVE Follows(queue'[j])
    BY <1>2, <2>1, <2>2 DEF OnlyFollowersAfter
  <2> QED BY <1>4, <2>2 DEF OnlyFollowersAfter
<1>6. ASSUME Head(queue).type = "STOP" PROVE OnlyFollowersAfter(0)'
  <2>1. OnlyFollowersAfter(1)
    BY <1>2, <1>6 DEF StopIsLast
  <2>2. ASSUME NEW j \in DOMAIN queue' PROVE Follows(queue'[j])
    BY <1>2, <2>1, <2>2 DEF OnlyFollowersAfter
  <2> QED BY <1>4, <2>2 DEF OnlyFollowersAfter
<1>7. ASSUME main = "JOIN", task' # "STOPPED"
      PROVE  \E k \in DOMAIN queue' : queue'[k].type = "STOP"
  <2>1. PICK k \in DOMAIN queue : queue[k].type = "STOP"
    BY <1>1, <1>7 DEF StopIsLast
  <2>2. k # 1
    BY <1>1, <1>2, <1>7, <2>1
  <2> QED BY <1>2, <2>1, <2>2
<1>8. ASSUME main # "JOIN" PROVE \A k \in DOMAIN queue' : queue'[k].type # "STOP"
  BY <1>2, <1>8 DEF StopIsLast
<1>9. ASSUME task' = "STOPPED" PROVE Head(queue).type = "STOP"
  BY <1>1, <1>9
<1>10. \A k \in DOMAIN taken' : taken'[k].type # "STOP"
  BY <1>1 DEF StopIsLast
<1>11. main' \in Running /\ main' = main
  BY <1>1, <1>3
<1> QED BY <1>5, <1>6, <1>7, <1>8, <1>9, <1>10, <1>11 DEF StopIsLast, Running

(* The search that is asked for is the one that is added.                   *)
LEMMA AddPushed ==
  ASSUME Typed, NEW s \in Search, s \notin Added,
         queue' = Append(queue, Act("ADD", s)), taken' = taken
  PROVE  queue' \in Seq(Action) /\ Added' = Added \cup {s} /\ (AddedOnce => AddedOnce')
<1> DEFINE acts == <<Act("ADD", s)>>
           n == Len(Pipe) + 1
<1>1. Act("ADD", s) \in Action
  BY DEF Act, Action
<1>2. acts \in Seq(Action) /\ Len(acts) = 1 /\ acts[1] = Act("ADD", s)
  BY <1>1
<1>3. queue' = queue \o acts
  BY <1>1, AppendIsConcat DEF Typed
<1> HIDE DEF acts
<1>4. /\ queue' \in Seq(Action) /\ Len(Pipe) \in Nat
      /\ DOMAIN Pipe = 1..Len(Pipe) /\ DOMAIN Pipe' = 1..Len(Pipe) + 1
      /\ \A k \in 1..Len(Pipe) : Pipe'[k] = Pipe[k]
      /\ Pipe'[Len(Pipe) + 1] = Act("ADD", s)
  BY <1>2, <1>3, PipeGrows
<1>5. \A k \in DOMAIN Pipe' : k = n \/ (k \in DOMAIN Pipe /\ Pipe'[k] = Pipe[k])
  BY <1>4
<1>6. n \in DOMAIN Pipe' /\ Pipe'[n].type = "ADD" /\ Pipe'[n].of = s /\ n \notin DOMAIN Pipe
  BY <1>4 DEF Act
<1>7. \A k \in DOMAIN Pipe : k \in DOMAIN Pipe' /\ Pipe'[k] = Pipe[k]
  BY <1>4
<1> HIDE DEF n
<1>8. AddsAt' = AddsAt \cup {n} /\ n \notin AddsAt /\ \A k \in AddsAt : Pipe'[k] = Pipe[k]
  BY <1>5, <1>6, <1>7 DEF AddsAt
<1>9. \A k \in AddsAt : Pipe[k].of # s
  BY DEF Added
<1> QED BY <1>4, <1>6, <1>8, <1>9 DEF Added, AddedOnce

-----------------------------------------------------------------------------
(* The list of packets                                                      *)

(* A packet that is scheduled is in it once.                                *)
LEMMA PacketScheduled ==
  ASSUME NEW list \in Seq(Scheduled), Distinct(list), NEW p \in Packet \ Packets(list),
         mdns_priv_send_after(list, p)
  PROVE  /\ tx' \in Seq(Scheduled) /\ tx' # <<>> /\ Distinct(tx')
         /\ Packets(tx') = Packets(list) \cup {p}
<1> DEFINE e == [packet |-> p, queued |-> FALSE]
<1>1. PICK k \in 1..Len(list) + 1 : tx' = InsertAt(list, k, e)
  BY DEF mdns_priv_send_after
<1>2. e \in Scheduled /\ e.packet = p
  BY DEF Scheduled
<1> HIDE DEF e
<1>3. /\ tx' \in Seq(Scheduled) /\ Len(tx') = Len(list) + 1
      /\ \A j \in 1..Len(list) + 1 : tx'[j] = IF j < k THEN list[j] ELSE IF j = k THEN e ELSE list[j - 1]
  <2> DEFINE new == InsertAt(list, k, e)
  <2>1. /\ new \in Seq(Scheduled) /\ Len(new) = Len(list) + 1
        /\ \A j \in 1..Len(list) + 1 : new[j] = IF j < k THEN list[j] ELSE IF j = k THEN e ELSE list[j - 1]
    BY <1>2, InsertAtElements
  <2>2. tx' = new
    BY <1>1
  <2> HIDE DEF new
  <2> QED BY <2>1, <2>2
<1>4. /\ Len(list) \in Nat /\ DOMAIN list = 1..Len(list) /\ DOMAIN tx' = 1..Len(list) + 1
      /\ DOMAIN tx' \subseteq Nat /\ DOMAIN list \subseteq Nat /\ k \in DOMAIN tx' /\ k \in Nat
  BY <1>3
<1>5. tx'[k] = e
  BY <1>3, <1>4
<1>6. \A j \in DOMAIN tx' : j < k => j \in DOMAIN list /\ tx'[j] = list[j]
  BY <1>3, <1>4
<1>7. \A j \in DOMAIN tx' : j > k => j - 1 \in DOMAIN list /\ tx'[j] = list[j - 1]
  BY <1>3, <1>4
<1>8. \A j \in DOMAIN list : \/ j < k /\ j \in DOMAIN tx' /\ tx'[j] = list[j]
                             \/ j + 1 > k /\ j + 1 \in DOMAIN tx' /\ tx'[j + 1] = list[j]
  <2> SUFFICES ASSUME NEW j \in DOMAIN list, ~(j < k)
               PROVE  j + 1 > k /\ j + 1 \in DOMAIN tx' /\ tx'[j + 1] = list[j]
    BY <1>4, <1>6
  <2>1. j + 1 > k /\ j + 1 \in DOMAIN tx' /\ (j + 1) - 1 = j
    BY <1>4
  <2> QED BY <1>7, <2>1
<1>9. \A j \in DOMAIN list : list[j].packet # p
  BY DEF Packets
<1>10. ASSUME NEW i \in DOMAIN tx', NEW j \in DOMAIN tx', tx'[i].packet = tx'[j].packet
       PROVE  i = j
  <2>1. CASE i = k \/ j = k
    BY <1>2, <1>4, <1>5, <1>6, <1>7, <1>9, <1>10, <2>1
  <2>2. CASE i < k /\ j < k
    BY <1>6, <1>10, <2>2 DEF Distinct
  <2>3. CASE i > k /\ j > k
    <3>1. i - 1 = j - 1
      BY <1>7, <1>10, <2>3 DEF Distinct
    <3> QED BY <1>4, <3>1
  <2>4. CASE i < k /\ j > k
    <3>1. i = j - 1
      BY <1>6, <1>7, <1>10, <2>4 DEF Distinct
    <3> QED BY <1>4, <2>4, <3>1
  <2>5. CASE i > k /\ j < k
    <3>1. j = i - 1
      BY <1>6, <1>7, <1>10, <2>5 DEF Distinct
    <3> QED BY <1>4, <2>5, <3>1
  <2> QED BY <1>4, <2>1, <2>2, <2>3, <2>4, <2>5
<1>11. Packets(tx') \subseteq Packets(list) \cup {p}
  <2> SUFFICES ASSUME NEW j \in DOMAIN tx' PROVE tx'[j].packet \in Packets(list) \cup {p}
    BY DEF Packets
  <2> QED BY <1>2, <1>4, <1>5, <1>6, <1>7 DEF Packets
<1>12. Packets(list) \cup {p} \subseteq Packets(tx')
  BY <1>2, <1>4, <1>5, <1>8 DEF Packets
<1> QED BY <1>3, <1>4, <1>10, <1>11, <1>12 DEF Distinct

(* The packet at the head is sent.                                          *)
LEMMA PacketLeaves ==
  ASSUME NEW list \in Seq(Scheduled), Distinct(list), list # <<>>
  PROVE  /\ Tail(list) \in Seq(Scheduled) /\ Distinct(Tail(list)) /\ Head(list).packet \in Packet
         /\ Packets(Tail(list)) = Packets(list) \ {Head(list).packet} /\ Head(list).packet \in Packets(list)
<1>1. /\ Tail(list) \in Seq(Scheduled) /\ Head(list) = list[1] /\ 1 \in DOMAIN list /\ Head(list) \in Scheduled
      /\ DOMAIN list \subseteq Nat /\ DOMAIN Tail(list) \subseteq Nat
      /\ \A k \in DOMAIN Tail(list) : k >= 1 /\ k + 1 \in DOMAIN list /\ Tail(list)[k] = list[k + 1]
      /\ \A k \in DOMAIN list : k = 1 \/ (k - 1 \in DOMAIN Tail(list) /\ Tail(list)[k - 1] = list[k])
  BY TailElements
<1> DEFINE t == Tail(list)
<1> HIDE DEF t
<1>2. ASSUME NEW i \in DOMAIN t, NEW j \in DOMAIN t, t[i].packet = t[j].packet PROVE i = j
  <2>1. i + 1 = j + 1
    BY <1>1, <1>2 DEF Distinct, t
  <2> QED BY <1>1, <2>1 DEF t
<1>3. ASSUME NEW i \in DOMAIN t PROVE t[i].packet \in Packets(list) /\ t[i].packet # Head(list).packet
  <2>1. i + 1 \in DOMAIN list /\ t[i] = list[i + 1] /\ i + 1 # 1
    BY <1>1 DEF t
  <2> QED BY <1>1, <2>1 DEF Distinct, Packets
<1>4. ASSUME NEW i \in DOMAIN list PROVE i = 1 \/ list[i].packet \in Packets(t)
  BY <1>1 DEF Packets, t
<1>5. Packets(t) = Packets(list) \ {Head(list).packet}
  BY <1>1, <1>3, <1>4 DEF Packets
<1>6. Head(list).packet \in Packet /\ Head(list).packet \in Packets(list)
  BY <1>1 DEF Scheduled, Packets
<1> QED BY <1>1, <1>2, <1>5, <1>6 DEF Distinct, t

LEMMA PacketTypes ==
  ASSUME NEW list \in Seq(Scheduled)
  PROVE  Packets(list) \subseteq Packet
<1>1. \A k \in DOMAIN list : list[k] \in Scheduled
  OBVIOUS
<1> QED BY <1>1 DEF Packets, Scheduled

-----------------------------------------------------------------------------
(* Steps that leave queue and heap alone                                    *)

LEMMA HeapFrame ==
  ASSUME HeapIsKept, main \in Running \cup Ending => main' \in Running \cup Ending,
         main \in Emptying => main' \in Emptying /\ late' = late,
         UNCHANGED <<queue, taken, caller, asking, chain, tx, live, freed, refused, leaked>>
  PROVE  HeapIsKept'
<1>1. Pipe' = Pipe /\ InUse' = InUse /\ Lost' = Lost /\ Asked' = Asked
  BY DEF Pipe, InUse, Lost, Asked
<1>2. Added' = Added /\ (AddedOnce => AddedOnce')
  BY <1>1 DEF Added, AddsAt, AddedOnce
<1>3. Owned' = Owned /\ (Apart => Apart')
  BY <1>1, <1>2 DEF Owned, Apart
<1> QED BY <1>1, <1>2, <1>3 DEF HeapIsKept

LEMMA TypedFrame ==
  ASSUME Typed, UNCHANGED <<queue, taken, chain, tx, caller, asking, leaked>>,
         main' \in {"DOWN"} \cup Starting \cup Running \cup Ending,
         callback' \in {"NO", "SENDS", "WALKS"}, handler' \in {"OFF", "ON", "POSTS"},
         late' \in BOOLEAN, refused' \in BOOLEAN
  PROVE  Typed'
BY DEF Typed

(* The points at which no stop is in the queue                              *)
LEMMA StopFrame ==
  ASSUME StopIsLast, main \notin {"JOIN"} \cup Ending, main' \notin {"JOIN"} \cup Ending,
         UNCHANGED <<queue, taken>>
  PROVE  StopIsLast'
<1>1. \A k \in DOMAIN queue : queue[k].type # "STOP"
  BY DEF StopIsLast
<1> QED BY <1>1 DEF StopIsLast, Ending, Emptying

(* Those of mdns_init, and of mdns_free up to the stop                      *)
InitStep ==
    \/ mdns_priv_responder_init \/ mdns_priv_netif_init \/ esp_event_handler_register \/ mdns_priv_pcb_enable
    \/ service_task_start \/ create_task_with_caps \/ StartFails \/ mdns_priv_netif_deinit
    \/ mdns_priv_netif_unregister_predefined_handlers \/ stop_timer

LEMMA InitSteps ==
  ASSUME Sound, fault = None, InitStep
  PROVE  IInv'
<1> USE DEF InitStep, mdns_priv_responder_init, mdns_priv_netif_init, esp_event_handler_register, mdns_priv_pcb_enable,
            service_task_start, create_task_with_caps, StartFails, mdns_priv_netif_deinit,
            mdns_priv_netif_unregister_predefined_handlers, stop_timer, At, heap, history, network
<1>1. /\ main' \in Starting \cup {"UP", "TIMER", "STOP"} /\ main \in {"DOWN", "UP", "TIMER"} \cup Starting
      /\ (main \in Running => main' \in Running)
      /\ UNCHANGED <<queue, taken, caller, asking, chain, tx, live, freed, refused, leaked, strayed, callback, made, fault>>
  BY DEF Starting, Running
<1>2. late' \in BOOLEAN /\ handler' \in {"OFF", "ON", "POSTS"} /\ refused' \in BOOLEAN
  BY DEF Sound, Typed
<1>3. Built'
  BY DEF Sound, Built, Running, Queueless, Unheard
<1>4. Causes'
  BY DEF Sound, Built, Causes, LossHasCause, Running, Queueless, Unheard
<1> HIDE DEF InitStep, mdns_priv_responder_init, mdns_priv_netif_init, esp_event_handler_register, mdns_priv_pcb_enable,
             service_task_start, create_task_with_caps, StartFails, mdns_priv_netif_deinit,
             mdns_priv_netif_unregister_predefined_handlers, stop_timer, At, heap, history, network
<1>5. Typed'
  BY <1>1, <1>2, TypedFrame DEF Sound, Typed, Running
<1>6. StopIsLast'
  BY <1>1, StopFrame DEF Sound, Starting, Ending, Emptying
<1>7. HeapIsKept'
  BY <1>1, HeapFrame DEF Sound, Starting, Running, Ending, Emptying
<1> QED BY <1>1, <1>3, <1>4, <1>5, <1>6, <1>7, NoFault DEF IInv, Sound

(* Nothing is in the pipe.                                                  *)
LEMMA NothingAdded ==
  ASSUME queue = <<>>, taken = <<>>
  PROVE  Pipe = <<>> /\ Added = {} /\ AddedOnce
<1>1. Pipe = <<>>
  BY DEF Pipe
<1> QED BY <1>1 DEF Added, AddsAt, AddedOnce

(* What ends with the queue is lost.                                        *)
LEMMA QueueLost ==
  ASSUME Sound, taken = <<>>, queue' = <<>>, leaked' = leaked \cup ToSet(queue),
         UNCHANGED <<taken, caller, asking, chain, tx, live, freed, late, refused>>,
         main \in Emptying => main' \in Emptying,
         main \in Running \cup Ending => main' \in Running \cup Ending
  PROVE  HeapIsKept' /\ leaked' \subseteq Action
<1>1. queue \in Seq(Action) /\ Pipe = queue
  BY ConcatEmptySeq DEF Pipe, Sound, Typed
<1>2. ToSet(queue) = {queue[k] : k \in DOMAIN queue} /\ ToSet(queue) \subseteq Action
  BY <1>1 DEF ToSet
<1>3. Lost' = Lost \cup Added
  <2>1. Added = {queue[k].of : k \in {j \in DOMAIN queue : queue[j].type = "ADD"}}
    BY <1>1 DEF Added, AddsAt
  <2>2. Lost' = {act.of : act \in {a \in leaked \cup ToSet(queue) : a.type = "ADD"}}
    BY DEF Lost
  <2>3. ASSUME NEW x \in Lost' PROVE x \in Lost \cup Added
    <3>1. PICK act \in leaked \cup ToSet(queue) : act.type = "ADD" /\ act.of = x
      BY <2>2, <2>3
    <3>2. CASE act \in leaked
      BY <3>1, <3>2 DEF Lost
    <3>3. CASE act \in ToSet(queue)
      BY <1>2, <2>1, <3>1, <3>3
    <3> QED BY <3>1, <3>2, <3>3
  <2>4. Lost \subseteq Lost'
    BY <2>2 DEF Lost
  <2>5. Added \subseteq Lost'
    BY <1>2, <2>1, <2>2
  <2> QED BY <2>3, <2>4, <2>5
<1>4. Added' = {} /\ AddedOnce' /\ InUse' = InUse /\ Asked' = Asked
  <2>1. Pipe' = <<>>
    BY DEF Pipe
  <2> QED BY <2>1 DEF Added, AddsAt, AddedOnce, InUse, Asked
<1>5. Owned' = Owned
  BY <1>3, <1>4 DEF Owned
<1>6. Apart'
  BY <1>3, <1>4 DEF Sound, HeapIsKept, Apart
<1>7. HeapIsKept'
  BY <1>3, <1>4, <1>5, <1>6 DEF Sound, HeapIsKept
<1> QED BY <1>2, <1>7 DEF Sound, Typed

LEMMA QueueSteps ==
  ASSUME Sound, fault = None, CreatesQueue \/ InitFails \/ vQueueDelete
  PROVE  IInv'
<1>1. /\ main \in Starting \cup {"DELETE"} /\ main' \in {"DOWN", "LISTS"} \cup Starting
      /\ (main = "DELETE" <=> main' = "LISTS")
      /\ UNCHANGED <<taken, caller, asking, chain, tx, live, freed, refused, callback, late, failed, strayed, handler, fault>>
      /\ (queue' = <<>> /\ leaked' = leaked \cup ToSet(queue)) \/ (UNCHANGED <<queue, leaked>> /\ ~made)
         \/ (~made /\ queue' = <<>> /\ leaked' = leaked)
  BY DEF CreatesQueue, InitFails, vQueueDelete, At, Starting, heap, history, network, Sound, Built, Queueless
<1>2. taken = <<>> /\ (~made => queue = <<>>)
  BY <1>1 DEF Sound, Built, Typed, Starting, Running
<1>3. queue' = <<>> /\ leaked' = leaked \cup ToSet(queue)
  BY <1>1, <1>2 DEF ToSet
<1>4. HeapIsKept' /\ leaked' \subseteq Action
  BY <1>1, <1>2, <1>3, QueueLost DEF Starting, Running, Ending, Emptying
<1>5. Typed'
  BY <1>1, <1>3, <1>4 DEF Sound, Typed, Ending, Emptying
<1>6. StopIsLast'
  BY <1>1, <1>2, <1>3 DEF StopIsLast, Starting
<1>7. Built'
  BY <1>1, <1>2, <1>3 DEF CreatesQueue, InitFails, vQueueDelete, At, heap, history, network, Sound, Built, Running,
     Queueless, Unheard
<1>8. leaked' # {} => LossHasCause \/ refused
  <2>1. queue = <<>> => ToSet(queue) = {}
    BY DEF ToSet
  <2>2. CASE leaked' = leaked
    BY <2>2 DEF Sound, Causes
  <2>3. CASE main \in {"UNQUEUE", "DELETE"}
    BY <1>3, <2>1, <2>3 DEF Sound, Causes
  <2> QED BY <2>2, <2>3 DEF CreatesQueue, InitFails, vQueueDelete, At, history
<1>9. Causes'
  <2>1. LossHasCause' = LossHasCause
    BY <1>1 DEF LossHasCause
  <2>2. main \notin {"REGISTER", "ENABLE", "UNREGISTER", "TASK", "CREATE", "UNLOCK", "UNMAKE", "DISABLE", "UP"}
        /\ main' \notin {"UNQUEUE", "DELETE"} /\ (timer => timer')
    BY DEF CreatesQueue, InitFails, vQueueDelete, At
  <2>3. handler' # "OFF" => "TASK" \in failed'
    BY <1>1, <2>2 DEF Sound, Causes
  <2> QED BY <1>1, <1>3, <1>8, <2>1, <2>2, <2>3 DEF Sound, Causes
<1> QED BY <1>1, <1>4, <1>5, <1>6, <1>7, <1>9, NoFault DEF IInv, Sound

LEMMA EndSteps ==
  ASSUME Sound, fault = None, TaskDeleted \/ LockDeleted \/ mdns_priv_pcb_deinit \/ QueueDrained
  PROVE  IInv'
<1>1. /\ main \in {"JOIN", "UNLOCKED", "SOCKETS", "DRAIN"}
      /\ main' \in {"UNLOCKED", "SOCKETS", "DRAIN", "DELETE"} /\ (main = "DRAIN" <=> main' = "DELETE")
      /\ (main = "DRAIN" => queue = <<>>) /\ (main = "JOIN" => task = "STOPPED")
      /\ UNCHANGED <<queue, taken, caller, asking, chain, tx, live, freed, refused, leaked, failed, strayed, callback, made>>
      /\ UNCHANGED <<handler, late, timer, fault>>
  BY DEF TaskDeleted, LockDeleted, mdns_priv_pcb_deinit, QueueDrained, At, heap, history, network
<1>2. Typed'
  BY <1>1, TypedFrame DEF Sound, Typed, Running, Ending, Emptying
<1>3. StopIsLast'
  <2>1. (main # "JOIN" /\ refused) \/ OnlyFollowersAfter(0)
    BY <1>1 DEF Sound, StopIsLast
  <2>2. \A k : OnlyFollowersAfter(k)' <=> OnlyFollowersAfter(k)
    BY <1>1 DEF OnlyFollowersAfter, Follows
  <2>3. DOMAIN queue \subseteq Nat /\ \A k \in DOMAIN queue : k > 0
    <3>1. queue \in Seq(Action)
      BY DEF Sound, Typed
    <3> QED BY <3>1
  <2>4. \A k \in DOMAIN queue : queue[k].type # "STOP"
    BY <1>1, <2>1, <2>3 DEF Sound, StopIsLast, OnlyFollowersAfter, Follows
  <2> QED BY <1>1, <2>1, <2>2, <2>4 DEF Sound, StopIsLast
<1>4. HeapIsKept'
  BY <1>1, HeapFrame DEF Sound, Running, Ending, Emptying
<1>5. Built'
  BY <1>1 DEF TaskDeleted, LockDeleted, mdns_priv_pcb_deinit, QueueDrained, At, heap, history, network, Sound, Built,
     Running, Queueless, Unheard
<1>6. Causes'
  BY <1>1 DEF Sound, Causes, LossHasCause
<1> QED BY <1>1, <1>2, <1>3, <1>4, <1>5, <1>6, NoFault DEF IInv, Sound

(* A handler or a callback begins.                                          *)
LEMMA BeginSteps ==
  ASSUME Sound, fault = None, handle_system_event \/ TimerFires
  PROVE  IInv'
<1>1. /\ UNCHANGED <<main, server, open, made, queue, lock, timer, task, taken, caller, asking, heap, inits, history, fault>>
      /\ (handler' = handler \/ (handler = "ON" /\ handler' = "POSTS"))
      /\ (callback' = callback \/ (timer /\ callback' = "SENDS"))
  BY DEF handle_system_event, TimerFires, network
<1>2. UNCHANGED <<chain, tx, live, freed, late, refused, failed, strayed, leaked>>
  BY <1>1 DEF heap, history
<1>3. Typed'
  BY <1>1, <1>2, TypedFrame DEF Sound, Typed
<1>4. StopIsLast' /\ Built' /\ Causes'
  BY <1>1, <1>2 DEF Sound, StopIsLast, OnlyFollowersAfter, Follows, Built, Causes, LossHasCause
<1>5. HeapIsKept'
  BY <1>1, <1>2, HeapFrame DEF Sound
<1> QED BY <1>1, <1>3, <1>4, <1>5, NoFault DEF IInv, Sound

-----------------------------------------------------------------------------
(* Steps that push                                                          *)

(* What may be pushed at any moment: nothing that begins a search or stops  *)
(* the task, and once the stop is queued only what may follow it.           *)
LEMMA Pushes ==
  ASSUME Sound, NEW acts \in Seq(Action), queue' = queue \o acts, made,
         \A k \in DOMAIN acts : acts[k].type \notin {"STOP", "ADD"},
         main \in {"JOIN", "UNLOCKED", "SOCKETS", "DRAIN"} => \A k \in DOMAIN acts : Follows(acts[k]),
         main \notin {"NETIF", "UNREGISTER", "UNQUEUE", "DELETE"} \/ failed # {},
         UNCHANGED <<main, made, lock, timer, open, task, taken, caller, asking, chain, live, freed>>,
         UNCHANGED <<late, refused, failed, strayed, leaked>>,
         tx' \in Seq(Scheduled), Distinct(tx) => Distinct(tx'), Packets(tx') = Packets(tx), tx' # <<>> => tx # <<>>,
         callback' \in {"NO", "SENDS", "WALKS"}, callback' # "NO" => callback # "NO",
         handler' \in {"OFF", "ON", "POSTS"}, handler' # "OFF" => handler # "OFF"
  PROVE  Sound'
<1>1. queue' \in Seq(Action)
  BY PipeGrows DEF Sound
<1>2. Typed'
  BY <1>1 DEF Sound, Typed
<1>3. StopIsLast'
  BY PushKeepsStop DEF Sound
<1>4. Added' = Added /\ (AddedOnce => AddedOnce')
  BY AddsStay DEF Sound
<1>5. HeapIsKept'
  <2>1. InUse' = InUse /\ Lost' = Lost /\ Asked' = Asked
    BY DEF InUse, Lost, Asked
  <2>2. Owned' = Owned /\ (Apart => Apart')
    BY <1>4, <2>1 DEF Owned, Apart
  <2> QED BY <1>4, <2>1, <2>2 DEF Sound, HeapIsKept
<1>6. Built'
  BY DEF Sound, Built
<1>7. Causes'
  BY DEF Sound, Causes, LossHasCause
<1> QED BY <1>2, <1>3, <1>5, <1>6, <1>7 DEF Sound

(* A single one                                                             *)
LEMMA SinglePush ==
  ASSUME Sound, NEW act \in Action, mdns_priv_queue_action(act)
  PROVE  made /\ <<act>> \in Seq(Action) /\ DOMAIN <<act>> = {1} /\ <<act>>[1] = act /\ queue' = queue \o <<act>>
<1>1. queue' = queue \o <<act>> /\ made
  BY AppendIsConcat DEF mdns_priv_queue_action, Sound, Typed
<1>2. <<act>> \in Seq(Action) /\ DOMAIN <<act>> = 1..1 /\ <<act>>[1] = act
  OBVIOUS
<1> QED BY <1>1, <1>2

LEMMA EventSteps ==
  ASSUME Sound, fault = None, post_custom_action \/ receive
  PROVE  IInv'
<1>1. /\ UNCHANGED <<main, made, lock, timer, open, task, taken, caller, asking, chain, tx, live, freed, callback>>
      /\ UNCHANGED <<late, refused, failed, strayed, leaked>>
      /\ handler' \in {"OFF", "ON", "POSTS"} /\ (handler' # "OFF" => handler # "OFF")
  BY DEF post_custom_action, receive, heap, history, Sound, Typed
<1>2. /\ tx' \in Seq(Scheduled) /\ (Distinct(tx) => Distinct(tx')) /\ Packets(tx') = Packets(tx) /\ (tx' # <<>> => tx # <<>>)
      /\ callback' \in {"NO", "SENDS", "WALKS"} /\ (callback' # "NO" => callback # "NO")
  BY <1>1 DEF Sound, Typed
<1>3. ASSUME NEW act \in {Act("EVENT", None), Act("RX", None)}, mdns_priv_queue_action(act),
             main \notin {"NETIF", "UNREGISTER", "UNQUEUE", "DELETE"} \/ failed # {}, fault' = None
      PROVE  IInv'
  <2>1. act \in Action /\ act.type \in {"EVENT", "RX"} /\ Follows(act)
    BY DEF Act, Action, Follows
  <2>2. made /\ <<act>> \in Seq(Action) /\ DOMAIN <<act>> = {1} /\ <<act>>[1] = act /\ queue' = queue \o <<act>>
    BY <1>3, <2>1, SinglePush
  <2>3. \A k \in DOMAIN <<act>> : <<act>>[k].type \notin {"STOP", "ADD"} /\ Follows(<<act>>[k])
    BY <2>1, <2>2
  <2>4. Sound'
    BY <1>1, <1>2, <1>3, <2>2, <2>3, Pushes
  <2> QED BY <1>3, <2>4, NoFault DEF IInv
<1>4. CASE receive
  <2>1. mdns_priv_queue_action(Act("RX", None)) /\ fault' = None
    BY <1>4 DEF receive
  <2>2. main \notin {"NETIF", "UNREGISTER", "UNQUEUE", "DELETE"}
    BY <1>4 DEF receive, Sound, Built, Unheard
  <2> QED BY <1>3, <2>1, <2>2
<1>5. CASE post_custom_action
  <2>1. \/ "TASK" \in failed \/ (main = "UNREGISTER" /\ failed # {})
        \/ main \in {"REGISTER", "ENABLE", "TASK", "CREATE", "UNLOCK", "UNMAKE", "DISABLE", "UP"}
    BY <1>5 DEF post_custom_action, Sound, Causes
  <2>2. main \notin {"NETIF", "UNREGISTER", "UNQUEUE", "DELETE"} \/ failed # {}
    BY <2>1
  <2>3. CASE ~made /\ fault' = "queue"
    <3>1. "TASK" \in failed'
      BY <1>1, <2>1, <2>3 DEF Sound, Built, Queueless
    <3> QED BY <2>3, <3>1, FaultAssumption DEF IInv, FaultsHaveCauses
  <2>4. CASE mdns_priv_queue_action(Act("EVENT", None)) /\ fault' = fault
    BY <1>3, <2>2, <2>4
  <2>5. CASE made /\ queue' = queue /\ fault' = fault
    <3>1. <<>> \in Seq(Action) /\ queue' = queue \o <<>> /\ DOMAIN <<>> = {}
      BY <2>5, ConcatEmptySeq DEF Sound, Typed
    <3>2. Sound'
      BY <1>1, <1>2, <2>2, <2>5, <3>1, Pushes
    <3> QED BY <2>5, <3>2, NoFault DEF IInv
  <2> QED BY <1>5, <2>3, <2>4, <2>5 DEF post_custom_action
<1> QED BY <1>4, <1>5

(* A search is allocated, ...                                               *)
LEMMA QuerySteps ==
  ASSUME Sound, fault = None, QueryNew
  PROVE  IInv'
<1>1. PICK s \in Search \ (live \cup freed) : asking' = s /\ live' = live \cup {s}
  BY DEF QueryNew
<1>2. /\ UNCHANGED <<main, handler, open, made, queue, lock, timer, callback, task, taken, caller, chain, tx, freed>>
      /\ UNCHANGED <<late, refused, failed, strayed, leaked, fault>> /\ asking = None
  BY DEF QueryNew, history, network
<1>3. Added' = Added /\ (AddedOnce => AddedOnce') /\ InUse' = InUse /\ Lost' = Lost
  BY <1>2 DEF Added, AddsAt, AddedOnce, Pipe, InUse, Lost
<1>4. Asked = {} /\ Asked' = {s}
  BY <1>1, <1>2, AddressAssumption DEF Asked
<1>5. s \notin Owned /\ s \notin InUse
  BY DEF Sound, HeapIsKept
<1>6. Owned' = Owned \cup {s}
  BY <1>3, <1>4 DEF Owned
<1>7. Apart'
  BY <1>2, <1>3, <1>4, <1>5 DEF Apart, Owned, InUse, Sound, HeapIsKept
<1>8. HeapIsKept'
  BY <1>1, <1>2, <1>3, <1>5, <1>6, <1>7 DEF Sound, HeapIsKept
<1>9. Typed' /\ Built' /\ Causes'
  BY <1>1, <1>2 DEF Sound, Typed, Built, Causes, LossHasCause
<1>10. StopIsLast'
  BY <1>2 DEF Sound, StopIsLast, OnlyFollowersAfter, Follows
<1> QED BY <1>2, <1>8, <1>9, <1>10, NoFault DEF IInv, Sound

(* ... and sent, to a queue or to none, or it is freed.                     *)
LEMMA SendSteps ==
  ASSUME Sound, fault = None, send_search_action
  PROVE  IInv'
<1> DEFINE s == asking
<1>1. /\ UNCHANGED <<main, handler, open, made, lock, timer, callback, task, taken, chain, tx, late, refused, failed, leaked>>
      /\ s # None /\ asking' = None /\ strayed' = strayed \cup ({main} \cap (Queueless \cup Unheard))
      /\ \/ ~made /\ fault' = "queue"
         \/ /\ mdns_priv_queue_action(Act("ADD", s)) /\ UNCHANGED <<live, freed, fault>> /\ caller' \in {caller, s}
         \/ /\ made /\ live' = live \ {s} /\ freed' = freed \cup {s} /\ UNCHANGED <<queue, caller, fault>>
  BY DEF send_search_action, history, network
<1>2. s \in Search /\ Asked = {s} /\ Asked' = {} /\ s \in live /\ s \notin Added /\ s \notin ToSet(chain) /\ s \notin Lost
  BY <1>1 DEF Asked, Sound, Typed, HeapIsKept, Owned, Apart
<1> HIDE DEF s
<1>3. InUse' = InUse /\ Lost' = Lost
  BY <1>1 DEF InUse, Lost
<1>4. (LossHasCause => LossHasCause') /\ (main \in Unheard => LossHasCause')
  BY <1>1 DEF LossHasCause
<1>5. CASE ~made /\ fault' = "queue"
  <2>1. main \in strayed' \cap Queueless
    BY <1>1, <1>5 DEF Sound, Built
  <2> QED BY <1>5, <2>1, FaultAssumption DEF IInv, FaultsHaveCauses
<1>6. CASE mdns_priv_queue_action(Act("ADD", s)) /\ UNCHANGED <<live, freed, fault>> /\ caller' \in {caller, s}
  <2>1. Act("ADD", s) \in Action /\ Act("ADD", s).type = "ADD"
    BY <1>2 DEF Act, Action
  <2>2. /\ <<Act("ADD", s)>> \in Seq(Action) /\ DOMAIN <<Act("ADD", s)>> = {1} /\ made
        /\ <<Act("ADD", s)>>[1] = Act("ADD", s) /\ queue' = queue \o <<Act("ADD", s)>>
    BY <1>6, <2>1, SinglePush
  <2>3. queue' = Append(queue, Act("ADD", s))
    BY <1>6 DEF mdns_priv_queue_action
  <2>4. queue' \in Seq(Action) /\ Added' = Added \cup {s} /\ (AddedOnce => AddedOnce')
    BY <1>1, <1>2, <2>3, AddPushed DEF Sound
  <2>5. StopIsLast'
    <3>1. \A k \in DOMAIN <<Act("ADD", s)>> : <<Act("ADD", s)>>[k].type # "STOP" /\ Follows(<<Act("ADD", s)>>[k])
      BY <2>1, <2>2 DEF Follows
    <3> HIDE DEF Act
    <3> QED BY <1>1, <2>2, <3>1, PushKeepsStop DEF Sound
  <2>6. Owned' = Owned
    BY <1>2, <1>3, <2>4 DEF Owned
  <2>7. Apart'
    BY <1>1, <1>2, <1>3, <2>4 DEF Apart, Sound, HeapIsKept
  <2>8. HeapIsKept'
    BY <1>1, <1>2, <1>3, <1>6, <2>4, <2>6, <2>7 DEF Sound, HeapIsKept
  <2>9. Typed'
    BY <1>1, <1>2, <1>6, <2>4 DEF Sound, Typed
  <2>10. Built'
    BY <1>1, <2>2 DEF Sound, Built
  <2>11. Causes'
    BY <1>1, <1>4 DEF Sound, Causes, Unheard
  <2> QED BY <1>6, <2>5, <2>8, <2>9, <2>10, <2>11, NoFault DEF IInv, Sound
<1>7. CASE made /\ live' = live \ {s} /\ freed' = freed \cup {s} /\ UNCHANGED <<queue, caller, fault>>
  <2>1. Added' = Added /\ (AddedOnce => AddedOnce')
    BY <1>1, <1>7 DEF Added, AddsAt, AddedOnce, Pipe
  <2>2. Owned' = Owned \ {s} /\ Apart'
    BY <1>1, <1>2, <1>3, <2>1 DEF Owned, Apart, Sound, HeapIsKept
  <2>3. s \notin InUse
    BY <1>2, PacketTypes, AddressAssumption DEF InUse, Sound, Typed
  <2>4. HeapIsKept'
    BY <1>1, <1>3, <1>7, <2>1, <2>2, <2>3 DEF Sound, HeapIsKept
  <2>5. StopIsLast'
    BY <1>1, <1>7 DEF Sound, StopIsLast, OnlyFollowersAfter, Follows
  <2>6. Typed' /\ Built'
    BY <1>1, <1>7 DEF Sound, Typed, Built
  <2>7. Causes'
    BY <1>1, <1>4, <1>7 DEF Sound, Causes
  <2> QED BY <1>7, <2>4, <2>5, <2>6, <2>7, NoFault DEF IInv, Sound
<1> QED BY <1>1, <1>5, <1>6, <1>7

(* A callback that finds no lock was under way when the timer was stopped;  *)
(* with one it may push, and the queue is there.                            *)
LEMMA CallbackRuns ==
  ASSUME Sound, callback # "NO"
  PROVE  /\ lock = "NONE" => late
         /\ lock = "FREE" => made /\ main \notin {"NETIF", "UNREGISTER", "UNQUEUE", "DELETE"}
         /\ main \in {"JOIN", "UNLOCKED", "SOCKETS", "DRAIN"} => late
<1>1. late \/ main \in {"CREATE", "UP", "TIMER"}
  BY DEF Sound, Causes, Built
<1> QED BY <1>1 DEF Sound, Built, Running, Queueless

LEMMA LocklessSteps ==
  ASSUME Sound, NEW at \in {"SENDS", "WALKS"}, Callback(at), NoLock
  PROVE  IInv'
<1>1. late'
  BY CallbackRuns DEF Callback, NoLock, history
<1> QED BY <1>1, FaultAssumption DEF NoLock, IInv, FaultsHaveCauses

LEMMA SendingSteps ==
  ASSUME Sound, fault = None, mdns_priv_send_packets
  PROVE  IInv'
<1> DEFINE k == SelectInSeq(tx, LAMBDA e : ~e.queued)
           rest == IF k = 0 THEN <<>> ELSE SubSeq(tx, k, Len(tx))
           all == [j \in DOMAIN rest |-> Act("TX", rest[j].packet)]
           acts(n) == Pushed(all, n)
           now(n) == [j \in DOMAIN tx |-> [tx[j] EXCEPT !.queued = IF j \in k..k + n - 1 THEN j < k + Len(acts(n)) ELSE @]]
<1>1. CASE NoLock
  BY <1>1, LocklessSteps DEF mdns_priv_send_packets
<1>2. CASE ~NoLock
  <2>1. /\ lock = "FREE" /\ callback = "SENDS" /\ callback' = "WALKS" /\ fault' = fault /\ handler' = handler
        /\ UNCHANGED <<main, made, lock, timer, open, task, taken, caller, asking, chain, live, freed>>
        /\ UNCHANGED <<late, refused, failed, strayed, leaked>>
        /\ \E n \in 0..Len(rest) : queue' = queue \o acts(n) /\ tx' = now(n)
    BY <1>2 DEF mdns_priv_send_packets, Callback, history, network
  <2>2. PICK n \in 0..Len(rest) : queue' = queue \o acts(n) /\ tx' = now(n)
    BY <2>1
  <2>3. k \in 0..Len(tx)
    <3> DEFINE I == {i \in 1..Len(tx) : ~tx[i].queued}
    <3>1. Len(tx) \in Nat /\ I \subseteq 1..Len(tx) /\ I \subseteq Nat
      BY DEF Sound, Typed
    <3>2. k = IF I # {} THEN Min(I) ELSE 0
      BY DEF SelectInSeq
    <3> HIDE DEF I, k
    <3>3. I # {} => Min(I) \in I
      BY <3>1, MinIsLeast
    <3>4. k \in 1..Len(tx) \/ k = 0
      BY <3>1, <3>2, <3>3, Zenon
    <3> QED BY <3>1, <3>4
  <2> HIDE DEF k
  <2>4. rest \in Seq(Scheduled)
    BY <2>3 DEF Sound, Typed
  <2> HIDE DEF rest
  <2>5. all \in Seq(Action) /\ \A j \in DOMAIN all : all[j].type = "TX"
    <3>1. \A j \in 1..Len(rest) : Act("TX", rest[j].packet) \in Action /\ Act("TX", rest[j].packet).type = "TX"
      <4>1. \A j \in 1..Len(rest) : rest[j] \in Scheduled
        BY <2>4
      <4> QED BY <4>1 DEF Act, Action, Scheduled
    <3>2. DOMAIN rest = 1..Len(rest) /\ Len(rest) \in Nat
      BY <2>4
    <3> HIDE DEF Act
    <3> QED BY <3>1, <3>2
  <2> HIDE DEF all
  <2>6. /\ acts(n) \in Seq(Action)
        /\ \A j \in DOMAIN acts(n) : acts(n)[j].type \notin {"STOP", "ADD"} /\ (late => Follows(acts(n)[j]))
    <3> DEFINE m == IF n < MaxQueue - Len(queue) THEN n ELSE MaxQueue - Len(queue)
    <3>1. m \in Int /\ m <= Len(all)
      <4>1. Len(queue) \in Nat /\ MaxQueue \in Nat /\ Len(rest) \in Nat /\ Len(all) = Len(rest)
        BY BoundsAssumption, <2>4 DEF Sound, Typed, all
      <4> QED BY <4>1
    <3> HIDE DEF m
    <3>2. /\ SubSeq(all, 1, m) \in Seq(Action) /\ DOMAIN SubSeq(all, 1, m) \subseteq DOMAIN all
          /\ \A j \in DOMAIN SubSeq(all, 1, m) : SubSeq(all, 1, m)[j] = all[j]
      BY <2>5, <3>1
    <3>3. acts(n) = SubSeq(all, 1, m)
      BY DEF Pushed, m
    <3>4. \A j \in DOMAIN acts(n) : acts(n)[j].type = "TX"
      BY <2>5, <3>2, <3>3
    <3> HIDE DEF acts
    <3> QED BY <3>2, <3>3, <3>4 DEF Follows
  <2> HIDE DEF acts
  <2>7. tx' \in Seq(Scheduled) /\ DOMAIN tx' = DOMAIN tx /\ \A j \in DOMAIN tx : tx'[j].packet = tx[j].packet
    <3>1. tx \in Seq(Scheduled) /\ Len(tx) \in Nat /\ DOMAIN tx = 1..Len(tx)
      BY DEF Sound, Typed
    <3>2. \A j \in DOMAIN tx : tx'[j] = [tx[j] EXCEPT !.queued = IF j \in k..k + n - 1 THEN j < k + Len(acts(n)) ELSE @]
      BY <2>2
    <3>3. ASSUME NEW j \in DOMAIN tx PROVE tx'[j] \in Scheduled /\ tx'[j].packet = tx[j].packet
      <4>1. tx[j] \in Scheduled
        BY <3>1
      <4>2. \A b \in BOOLEAN : [tx[j] EXCEPT !.queued = b] \in Scheduled /\ [tx[j] EXCEPT !.queued = b].packet = tx[j].packet
        BY <4>1 DEF Scheduled
      <4>3. (IF j \in k..k + n - 1 THEN j < k + Len(acts(n)) ELSE tx[j].queued) \in BOOLEAN
        <5>1. (j < k + Len(acts(n))) \in BOOLEAN /\ tx[j].queued \in BOOLEAN
          BY <4>1 DEF Scheduled
        <5>2. CASE j \in k..k + n - 1
          BY <5>1, <5>2, Zenon
        <5>3. CASE j \notin k..k + n - 1
          BY <5>1, <5>3, Zenon
        <5> QED BY <5>2, <5>3
      <4> QED BY <3>2, <4>2, <4>3
    <3>4. DOMAIN tx' = DOMAIN tx /\ tx' = [j \in 1..Len(tx) |-> tx'[j]]
      BY <2>2, <3>1
    <3> QED BY <3>1, <3>3, <3>4
  <2>8. Packets(tx') = Packets(tx) /\ (Distinct(tx) => Distinct(tx')) /\ (tx' # <<>> => tx # <<>>)
    <3>1. Packets(tx') = Packets(tx) /\ (Distinct(tx) => Distinct(tx'))
      BY <2>7 DEF Packets, Distinct
    <3>2. tx = <<>> => tx' = <<>>
      BY <2>2
    <3> QED BY <3>1, <3>2
  <2>9. /\ made /\ main \notin {"NETIF", "UNREGISTER", "UNQUEUE", "DELETE"}
        /\ main \in {"JOIN", "UNLOCKED", "SOCKETS", "DRAIN"} => late
    BY <2>1, CallbackRuns
  <2>10. handler' \in {"OFF", "ON", "POSTS"} /\ (handler' # "OFF" => handler # "OFF") /\ callback' \in {"NO", "SENDS", "WALKS"}
    BY <2>1 DEF Sound, Typed
  <2>11. Sound'
    <3>1. callback' # "NO" => callback # "NO"
      BY <2>1
    <3> QED BY <2>1, <2>2, <2>6, <2>7, <2>8, <2>9, <2>10, <3>1, Pushes
  <2> QED BY <2>1, <2>11, NoFault DEF IInv
<1> QED BY <1>1, <1>2

LEMMA WalkingSteps ==
  ASSUME Sound, fault = None, mdns_priv_query_start_stop
  PROVE  IInv'
<1>1. CASE NoLock
  BY <1>1, LocklessSteps DEF mdns_priv_query_start_stop
<1>2. CASE ~NoLock
  <2>1. /\ lock = "FREE" /\ callback = "WALKS" /\ callback' = "NO" /\ fault' = fault /\ handler' = handler /\ tx' = tx
        /\ UNCHANGED <<main, made, lock, timer, open, task, taken, caller, asking, chain, live, freed>>
        /\ UNCHANGED <<late, refused, failed, strayed, leaked>>
    BY <1>2 DEF mdns_priv_query_start_stop, Callback, history, network
  <2>2. PICK n \in {m \in 0..Len(chain) : Len(queue) + m <= MaxQueue} :
          \E at \in [1..n -> DOMAIN chain], type \in [1..n -> {"SEND", "END"}] :
             queue' = queue \o [j \in 1..n |-> Act(type[j], chain[at[j]])]
    BY <1>2 DEF mdns_priv_query_start_stop
  <2>3. PICK at \in [1..n -> DOMAIN chain], type \in [1..n -> {"SEND", "END"}] :
             queue' = queue \o [j \in 1..n |-> Act(type[j], chain[at[j]])]
    BY <2>2
  <2> DEFINE act(j) == Act(type[j], chain[at[j]])
             acts == [j \in 1..n |-> act(j)]
  <2>4. \A j \in 1..n : act(j) \in Action /\ act(j).type \notin {"STOP", "ADD"} /\ (late => Follows(act(j)))
    <3> SUFFICES ASSUME NEW j \in 1..n
                 PROVE  act(j) \in Action /\ act(j).type \notin {"STOP", "ADD"} /\ (late => Follows(act(j)))
      OBVIOUS
    <3>1. chain[at[j]] \in Search /\ type[j] \in {"SEND", "END"}
      BY DEF Sound, Typed
    <3> QED BY <3>1 DEF Act, Action, Follows
  <2>5. n \in Nat
    BY DEF Sound, Typed
  <2> HIDE DEF act
  <2>6. acts \in Seq(Action) /\ DOMAIN acts = 1..n /\ \A j \in 1..n : acts[j] = act(j)
    BY <2>4, <2>5
  <2>7. queue' = queue \o acts
    BY <2>3 DEF act
  <2> HIDE DEF acts
  <2>8. /\ made /\ main \notin {"NETIF", "UNREGISTER", "UNQUEUE", "DELETE"}
        /\ main \in {"JOIN", "UNLOCKED", "SOCKETS", "DRAIN"} => late
    BY <2>1, CallbackRuns
  <2>9. handler' \in {"OFF", "ON", "POSTS"} /\ (handler' # "OFF" => handler # "OFF") /\ callback' \in {"NO", "SENDS", "WALKS"}
        /\ tx' \in Seq(Scheduled)
    BY <2>1 DEF Sound, Typed
  <2>10. Sound'
    BY <2>1, <2>4, <2>6, <2>7, <2>8, <2>9, Pushes
  <2> QED BY <2>1, <2>10, NoFault DEF IInv
<1> QED BY <1>1, <1>2

-----------------------------------------------------------------------------
(* The service task                                                         *)

(* It has taken an action, or the stop.                                     *)
LEMMA TakeSteps ==
  ASSUME Sound, fault = None, ServiceTakes
  PROVE  IInv'
<1>1. /\ UNCHANGED <<main, server, handler, open, made, lock, timer, callback, caller, asking, chain, tx, live, freed, fault>>
      /\ UNCHANGED <<late, refused, failed, strayed, leaked>>
      /\ task = "WAITS" /\ queue # <<>> /\ queue' = Tail(queue)
      /\ IF Head(queue).type = "STOP" THEN task' = "STOPPED" /\ taken' = taken
         ELSE task' = "TAKEN" /\ taken' = <<Head(queue)>>
  BY DEF ServiceTakes, heap, history, network
<1>2. taken = <<>> /\ main \in Running /\ queue \in Seq(Action) /\ made
  BY <1>1 DEF Sound, Typed, Built, Running, Queueless
<1>3. queue' \in Seq(Action) /\ Head(queue) = queue[1] /\ 1 \in DOMAIN queue
  BY <1>1, <1>2, TailElements
<1>4. InUse' = InUse /\ Lost' = Lost /\ Asked' = Asked
  BY <1>1 DEF InUse, Lost, Asked
<1>5. Causes'
  BY <1>1, <1>2 DEF Sound, Causes, LossHasCause, Running
<1>6. ASSUME Added' = Added, AddedOnce => AddedOnce' PROVE HeapIsKept'
  <2>1. Owned' = Owned /\ (Apart => Apart')
    BY <1>1, <1>4, <1>6 DEF Owned, Apart
  <2> QED BY <1>1, <1>4, <1>6, <2>1 DEF Sound, HeapIsKept
<1>7. CASE Head(queue).type = "STOP"
  <2>1. Pipe = queue /\ Pipe' = queue'
    BY <1>1, <1>2, <1>3, <1>7, ConcatEmptySeq DEF Pipe
  <2>2. Added' = Added /\ (AddedOnce => AddedOnce')
    <3>1. Pipe \in Seq(Action) /\ Pipe # <<>> /\ Pipe' = Tail(Pipe) /\ Head(Pipe).type # "ADD"
      BY <1>1, <1>2, <1>7, <2>1
    <3> QED BY <3>1, PipeShrinks
  <2>3. main = "JOIN"
    BY <1>3, <1>7 DEF Sound, StopIsLast
  <2>4. Typed' /\ Built'
    BY <1>1, <1>2, <1>3, <1>7, <2>3 DEF Sound, Typed, Built
  <2> QED BY <1>1, <1>5, <1>6, <2>2, <2>4, TakingKeepsStop, NoFault DEF IInv, Sound
<1>8. CASE Head(queue).type # "STOP"
  <2>1. Pipe' = Pipe /\ taken' \in Seq(Action) /\ Len(taken') = 1
    BY <1>1, <1>2, <1>8, PipeTaken DEF Sound
  <2>2. Added' = Added /\ (AddedOnce => AddedOnce')
    BY <2>1 DEF Added, AddsAt, AddedOnce
  <2>3. Typed' /\ Built'
    BY <1>1, <1>2, <1>3, <1>8, <2>1 DEF Sound, Typed, Built
  <2> QED BY <1>1, <1>5, <1>6, <2>2, <2>3, TakingKeepsStop, NoFault DEF IInv, Sound
<1> QED BY <1>7, <1>8

(* It has executed one: all but the heap is as before.                      *)
LEMMA Executed ==
  ASSUME Sound, NEW types, Executes(types)
  PROVE  /\ Built' /\ Causes' /\ StopIsLast'
         /\ main' = main /\ main \in Running /\ fault' = fault /\ Lost' = Lost /\ Asked' = Asked
         /\ Head(taken) \in Action /\ Head(taken).type \in types
         /\ Added' \cup (IF Head(taken).type = "ADD" THEN {Head(taken).of} ELSE {}) = Added
         /\ AddedOnce' /\ (Head(taken).type = "ADD" => Head(taken).of \notin Added')
         /\ chain' \in Seq(Search) /\ tx' \in Seq(Scheduled) /\ caller' \in Search \cup {None} => Typed'
<1>1. /\ UNCHANGED <<main, server, handler, made, queue, lock, timer, callback, asking, fault>>
      /\ UNCHANGED <<late, refused, failed, strayed, leaked>>
      /\ task = "TAKEN" /\ task' = "WAITS" /\ taken' = <<>> /\ Head(taken).type \in types
  BY DEF Executes, history
<1>2. Len(taken) = 1 /\ main \in Running
  BY <1>1 DEF Sound, Built
<1>3. /\ Pipe \in Seq(Action) /\ Pipe # <<>> /\ Pipe' = Tail(Pipe) /\ Head(Pipe) = Head(taken)
      /\ Head(taken) \in Action /\ taken' \in Seq(Action) /\ Len(taken') = 0
  BY <1>1, <1>2, PipeDone DEF Sound
<1>4. /\ Added' \cup (IF Head(taken).type = "ADD" THEN {Head(taken).of} ELSE {}) = Added
      /\ AddedOnce' /\ (Head(taken).type = "ADD" => Head(taken).of \notin Added')
  BY <1>3, PipeShrinks DEF Sound, HeapIsKept
<1>5. StopIsLast'
  <2>1. \A k : OnlyFollowersAfter(k)' <=> OnlyFollowersAfter(k)
    BY <1>1 DEF OnlyFollowersAfter, Follows
  <2>2. \A k \in DOMAIN taken' : taken'[k].type # "STOP"
    BY <1>1
  <2> QED BY <1>1, <1>2, <2>1, <2>2 DEF Sound, StopIsLast, Running
<1>6. Built'
  BY <1>1, <1>2, <1>3 DEF Sound, Built, Running, Queueless, Unheard
<1>7. Causes'
  BY <1>1, <1>2 DEF Sound, Causes, LossHasCause, Running
<1>8. chain' \in Seq(Search) /\ tx' \in Seq(Scheduled) /\ caller' \in Search \cup {None} => Typed'
  BY <1>1, <1>3 DEF Sound, Typed
<1>9. Lost' = Lost /\ Asked' = Asked
  BY <1>1 DEF Lost, Asked
<1> QED BY <1>1, <1>2, <1>3, <1>4, <1>5, <1>6, <1>7, <1>8, <1>9

LEMMA PipeTypes ==
  ASSUME Typed
  PROVE  Pipe \in Seq(Action) /\ Added \subseteq Search
<1>1. Pipe \in Seq(Action)
  BY ConcatProperties DEF Typed, Pipe
<1>2. ASSUME NEW k \in DOMAIN Pipe, Pipe[k].type = "ADD" PROVE Pipe[k].of \in Search
  <2>1. Pipe[k] \in Action
    BY <1>1
  <2> QED BY <1>2, <2>1 DEF Action
<1> QED BY <1>1, <1>2 DEF Added, AddsAt

(* What is owned is a search.                                               *)
LEMMA OwnedTypes ==
  ASSUME Typed
  PROVE  Owned \subseteq Search /\ ToSet(chain) \subseteq Search /\ Packets(tx) \subseteq Packet
<1>1. Added \subseteq Search
  BY PipeTypes
<1>2. ToSet(chain) \subseteq Search /\ Packets(tx) \subseteq Packet
  BY PacketTypes DEF Typed, ToSet
<1>3. Lost \subseteq Search
  <2> SUFFICES ASSUME NEW act \in leaked, act.type = "ADD" PROVE act.of \in Search
    BY DEF Lost
  <2>1. act \in Action
    BY DEF Typed
  <2> QED BY <2>1 DEF Action
<1>4. Asked \subseteq Search
  BY DEF Asked, Typed
<1> QED BY <1>1, <1>2, <1>3, <1>4 DEF Owned

(* What the heap holds while the task runs                                  *)
Waited == caller \in ToSet(chain) \cup Added \cup Lost \cup {None}

LEMMA HeapWhileRunning ==
  ASSUME Sound, main \in Running
  PROVE  /\ IsInjective(chain) /\ Distinct(tx) /\ chain \in Seq(Search) /\ tx \in Seq(Scheduled)
         /\ ToSet(chain) \subseteq Search /\ Packets(tx) \subseteq Packet /\ Owned \subseteq Search
         /\ live = ToSet(chain) \cup Packets(tx) \cup Owned /\ Apart /\ Waited /\ caller \in Search \cup {None}
<1>1. main \notin Emptying
  BY DEF Running, Emptying
<1> QED BY <1>1, OwnedTypes DEF Sound, Typed, HeapIsKept, InUse, Waited

(* What it has to hold afterwards                                           *)
LEMMA HeapAfterwards ==
  ASSUME main' \in Running, IsInjective(chain'), Distinct(tx'), AddedOnce', Apart', Waited',
         live' = ToSet(chain') \cup Packets(tx') \cup Owned'
  PROVE  HeapIsKept'
BY DEF HeapIsKept, InUse, Waited

LEMMA ScheduleSteps ==
  ASSUME Sound, fault = None, Schedules
  PROVE  IInv'
<1>1. PICK types \in {{"RX", "EVENT"}} : Executes(types)
  BY DEF Schedules
<1>2. caller' = caller /\ chain' = chain
  BY DEF Schedules
<1>3. /\ Built' /\ Causes' /\ StopIsLast' /\ main' = main /\ main \in Running /\ fault' = fault
      /\ Lost' = Lost /\ Asked' = Asked /\ Added' = Added /\ AddedOnce'
      /\ (chain' \in Seq(Search) /\ tx' \in Seq(Scheduled) /\ caller' \in Search \cup {None} => Typed')
  BY <1>1, Executed
<1>4. /\ IsInjective(chain) /\ Distinct(tx) /\ chain \in Seq(Search) /\ tx \in Seq(Scheduled)
      /\ ToSet(chain) \subseteq Search /\ Packets(tx) \subseteq Packet /\ Owned \subseteq Search
      /\ live = ToSet(chain) \cup Packets(tx) \cup Owned /\ Apart /\ Waited /\ caller \in Search \cup {None}
  BY <1>3, HeapWhileRunning
<1>5. Owned' = Owned /\ Apart' /\ Waited'
  BY <1>2, <1>3, <1>4 DEF Owned, Apart, Waited
<1>6. CASE live' = live /\ tx' = tx
  <2>1. HeapIsKept'
    BY <1>2, <1>3, <1>4, <1>5, <1>6, HeapAfterwards
  <2> QED BY <1>2, <1>3, <1>4, <1>6, <2>1, NoFault DEF IInv, Sound
<1>7. ASSUME NEW p \in Packet \ (live \cup freed), live' = live \cup {p}, mdns_priv_send_after(tx, p)
      PROVE  IInv'
  <2>1. p \in Packet \ Packets(tx)
    BY <1>4, <1>7
  <2>2. tx' \in Seq(Scheduled) /\ Distinct(tx') /\ Packets(tx') = Packets(tx) \cup {p}
    BY <1>4, <1>7, <2>1, PacketScheduled
  <2>3. HeapIsKept'
    BY <1>2, <1>3, <1>4, <1>5, <1>7, <2>2, HeapAfterwards
  <2> QED BY <1>2, <1>3, <1>4, <2>2, <2>3, NoFault DEF IInv, Sound
<1> DEFINE unused == Packet \ (live \cup freed)
           p == CHOOSE q \in unused : TRUE
<1>8. unused # {} => p \in unused
  OBVIOUS
<1>9. (live' = live /\ tx' = tx) \/ (unused # {} /\ live' = live \cup {p} /\ mdns_priv_send_after(tx, p))
  BY DEF Schedules
<1> HIDE DEF p
<1> QED BY <1>6, <1>7, <1>8, <1>9

(* The two that may take packets out of the list                            *)
LEMMA PacketSteps ==
  ASSUME Sound, fault = None, mdns_priv_pcb_disable \/ send_packet
  PROVE  IInv'
<1>1. PICK types \in {{"EVENT"}, {"TX"}} : Executes(types)
  BY DEF mdns_priv_pcb_disable, send_packet
<1>2. caller' = caller /\ chain' = chain
  BY DEF mdns_priv_pcb_disable, send_packet
<1>3. /\ Built' /\ Causes' /\ StopIsLast' /\ main' = main /\ main \in Running /\ fault' = fault
      /\ Lost' = Lost /\ Asked' = Asked /\ Added' = Added /\ AddedOnce'
      /\ (chain' \in Seq(Search) /\ tx' \in Seq(Scheduled) /\ caller' \in Search \cup {None} => Typed')
  BY <1>1, Executed
<1>4. /\ IsInjective(chain) /\ Distinct(tx) /\ chain \in Seq(Search) /\ tx \in Seq(Scheduled)
      /\ ToSet(chain) \subseteq Search /\ Packets(tx) \subseteq Packet /\ Owned \subseteq Search
      /\ live = ToSet(chain) \cup Packets(tx) \cup Owned /\ Apart /\ Waited /\ caller \in Search \cup {None}
  BY <1>3, HeapWhileRunning
<1>5. Search \cap Packet = {}
  BY AddressAssumption
<1>6. Owned' = Owned /\ Apart' /\ Waited'
  BY <1>2, <1>3, <1>4 DEF Owned, Apart, Waited
<1>7. ASSUME tx' \in Seq(Scheduled), Distinct(tx'),
             NEW gone \in SUBSET Packets(tx), Packets(tx') = Packets(tx) \ gone, live' = live \ gone
      PROVE  IInv'
  <2>1. live' = ToSet(chain) \cup (Packets(tx) \ gone) \cup Owned
    BY <1>4, <1>5, <1>7
  <2>2. HeapIsKept'
    BY <1>2, <1>3, <1>4, <1>6, <1>7, <2>1, HeapAfterwards
  <2> QED BY <1>2, <1>3, <1>4, <1>7, <2>2, NoFault DEF IInv, Sound
<1>8. CASE mdns_priv_pcb_disable
  <2>1. tx' = <<>> /\ live' = live \ Packets(tx)
    BY <1>8 DEF mdns_priv_pcb_disable, Packets
  <2>2. tx' \in Seq(Scheduled) /\ Distinct(tx') /\ Packets(tx') = Packets(tx) \ Packets(tx)
    BY <2>1 DEF Distinct, Packets
  <2> QED BY <1>7, <2>1, <2>2
<1>9. CASE send_packet
  <2>1. CASE tx' = tx /\ live' = live
    <3>1. tx' \in Seq(Scheduled) /\ Distinct(tx')
      BY <1>4, <2>1
    <3>2. Packets(tx') = Packets(tx) \ {} /\ live' = live \ {} /\ {} \in SUBSET Packets(tx)
      BY <2>1
    <3> QED BY <1>7, <3>1, <3>2
  <2>2. CASE tx # <<>> /\ ~(tx' = tx /\ live' = live)
    <3> DEFINE p == Head(tx).packet
    <3>1. /\ Tail(tx) \in Seq(Scheduled) /\ Distinct(Tail(tx)) /\ p \in Packet
          /\ Packets(Tail(tx)) = Packets(tx) \ {p} /\ p \in Packets(tx)
      BY <1>4, <2>2, PacketLeaves
    <3>2. \/ mdns_priv_send_after(Tail(tx), p) /\ live' = live
          \/ tx' = Tail(tx) /\ live' = live \ {p}
      BY <1>9, <2>2 DEF send_packet
    <3> HIDE DEF p
    <3>3. CASE mdns_priv_send_after(Tail(tx), p) /\ live' = live
      <4>1. tx' \in Seq(Scheduled) /\ Distinct(tx') /\ Packets(tx') = Packets(Tail(tx)) \cup {p}
        BY <3>1, <3>3, PacketScheduled
      <4>2. Packets(tx') = Packets(tx) \ {} /\ live' = live \ {}
        BY <3>1, <3>3, <4>1
      <4> QED BY <1>7, <4>1, <4>2
    <3>4. CASE tx' = Tail(tx) /\ live' = live \ {p}
      BY <1>7, <3>1, <3>4
    <3> QED BY <3>2, <3>3, <3>4
  <2> QED BY <1>9, <2>1, <2>2 DEF send_packet
<1> QED BY <1>8, <1>9

(* A search comes into the chain.                                           *)
LEMMA AddSteps ==
  ASSUME Sound, fault = None, search_add
  PROVE  IInv'
<1> DEFINE s == Head(taken).of
<1>1. Executes({"ADD"}) /\ caller' = caller /\ chain' = <<s>> \o chain /\ tx' = tx /\ live' = live
  BY DEF search_add
<1>2. /\ Built' /\ Causes' /\ StopIsLast' /\ main' = main /\ main \in Running /\ fault' = fault
      /\ Head(taken) \in Action /\ Head(taken).type = "ADD" /\ Lost' = Lost /\ Asked' = Asked
      /\ Added' \cup {s} = Added /\ s \notin Added' /\ AddedOnce'
      /\ (chain' \in Seq(Search) /\ tx' \in Seq(Scheduled) /\ caller' \in Search \cup {None} => Typed')
  BY <1>1, Executed
<1>3. s \in Search
  BY <1>2 DEF Action
<1> HIDE DEF s
<1>4. /\ IsInjective(chain) /\ Distinct(tx) /\ chain \in Seq(Search) /\ tx \in Seq(Scheduled)
      /\ live = ToSet(chain) \cup Packets(tx) \cup Owned /\ Apart /\ Waited /\ caller \in Search \cup {None}
  BY <1>2, HeapWhileRunning
<1>5. s \notin ToSet(chain)
  BY <1>2, <1>4 DEF Apart
<1>6. chain' \in Seq(Search) /\ ToSet(chain') = ToSet(chain) \cup {s} /\ IsInjective(chain')
  BY <1>1, <1>3, <1>4, <1>5, PrependElements
<1>7. Owned = Owned' \cup {s}
  BY <1>2 DEF Owned
<1>8. Apart'
  BY <1>2, <1>4, <1>6 DEF Apart
<1>9. Waited'
  BY <1>1, <1>2, <1>4, <1>6 DEF Waited
<1>10. live' = ToSet(chain') \cup Packets(tx') \cup Owned'
  BY <1>1, <1>4, <1>6, <1>7
<1>11. HeapIsKept'
  BY <1>1, <1>2, <1>4, <1>6, <1>8, <1>9, <1>10, HeapAfterwards
<1> QED BY <1>1, <1>2, <1>4, <1>6, <1>11, NoFault DEF IInv, Sound

(* A search leaves the chain.                                               *)
LEMMA FinishSteps ==
  ASSUME Sound, fault = None, search_finish
  PROVE  IInv'
<1>1. PICK types \in {{"END"}, {"RX"}, {"SEND", "END"}} :
         /\ Executes(types) /\ tx' = tx
         /\ (\E s : Finish(s)) \/ (caller' = caller /\ chain' = chain /\ live' = live)
  BY DEF search_finish
<1>2. /\ Built' /\ Causes' /\ StopIsLast' /\ main' = main /\ main \in Running /\ fault' = fault
      /\ Lost' = Lost /\ Asked' = Asked /\ Added' = Added /\ AddedOnce'
      /\ (chain' \in Seq(Search) /\ tx' \in Seq(Scheduled) /\ caller' \in Search \cup {None} => Typed')
  BY <1>1, Executed
<1>3. /\ IsInjective(chain) /\ Distinct(tx) /\ chain \in Seq(Search) /\ tx \in Seq(Scheduled)
      /\ ToSet(chain) \subseteq Search /\ Packets(tx) \subseteq Packet /\ Owned \subseteq Search
      /\ live = ToSet(chain) \cup Packets(tx) \cup Owned /\ Apart /\ Waited /\ caller \in Search \cup {None}
  BY <1>2, HeapWhileRunning
<1>4. Owned' = Owned
  BY <1>2 DEF Owned
<1>5. CASE caller' = caller /\ chain' = chain /\ live' = live
  <2>1. Apart' /\ Waited'
    BY <1>2, <1>3, <1>5 DEF Apart, Waited
  <2>2. HeapIsKept'
    BY <1>1, <1>2, <1>3, <1>4, <1>5, <2>1, HeapAfterwards
  <2> QED BY <1>1, <1>2, <1>3, <1>5, <2>2, NoFault DEF IInv, Sound
<1>6. ASSUME NEW s, Finish(s) PROVE IInv'
  <2>1. PICK k \in DOMAIN chain : chain[k] = s /\ chain' = RemoveAt(chain, k)
    BY <1>6 DEF Finish
  <2>2. live' = live \ {s} /\ caller' = (IF caller = s THEN None ELSE caller)
    BY <1>6 DEF Finish
  <2>3. chain' \in Seq(Search) /\ IsInjective(chain') /\ ToSet(chain') = ToSet(chain) \ {s} /\ s \in ToSet(chain)
    <3>1. chain' \in Seq(Search) /\ IsInjective(chain') /\ ToSet(chain') = ToSet(chain) \ {chain[k]}
      BY <1>3, <2>1, RemoveAtRemoves
    <3>2. s \in ToSet(chain)
      BY <2>1 DEF ToSet
    <3> QED BY <2>1, <3>1, <3>2
  <2>4. s \notin Packets(tx) /\ s \notin Owned
    BY <1>3, <2>3, AddressAssumption DEF Apart, Owned
  <2>5. Apart'
    BY <1>2, <1>3, <2>3 DEF Apart
  <2>6. Waited' /\ caller' \in Search \cup {None}
    BY <1>2, <1>3, <2>2, <2>3 DEF Waited
  <2>7. live' = ToSet(chain') \cup Packets(tx') \cup Owned'
    BY <1>1, <1>3, <1>4, <2>2, <2>3, <2>4
  <2>8. HeapIsKept'
    BY <1>1, <1>2, <1>3, <2>3, <2>5, <2>6, <2>7, HeapAfterwards
  <2> QED BY <1>1, <1>2, <1>3, <2>3, <2>6, <2>8, NoFault DEF IInv, Sound
<1> QED BY <1>1, <1>5, <1>6

-----------------------------------------------------------------------------
(* mdns_free, from the stop on                                              *)

LEMMA StopSteps ==
  ASSUME Sound, fault = None, service_task_stop
  PROVE  IInv'
<1>1. /\ UNCHANGED <<handler, open, made, lock, timer, callback, caller, asking, chain, tx, live, freed, late, failed>>
      /\ UNCHANGED <<strayed, fault>> /\ main = "STOP"
  BY DEF service_task_stop, At, heap, network
<1>2. made /\ main \in Running /\ main \notin Emptying
  BY <1>1 DEF Sound, Built, Running, Queueless, Emptying
<1>3. /\ IsInjective(chain) /\ Distinct(tx) /\ AddedOnce /\ Apart /\ Waited
      /\ InUse \cup Owned \subseteq live /\ live \subseteq InUse \cup Owned
  BY <1>1, <1>2 DEF Sound, HeapIsKept, Waited
<1>4. InUse' = InUse /\ Asked' = Asked
  BY <1>1 DEF InUse, Asked
<1>5. ASSUME AddedOnce', Apart', Waited', Owned' = Owned, main' \in Running \cup Ending PROVE HeapIsKept'
  BY <1>1, <1>3, <1>4, <1>5 DEF HeapIsKept, Waited
<1>6. CASE HasRoom
  <2> DEFINE stop == Act("STOP", None)
  <2>1. main' = "JOIN" /\ mdns_priv_queue_action(stop) /\ UNCHANGED <<task, taken, refused, leaked>>
    BY <1>6 DEF service_task_stop, At
  <2>2. stop \in Action /\ stop.type = "STOP"
    BY DEF Act, Action
  <2> HIDE DEF stop
  <2>3. queue' = queue \o <<stop>> /\ <<stop>> \in Seq(Action) /\ DOMAIN <<stop>> = {1} /\ <<stop>>[1] = stop
    BY <2>1, <2>2, SinglePush
  <2>4. queue' \in Seq(Action)
    BY <2>3, PipeGrows, <2>1 DEF Sound
  <2>5. Added' = Added /\ (AddedOnce => AddedOnce')
    BY <2>1, <2>2, <2>3, AddsStay DEF Sound
  <2>6. Typed'
    BY <1>1, <2>1, <2>4 DEF Sound, Typed, Running
  <2>7. StopIsLast'
    <3>1. /\ queue \in Seq(Action) /\ queue' = Append(queue, stop) /\ Len(queue) \in Nat
      BY <2>1 DEF mdns_priv_queue_action, Sound, Typed
    <3>2. /\ DOMAIN queue' = 1..Len(queue) + 1 /\ queue'[Len(queue) + 1] = stop
          /\ \A k \in 1..Len(queue) : k \in DOMAIN queue /\ queue'[k] = queue[k]
      BY <2>2, <3>1, AppendProperties
    <3>3. \A k \in DOMAIN queue : queue[k].type # "STOP"
      BY <1>1 DEF Sound, StopIsLast
    <3>4. \A k \in DOMAIN queue' : k = Len(queue) + 1 \/ (k <= Len(queue) /\ queue'[k].type # "STOP")
      BY <3>1, <3>2, <3>3
    <3>5. ASSUME NEW k \in DOMAIN queue', queue'[k].type = "STOP" PROVE OnlyFollowersAfter(k)'
      <4>1. k = Len(queue) + 1
        BY <3>4, <3>5
      <4>2. \A j \in DOMAIN queue' : ~(j > k)
        BY <3>1, <3>2, <4>1
      <4> QED BY <4>2 DEF OnlyFollowersAfter
    <3>6. \E k \in DOMAIN queue' : queue'[k].type = "STOP"
      <4>1. Len(queue) + 1 \in DOMAIN queue'
        BY <3>1, <3>2
      <4> QED BY <2>2, <3>2, <4>1
    <3>7. task' # "STOPPED"
      BY <1>1, <2>1 DEF Sound, Built
    <3>8. \A k \in DOMAIN taken' : taken'[k].type # "STOP"
      BY <2>1 DEF Sound, StopIsLast
    <3> QED BY <2>1, <3>5, <3>6, <3>7, <3>8 DEF StopIsLast, Starting
  <2>8. HeapIsKept'
    <3>1. Lost' = Lost
      BY <2>1 DEF Lost
    <3>2. Owned' = Owned /\ Apart' /\ Waited'
      BY <1>1, <1>3, <1>4, <2>5, <3>1 DEF Owned, Apart, Waited
    <3> QED BY <1>3, <1>5, <2>1, <2>5, <3>2 DEF Running
  <2>9. Built' /\ Causes'
    BY <1>1, <1>2, <2>1 DEF Sound, Built, Causes, LossHasCause, Running, Queueless, Unheard
  <2> QED BY <1>1, <2>6, <2>7, <2>8, <2>9, NoFault DEF IInv, Sound
<1>7. CASE ~HasRoom
  <2>1. /\ main' = "UNLOCKED" /\ refused' = TRUE /\ task' = "NONE" /\ taken' = <<>> /\ queue' = queue
        /\ leaked' = leaked \cup ToSet(taken)
    BY <1>7 DEF service_task_stop, At
  <2>2. StopIsLast'
    BY <1>1, <2>1 DEF Sound, StopIsLast
  <2>3. Built'
    BY <1>1, <1>2, <2>1 DEF Sound, Built, Running, Queueless, Unheard
  <2>4. Causes'
    BY <1>1, <2>1 DEF Sound, Causes, LossHasCause
  <2>5. ASSUME leaked' \subseteq Action, HeapIsKept' PROVE IInv'
    <3>1. Typed'
      BY <1>1, <2>1, <2>5 DEF Sound, Typed, Ending
    <3> QED BY <1>1, <2>2, <2>3, <2>4, <2>5, <3>1, NoFault DEF IInv, Sound
  <2>6. CASE taken = <<>>
    <3>1. leaked' = leaked /\ Pipe' = Pipe
      BY <2>1, <2>6 DEF ToSet, Pipe
    <3>2. Added' = Added /\ AddedOnce' /\ Lost' = Lost
      BY <1>3, <3>1 DEF Added, AddsAt, AddedOnce, Lost
    <3>3. Owned' = Owned /\ Apart' /\ Waited'
      BY <1>1, <1>3, <1>4, <3>2 DEF Owned, Apart, Waited
    <3>4. HeapIsKept'
      BY <1>5, <2>1, <3>2, <3>3 DEF Ending
    <3>5. leaked' \subseteq Action
      BY <3>1 DEF Sound, Typed
    <3> QED BY <2>5, <3>4, <3>5
  <2>7. CASE taken # <<>>
    <3> DEFINE gone == IF Head(taken).type = "ADD" THEN {Head(taken).of} ELSE {}
    <3>1. Len(taken) = 1
      BY <2>7 DEF Sound, Typed, Built
    <3>2. Pipe \in Seq(Action) /\ Pipe # <<>> /\ Pipe' = Tail(Pipe) /\ Head(Pipe) = Head(taken) /\ Head(taken) \in Action
      BY <2>1, <3>1, PipeDone DEF Sound
    <3>3. Added' \cup gone = Added /\ AddedOnce' /\ gone \cap Added' = {}
      BY <1>3, <3>2, PipeShrinks
    <3>4. ToSet(taken) = {Head(taken)}
      <4>1. DOMAIN taken = {1} /\ Head(taken) = taken[1]
        BY <3>1 DEF Sound, Typed
      <4> QED BY <4>1 DEF ToSet
    <3>5. Lost' = Lost \cup gone
      BY <2>1, <3>4 DEF Lost
    <3> HIDE DEF gone
    <3>6. Owned' = Owned
      BY <1>4, <3>3, <3>5 DEF Owned
    <3>7. Apart'
      BY <1>1, <1>3, <1>4, <3>3, <3>5 DEF Apart
    <3>8. Waited'
      BY <1>1, <1>3, <3>3, <3>5 DEF Waited
    <3>9. HeapIsKept'
      BY <1>5, <2>1, <3>3, <3>6, <3>7, <3>8 DEF Ending
    <3>10. leaked' \subseteq Action
      BY <2>1, <3>2, <3>4 DEF Sound, Typed
    <3> QED BY <2>5, <3>9, <3>10
  <2> QED BY <2>6, <2>7
<1> QED BY <1>6, <1>7

(* What is behind the stop owns searches of queries; it may dangle only     *)
(* where a late callback pushed it, or a task that got no stop left it.     *)
LEMMA DrainSteps ==
  ASSUME Sound, fault = None, DrainQueue
  PROVE  IInv'
<1> DEFINE act == Head(queue)
           gone == free_action(act)
<1>1. /\ UNCHANGED <<main, handler, open, made, lock, timer, task, taken, callback, caller, asking, chain, tx>>
      /\ UNCHANGED <<late, refused, failed, strayed, leaked>>
      /\ main = "DRAIN" /\ queue # <<>> /\ queue' = Tail(queue) /\ live' = live \ gone /\ freed' = freed \cup (live \cap gone)
      /\ fault' = IF ~(gone \subseteq live) THEN "heap" ELSE IF caller \in gone THEN "waiter" ELSE None
  BY DEF DrainQueue, network, history
<1>2. /\ main \in Emptying /\ main \in Ending /\ taken = <<>> /\ queue \in Seq(Action)
      /\ refused \/ OnlyFollowersAfter(0)
      /\ \A k \in DOMAIN queue : queue[k].type # "STOP"
  BY <1>1 DEF Sound, Typed, Built, StopIsLast, Running, Ending, Emptying
<1>3. /\ act = queue[1] /\ 1 \in DOMAIN queue /\ act \in Action
      /\ DOMAIN queue \subseteq Nat /\ DOMAIN queue' \subseteq Nat /\ queue' \in Seq(Action)
      /\ \A k \in DOMAIN queue' : k >= 1 /\ k + 1 \in DOMAIN queue /\ queue'[k] = queue[k + 1]
  BY <1>1, <1>2, TailElements
<1>4. Pipe = queue /\ Pipe' = queue'
  BY <1>1, <1>2, <1>3, ConcatEmptySeq DEF Pipe
<1>5. /\ Added' \cup (IF act.type = "ADD" THEN {act.of} ELSE {}) = Added
      /\ AddedOnce' /\ (act.type = "ADD" => act.of \notin Added')
  BY <1>1, <1>2, <1>4, PipeShrinks DEF Sound, HeapIsKept
<1> HIDE DEF act
<1>6. Lost' = Lost /\ Asked' = Asked /\ InUse' = InUse
  BY <1>1 DEF Lost, Asked, InUse
<1>7. Owned \subseteq Search /\ ToSet(chain) \subseteq Search /\ Packets(tx) \subseteq Packet /\ Search \cap Packet = {}
  BY OwnedTypes, AddressAssumption DEF Sound
<1>8. \/ act.type = "ADD" /\ gone = {act.of}
      \/ act.type # "ADD" /\ gone = {}
      \/ act.type # "ADD" /\ (refused \/ late) /\ gone \subseteq ToSet(chain) \cup Packet
  <2>1. refused \/ Follows(act)
    BY <1>2, <1>3 DEF OnlyFollowersAfter
  <2>2. act.type = "TX" => act.of \in Packet
    BY <1>3 DEF Action
  <2>3. act.type \in {"ADD", "SEND", "END", "TX", "RX", "EVENT"}
    BY <1>2, <1>3 DEF Action
  <2> QED BY <2>1, <2>2, <2>3 DEF Follows, free_action, mdns_priv_query_action
<1> HIDE DEF gone
<1>9. CASE fault' = None
  <2>1. gone \subseteq live /\ caller \notin gone
    BY <1>1, <1>9, FaultAssumption
  <2>2. Typed' /\ Built' /\ Causes'
    BY <1>1, <1>2, <1>3 DEF Sound, Typed, Built, Causes, LossHasCause, Running, Queueless
  <2>3. StopIsLast'
    <3>1. \A a : Follows(a)' <=> Follows(a)
      BY <1>1 DEF Follows
    <3>2. \A k \in DOMAIN queue' : queue'[k].type # "STOP" /\ (OnlyFollowersAfter(0) => Follows(queue'[k]))
      BY <1>2, <1>3 DEF OnlyFollowersAfter
    <3>3. refused' \/ OnlyFollowersAfter(0)'
      BY <1>1, <1>2, <3>1, <3>2 DEF OnlyFollowersAfter
    <3> QED BY <1>1, <1>2, <3>2, <3>3 DEF StopIsLast
  <2>4. Apart'
    BY <1>1, <1>5, <1>6 DEF Sound, HeapIsKept, Apart
  <2>5. Owned' \subseteq live' /\ live' \subseteq InUse' \cup Owned' /\ Waited'
    <3>1. CASE act.type = "ADD" /\ gone = {act.of}
      <4>1. act.of \in Added /\ act.of \notin Lost /\ act.of \notin Asked
        BY <1>5, <3>1 DEF Sound, HeapIsKept, Apart
      <4>2. Owned' = Owned \ gone
        BY <1>5, <1>6, <3>1, <4>1 DEF Owned
      <4> QED BY <1>1, <1>5, <1>6, <2>1, <3>1, <4>2 DEF Sound, HeapIsKept, Waited
    <3>2. CASE act.type # "ADD"
      <4>1. Added' = Added
        BY <1>5, <3>2
      <4>2. Owned' = Owned
        BY <1>6, <4>1 DEF Owned
      <4>3. gone \cap Owned = {}
        BY <1>7, <1>8, <3>2 DEF Sound, HeapIsKept, Apart, Owned
      <4> QED BY <1>1, <1>6, <4>1, <4>2, <4>3 DEF Sound, HeapIsKept, Waited
    <3> QED BY <1>8, <3>1, <3>2
  <2>6. InUse' \subseteq live' \/ ((late' \/ refused') /\ InUse' \subseteq live' \cup freed')
    <3>1. InUse \subseteq live \/ ((late \/ refused) /\ InUse \subseteq live \cup freed)
      BY DEF Sound, HeapIsKept
    <3>2. live' \cup freed' = live \cup freed
      BY <1>1
    <3>3. CASE act.type = "ADD" /\ gone = {act.of}
      <4>1. act.of \in Added
        BY <1>5, <3>3
      <4>2. act.of \notin InUse
        BY <1>7, <4>1 DEF Sound, HeapIsKept, Apart, InUse, Owned
      <4> QED BY <1>1, <1>6, <3>1, <3>2, <3>3, <4>2
    <3>4. CASE gone = {} \/ late \/ refused
      BY <1>1, <1>6, <3>1, <3>2, <3>4
    <3> QED BY <1>8, <3>3, <3>4
  <2>7. HeapIsKept'
    BY <1>1, <1>2, <1>5, <2>4, <2>5, <2>6 DEF Sound, HeapIsKept, Waited
  <2> QED BY <1>9, <2>2, <2>3, <2>7, NoFault DEF IInv, Sound
<1>10. CASE fault' # None
  <2>1. CASE refused \/ late
    BY <1>1, <1>10, <2>1 DEF IInv, FaultsHaveCauses
  <2>2. CASE ~(refused \/ late)
    <3>1. gone \subseteq live
      BY <1>5, <1>8, <2>2 DEF Sound, HeapIsKept, Owned
    <3> QED BY <1>1, <1>10, <3>1 DEF IInv, FaultsHaveCauses
  <2> QED BY <2>1, <2>2
<1> QED BY <1>9, <1>10

LEMMA ListSteps ==
  ASSUME Sound, fault = None, FreeLists
  PROVE  IInv'
<1>1. /\ main = "LISTS" /\ main' = "DOWN" /\ chain' = <<>> /\ tx' = <<>> /\ live' = live \ InUse
      /\ UNCHANGED <<handler, open, made, queue, lock, timer, task, taken, callback, caller, asking>>
      /\ UNCHANGED <<late, refused, failed, strayed, leaked>>
      /\ fault' = IF InUse \ live # {} THEN "heap" ELSE IF Contains(chain, caller) THEN "waiter" ELSE None
  BY DEF FreeLists, At, network, history, InUse, Packets
<1>2. queue = <<>> /\ taken = <<>> /\ (late \/ refused \/ InUse \subseteq live)
  BY <1>1 DEF Sound, Typed, Built, HeapIsKept, Running, Queueless
<1>3. CASE fault' = None
  <2>1. Pipe' = Pipe /\ Lost' = Lost /\ Asked' = Asked /\ InUse' = {} /\ ToSet(chain') = {}
    BY <1>1 DEF Pipe, Lost, Asked, InUse, ToSet, Packets
  <2>2. Added' = Added /\ (AddedOnce => AddedOnce')
    BY <2>1 DEF Added, AddsAt, AddedOnce
  <2>3. Owned' = Owned /\ (Apart => Apart')
    BY <2>1, <2>2 DEF Owned, Apart
  <2>4. Owned \cap InUse = {}
    BY OwnedTypes, AddressAssumption DEF Sound, HeapIsKept, Apart, Owned, InUse
  <2>5. caller \notin ToSet(chain)
    <3>1. ~Contains(chain, caller)
      BY <1>1, <1>3, FaultAssumption
    <3> QED BY <3>1 DEF Contains, ToSet
  <2>6. IsInjective(chain') /\ Distinct(tx')
    BY <1>1 DEF IsInjective, Distinct
  <2>7. HeapIsKept'
    BY <1>1, <2>1, <2>2, <2>3, <2>4, <2>5, <2>6 DEF Sound, HeapIsKept
  <2>8. Typed' /\ Built' /\ Causes'
    BY <1>1 DEF Sound, Typed, Built, Causes, LossHasCause, Running, Queueless, Unheard
  <2>9. StopIsLast'
    BY <1>1, <1>2 DEF StopIsLast
  <2> QED BY <1>3, <2>7, <2>8, <2>9, NoFault DEF IInv, Sound
<1>4. CASE fault' # None
  BY <1>1, <1>2, <1>4 DEF IInv, FaultsHaveCauses
<1> QED BY <1>3, <1>4

-----------------------------------------------------------------------------
LEMMA Initially == ASSUME Init PROVE IInv
<1>1. queue = <<>> /\ taken = <<>> /\ chain = <<>> /\ tx = <<>>
  BY DEF Init
<1>2. Added = {} /\ AddedOnce
  BY <1>1, NothingAdded
<1>3. InUse = {} /\ ToSet(chain) = {} /\ IsInjective(chain) /\ Distinct(tx)
  BY <1>1 DEF InUse, ToSet, Packets, IsInjective, Distinct
<1>4. Lost = {} /\ Asked = {}
  BY DEF Init, Lost, Asked
<1>5. HeapIsKept
  BY <1>1, <1>2, <1>3, <1>4 DEF Init, HeapIsKept, Owned, Apart
<1>6. Built /\ Causes
  BY <1>1 DEF Init, Built, Causes, Running, Queueless
<1>7. Typed
  <2>1. <<>> \in Seq(Action) /\ <<>> \in Seq(Search) /\ <<>> \in Seq(Scheduled)
    OBVIOUS
  <2> QED BY <1>1, <2>1 DEF Init, Typed
<1>8. StopIsLast
  BY <1>1 DEF Init, StopIsLast
<1> QED BY <1>5, <1>6, <1>7, <1>8, FaultAssumption DEF Init, IInv, Sound, FaultsHaveCauses

LEMMA Stuttering == ASSUME IInv, UNCHANGED vars PROVE IInv'
<1>1. FaultsHaveCauses' /\ fault' = fault
  BY DEF IInv, FaultsHaveCauses, vars
<1>2. Typed => Typed'
  BY DEF Typed, vars
<1>3. Built /\ Causes => Built' /\ Causes'
  BY DEF Built, Causes, LossHasCause, vars
<1>4. StopIsLast => StopIsLast'
  BY DEF StopIsLast, OnlyFollowersAfter, Follows, vars
<1>5. HeapIsKept => HeapIsKept'
  BY HeapFrame DEF vars
<1> QED BY <1>1, <1>2, <1>3, <1>4, <1>5 DEF IInv, Sound

LEMMA Invariance == Spec => []IInv
<1>1. Init => IInv
  BY Initially
<1>2. IInv /\ [Next]_vars => IInv'
  <2> SUFFICES ASSUME IInv, [Next]_vars PROVE IInv'
    OBVIOUS
  <2>1. CASE UNCHANGED vars
    BY <2>1, Stuttering
  <2>2. CASE Next
    <3>1. fault = None /\ Sound
      BY <2>2 DEF Next, IInv
    <3>2. CASE CreatesQueue \/ InitFails \/ vQueueDelete
      BY <3>1, <3>2, QueueSteps
    <3>3. CASE InitStep
      BY <3>1, <3>3, InitSteps
    <3>4. CASE TaskDeleted \/ LockDeleted \/ mdns_priv_pcb_deinit \/ QueueDrained
      BY <3>1, <3>4, EndSteps
    <3>5. CASE service_task_stop \/ DrainQueue \/ FreeLists
      BY <3>1, <3>5, StopSteps, DrainSteps, ListSteps
    <3>6. CASE Service
      BY <3>1, <3>6, TakeSteps, ScheduleSteps, PacketSteps, AddSteps, FinishSteps DEF Service
    <3>7. CASE handle_system_event \/ TimerFires
      BY <3>1, <3>7, BeginSteps
    <3>8. CASE post_custom_action \/ receive \/ QueryNew \/ send_search_action
      BY <3>1, <3>8, EventSteps, QuerySteps, SendSteps
    <3>9. CASE mdns_priv_send_packets \/ mdns_priv_query_start_stop
      BY <3>1, <3>9, SendingSteps, WalkingSteps
    <3>10. \/ MdnsInit \/ mdns_priv_netif_unregister_predefined_handlers \/ Ends \/ Service \/ Others
      BY <2>2 DEF Next
    <3> QED BY <3>2, <3>3, <3>4, <3>5, <3>6, <3>7, <3>8, <3>9, <3>10 DEF MdnsInit, Ends, Others, InitStep
  <2> QED BY <2>1, <2>2
<1> QED BY <1>1, <1>2, PTL DEF Spec

-----------------------------------------------------------------------------
(* Whatever is used after its end is used for one of the reasons that       *)
(* FaultsHaveCauses lists, at whatever moment of mdns_init and mdns_free    *)
(* queries are asked and sent: in every other order in which mdns_free, the *)
(* task, the timer, the event loop, lwIP and the callers take their steps,  *)
(* what the clean-up in mdns_service.c frees is there and is freed once.    *)
THEOREM FaultsAreCaused == Spec => []FaultsHaveCauses
<1>1. IInv => FaultsHaveCauses
  BY DEF IInv
<1> QED BY <1>1, Invariance, PTL

(* When mdns_free has returned, or mdns_init has failed, nothing is left    *)
(* but the handlers of an init that could not have the task, the actions    *)
(* that were lost for a reason NothingLeft names, the searches in these and *)
(* the one that a caller is about to send.                                  *)
THEOREM NothingIsLeft == Spec => []NothingLeft
<1>1. IInv => NothingLeft
  <2> SUFFICES ASSUME IInv, main = "DOWN", fault = None PROVE NothingLeft
    BY DEF NothingLeft
  <2>1. queue = <<>> /\ taken = <<>> /\ chain = <<>> /\ tx = <<>>
    BY DEF IInv, Sound, Typed, Built, HeapIsKept, Running, Ending, Emptying, Queueless
  <2>2. InUse = {} /\ ToSet(chain) = {} /\ Added = {}
    BY <2>1, NothingAdded DEF InUse, ToSet, Packets
  <2>3. live \subseteq Lost \cup {asking} /\ caller \in Lost \cup {None}
    BY <2>2 DEF IInv, Sound, HeapIsKept, Owned, Asked
  <2> QED BY <2>3 DEF IInv, Sound, Built, Causes, LossHasCause, NothingLeft, Running, Queueless
<1> QED BY <1>1, Invariance, PTL

(* What is allocated is at every step a search about to be sent, in an ADD, *)
(* in the chain or in an ADD that was lost, or a packet in the list, each   *)
(* in one place only: a step may lose a search with its ADD, but none leaks *)
(* a search or a packet otherwise, and what a late callback pushed, or the  *)
(* task left, dangles only while the queue and the lists are freed.         *)
THEOREM HeapIsExact == Spec => [](fault = None => HeapIsKept)
<1>1. IInv => (fault = None => HeapIsKept)
  BY DEF IInv, Sound
<1> QED BY <1>1, Invariance, PTL

(* Behind the stop come only packets, events and the searches of queries,   *)
(* and what a timer callback pushes that was under way when the timer was   *)
(* stopped: a packet to send, or a search to send or to end, of which the   *)
(* clean-up would have to know whether it is still there.                   *)
THEOREM NothingBehindTheStop == Spec => [](fault = None => StopIsLast)
<1>1. IInv => (fault = None => StopIsLast)
  BY DEF IInv, Sound
<1> QED BY <1>1, Invariance, PTL
=============================================================================
