------------------------------ MODULE Discovery ------------------------------
(***************************************************************************)
(* scanForTvs and getMacFromIp (src/src/GoogleIP_Remote.cpp): three rounds  *)
(* of two mDNS queries, one for the TVs and one for what Chromecast says of *)
(* them.  The network answers each query with what it likes, in any order:  *)
(* hosts come and go, take over each other's address or have none.          *)
(***************************************************************************)
EXTENDS Naturals, Sequences, SequencesExt

CONSTANTS
    Host,        \* host names of TVs
    Ip,          \* addresses, that of a host without one included
    Name,        \* friendly names
    NoName,      \* no friendly name
    MaxAnswers,  \* bound: answers to one query
    MaxScans     \* bound: calls of scanForTvs

ASSUME NoNameAssumption == NoName \notin Name
ASSUME BoundsAssumption == MaxAnswers \in Nat /\ MaxScans \in Nat

VARIABLES
    tvList,
    f,          \* the round
    query,
    answers,    \* the answers to the last query not looked at yet
    heard,      \* the answers of this scan
    scans

scanVars == <<tvList, f, query, answers, heard, scans>>

Rounds == 3

TvAnswers == [hostName : Host, ip : Ip]
CastAnswers == [ip : Ip, friendlyName : Name \cup {NoName}]
DiscoveredTv ==
    [hostName : Host, ip : Ip, ipMac : {"mac", "UNKNOWN"}, friendlyName : Name \cup {NoName}]

ScanTypeOK ==
    /\ tvList \in Seq(DiscoveredTv)
    /\ f \in 0..Rounds
    /\ query \in {"start", "browseTv", "tv", "browseCast", "cast", "done"}
    /\ answers \in Seq(TvAnswers) \cup Seq(CastAnswers)
    /\ heard \subseteq TvAnswers \cup CastAnswers
    /\ scans \in 0..MaxScans

ScanInit ==
    /\ tvList = <<>> /\ f = 0 /\ query = "start" /\ answers = <<>>
    /\ heard = {} /\ scans = 0

scanForTvs ==
    /\ query \in {"start", "done"} /\ scans < MaxScans
    /\ scans' = scans + 1
    /\ tvList' = <<>> /\ f' = 0 /\ heard' = {}
    /\ query' = "browseTv"
    /\ UNCHANGED answers

(* MDNS.queryService: the hosts that answer are each listed once.           *)
BrowseTv ==
    /\ query = "browseTv" /\ query' = "tv"
    /\ answers' \in {a \in BoundedSeq(TvAnswers, MaxAnswers) :
                        \A i, j \in DOMAIN a : a[i].hostName = a[j].hostName => i = j}
    /\ heard' = heard \cup {answers'[i] : i \in DOMAIN answers'}
    /\ UNCHANGED <<tvList, f, scans>>

BrowseCast ==
    /\ query = "browseCast" /\ query' = "cast"
    /\ answers' \in BoundedSeq(CastAnswers, MaxAnswers)
    /\ heard' = heard \cup {answers'[i] : i \in DOMAIN answers'}
    /\ UNCHANGED <<tvList, f, scans>>

(* getMacFromIp asks the ARP table, makes it ask the network, and asks it   *)
(* again.                                                                   *)
getMacFromIp(found, foundAfterProbe) == IF found \/ foundAfterProbe THEN "mac" ELSE "UNKNOWN"

BugListed(tv) == \E i \in DOMAIN tvList : tvList[i].hostName = tv.hostName

Listed(tv) == \E i \in DOMAIN tvList : tvList[i].ip = tv.ip

AddTv(tv) == IF Listed(tv) THEN tvList ELSE Append(tvList, tv)

ResolveTv ==
    /\ query = "tv" /\ answers # <<>>
    /\ \E found, foundAfterProbe \in BOOLEAN :
        tvList' = AddTv([hostName |-> Head(answers).hostName, ip |-> Head(answers).ip,
                         ipMac |-> getMacFromIp(found, foundAfterProbe), friendlyName |-> NoName])
    /\ answers' = Tail(answers)
    /\ UNCHANGED <<f, query, heard, scans>>

BugFirstWithIp(ip) == {1} \cap DOMAIN tvList

(* The loop breaks at the first entry with the address.                     *)
FirstWithIp(ip) ==
    {i \in DOMAIN tvList : tvList[i].ip = ip /\ \A j \in 1..i - 1 : tvList[j].ip # ip}

ResolveCast ==
    /\ query = "cast" /\ answers # <<>>
    /\ LET answer == Head(answers)
       IN  tvList' = [i \in DOMAIN tvList |->
                        IF i \in FirstWithIp(answer.ip) /\ answer.friendlyName # NoName
                        THEN [tvList[i] EXCEPT !.friendlyName = answer.friendlyName]
                        ELSE tvList[i]]
    /\ answers' = Tail(answers)
    /\ UNCHANGED <<f, query, heard, scans>>

NextQuery ==
    /\ answers = <<>>
    /\ \/ query = "tv" /\ query' = "browseCast" /\ UNCHANGED f
       \/ /\ query = "cast"
          /\ f' = f + 1
          /\ query' = IF f' < Rounds THEN "browseTv" ELSE "done"
    /\ UNCHANGED <<tvList, answers, heard, scans>>

ScanNext == scanForTvs \/ BrowseTv \/ BrowseCast \/ ResolveTv \/ ResolveCast \/ NextQuery

ScanSpec == ScanInit /\ [][ScanNext]_scanVars

-----------------------------------------------------------------------------
(* Properties                                                               *)

(* No address is listed twice, however often the three rounds hear it and   *)
(* under however many host names (scanForTvs).                              *)
OneEntryPerIp == \A i, j \in DOMAIN tvList : tvList[i].ip = tvList[j].ip => i = j

(* Every address from which a TV answered is listed, and every entry has an *)
(* address and a host name that came in one answer.                         *)
HeardIsListed ==
    LET entries == {[hostName |-> tvList[i].hostName, ip |-> tvList[i].ip] : i \in DOMAIN tvList}
    IN  query = "done" =>
          /\ {a.ip : a \in heard \cap TvAnswers} = {e.ip : e \in entries}
          /\ entries \subseteq heard

(* A friendly name stands only in the entry of an address it was announced  *)
(* for.                                                                     *)
NameFollowsIp ==
    \A i \in DOMAIN tvList : tvList[i].friendlyName # NoName =>
        [ip |-> tvList[i].ip, friendlyName |-> tvList[i].friendlyName] \in heard

(* The list of a scan only grows at its end: the TV that was first, the one *)
(* main connects to, stays first with its host, whatever later rounds and   *)
(* the Chromecast answers bring.                                            *)
FirstStaysFirst ==
    [][tvList # <<>> /\ query # "done" =>
         tvList' # <<>> /\ tvList'[1].ip = tvList[1].ip
                        /\ tvList'[1].hostName = tvList[1].hostName]_scanVars
=============================================================================
