---------------------------- MODULE PacketFraming ----------------------------
(***************************************************************************)
(* How loopRemoteConnection (src/src/GoogleIP_Remote.cpp) cuts what it      *)
(* reads into packets.  A packet is its payload behind one byte that says   *)
(* how long the payload is.  Each call reads at most ReadSize bytes of one  *)
(* TLS record, appends them to readDataCunks, and hands the whole buffer on *)
(* when its first byte is one less than its size.  The TV may put a packet  *)
(* into one record or two, and several packets into one record; a session   *)
(* may end at any time, and disconnect() leaves the buffer alone.           *)
(***************************************************************************)
EXTENDS Integers, Sequences, SequencesExt

CONSTANTS
    Byte,         \* the values of a byte that matter
    ReadSize,     \* the size of buffer: 80
    MaxPackets,   \* bound: packets the TV sends
    MaxSessions   \* bound: sessions, one after the other

ASSUME ByteAssumption == Byte \subseteq Nat
ASSUME ReadSizeAssumption == ReadSize \in Nat \ {0}
ASSUME MaxPacketsAssumption == MaxPackets \in Nat
ASSUME MaxSessionsAssumption == MaxSessions \in Nat \ {0}

VARIABLES
    sent,           \* the packets the TV has sent, in order
    records,        \* the TLS records not read yet, the first one perhaps in part
    readDataCunks,  \* the bytes received and not dispatched
    dispatched,     \* the buffers that were handed on as packets
    sessions        \* sessions so far

vars == <<sent, records, readDataCunks, dispatched, sessions>>

(* All bytes of a payload have one value: that is enough to mistake one for *)
(* a length.                                                                *)
Packet(len, value) == <<len>> \o [i \in 1..len |-> value]

IsWhole(buffer) == buffer # <<>> /\ buffer[1] = Len(buffer) - 1

Init ==
    /\ sent = <<>> /\ records = <<>> /\ readDataCunks = <<>> /\ dispatched = <<>>
    /\ sessions = 1

-----------------------------------------------------------------------------
(* The TV                                                                   *)

Sends(packets) ==
    /\ Len(sent) + Len(packets) <= MaxPackets
    /\ sent' = sent \o packets
    /\ UNCHANGED <<readDataCunks, dispatched, sessions>>

SendWhole ==
    \E len, value \in Byte :
        Sends(<<Packet(len, value)>>) /\ records' = Append(records, Packet(len, value))

SendLengthFirst ==
    \E len, value \in Byte :
        /\ len > 0
        /\ Sends(<<Packet(len, value)>>)
        /\ records' = records \o <<<<len>>, [i \in 1..len |-> value]>>

SendTogether ==
    \E len1, value1, len2, value2 \in Byte :
        /\ Sends(<<Packet(len1, value1), Packet(len2, value2)>>)
        /\ records' = Append(records, Packet(len1, value1) \o Packet(len2, value2))

(* The next session starts with the bytes the last one left behind.         *)
SessionLost ==
    /\ sessions < MaxSessions
    /\ sessions' = sessions + 1
    /\ records' = <<>>
    /\ UNCHANGED <<sent, readDataCunks, dispatched>>

-----------------------------------------------------------------------------
(* One call of loopRemoteConnection                                         *)

(* What wolfSSL_read returns and what it leaves of a record.                *)
Chunk(record) == IF Len(record) <= ReadSize THEN record ELSE SubSeq(record, 1, ReadSize)
Rest(record) ==
    IF Len(record) <= ReadSize THEN <<>> ELSE <<SubSeq(record, ReadSize + 1, Len(record))>>

BugDispatchCountsLength(buffer) ==
    IF buffer # <<>> /\ buffer[1] = Len(buffer)
    THEN readDataCunks' = <<>> /\ dispatched' = Append(dispatched, buffer)
    ELSE readDataCunks' = buffer /\ UNCHANGED dispatched

BugDispatchKeepsBuffer(buffer) ==
    /\ readDataCunks' = buffer
    /\ dispatched' = IF IsWhole(buffer) THEN Append(dispatched, buffer) ELSE dispatched

Dispatch(buffer) ==
    IF IsWhole(buffer)
    THEN readDataCunks' = <<>> /\ dispatched' = Append(dispatched, buffer)
    ELSE readDataCunks' = buffer /\ UNCHANGED dispatched

Read ==
    /\ records # <<>>
    /\ Dispatch(readDataCunks \o Chunk(Head(records)))
    /\ records' = Rest(Head(records)) \o Tail(records)
    /\ UNCHANGED <<sent, sessions>>

Next == SendWhole \/ SendLengthFirst \/ SendTogether \/ SessionLost \/ Read

Spec == Init /\ [][Next]_vars

(* The main task keeps calling while the session lasts.                     *)
FairSpec == Spec /\ WF_vars(Read)

-----------------------------------------------------------------------------
(* Properties                                                               *)

Fill(buffer) ==
    CASE buffer = <<>> -> "empty"
      [] buffer # <<>> /\ Len(buffer) <= buffer[1] -> "partial"
      [] IsWhole(buffer) -> "full"
      [] OTHER -> "overrun"

Buffer == INSTANCE PacketBuffer WITH fill <- Fill(readDataCunks)

(* The buffer moves as PacketBuffer says, whatever the TV sends and however *)
(* the sessions end: above all, once it holds more bytes than its first one *)
(* announces, no byte that follows and no new session makes it a packet.    *)
Buffers == Buffer!Spec

(* Until a session is lost the packets are handed on as they were sent,     *)
(* however they are cut into records and reads: none is cut short, merged   *)
(* with the next one, left out before a later one, or handed on twice       *)
(* (loopRemoteConnection, the comparison of the first byte with the size).  *)
InOrder == sessions = 1 => IsPrefix(dispatched, sent)

(* Every packet that is sent is handed on sooner or later, unless a session *)
(* is lost or a read brings more than the rest of a packet.                 *)
DispatchedUnlessOverrun ==
    <>(sessions > 1 \/ Fill(readDataCunks) = "overrun") \/ <>[](Len(dispatched) = Len(sent))

(* "remeber teh first byte is payload size so use that to make sure we have *)
(* the full packet read" (GoogleIP_Remote.cpp:329): every packet that is    *)
(* sent is read in full and handed on, sooner or later.                     *)
AllDispatched == <>[](Len(dispatched) = Len(sent))

(* The same comment: what is handed on is a full packet, one that was sent. *)
WholePackets == \A i \in DOMAIN dispatched : Contains(sent, dispatched[i])
=============================================================================
