--------------------------- MODULE PairingEncoding ---------------------------
(***************************************************************************)
(* The packet of the pairing request: pack_message and encodeMessegToSend   *)
(* (src/src/GoogleIP_Remote.cpp).  The request carries the name of the      *)
(* service and the host name of the device; what matters is how long they   *)
(* are.  A byte of the message other than the length byte is Data.          *)
(***************************************************************************)
EXTENDS Integers, Sequences

CONSTANTS
    ServiceName,  \* the length of service_name
    MaxHostname   \* bound: the length of the host name

ASSUME ServiceNameAssumption == ServiceName \in Nat
ASSUME MaxHostnameAssumption == MaxHostname \in Nat

VARIABLES
    client,   \* the length of client_name
    stage,
    message,  \* the encoded message, not yet behind its length
    packet    \* what is sent to the TV

encodingVars == <<client, stage, message, packet>>

Data == 0

(* protobuf: seven bits of a number per byte.                               *)
VarintSize(n) ==
    IF n < 128 THEN 1 ELSE
    IF n < 16384 THEN 2 ELSE
    IF n < 2097152 THEN 3 ELSE
    IF n < 268435456 THEN 4 ELSE 5

FieldSize(len) == 1 + VarintSize(len) + len

(* pairing_request with its two names.                                      *)
RequestSize(service, name) == FieldSize(service) + FieldSize(name)

(* protocol_version 2, status 200 and the request.                          *)
MessageSize(service, name) == 2 + 3 + FieldSize(RequestSize(service, name))

BugBufferSize(service, name) == service + name + 10

BufferSize(service, name) == service + name + 11

Encodes(service, name) == MessageSize(service, name) <= BufferSize(service, name)

Bytes(size) == [i \in 1..size |-> Data]

(* The buffer grows by a byte, the length is put before it, and the byte is *)
(* cut off again.                                                           *)
BugEncodeMessegToSend(data) == <<Len(data) % 256>> \o Append(data, 0)

encodeMessegToSend(data) ==
    SubSeq(<<Len(data) % 256>> \o Append(data, 0), 1, Len(data) + 1)

EncodingInit == client \in 0..MaxHostname /\ stage = "create" /\ message = <<>> /\ packet = <<>>

(* pack_message gives an empty packet when pb_encode fails.                 *)
Encode ==
    /\ stage = "create"
    /\ IF Encodes(ServiceName, client)
       THEN stage' = "encoded" /\ message' = Bytes(MessageSize(ServiceName, client))
       ELSE stage' = "packed" /\ UNCHANGED message
    /\ UNCHANGED <<client, packet>>

Pack ==
    /\ stage = "encoded"
    /\ packet' = encodeMessegToSend(message)
    /\ stage' = "packed"
    /\ UNCHANGED <<client, message>>

(* The next request is created from what the host name is then.             *)
Again ==
    /\ stage = "packed"
    /\ client' \in 0..MaxHostname
    /\ stage' = "create" /\ message' = <<>> /\ packet' = <<>>

EncodingNext == Encode \/ Pack \/ Again

EncodingSpec == EncodingInit /\ [][EncodingNext]_encodingVars

-----------------------------------------------------------------------------
(* Properties                                                               *)

(* A packet is the message behind one byte that holds its length: for no    *)
(* host name does the length wrap in its byte, and the packet is what the   *)
(* comparison of loopRemoteConnection takes for whole.                      *)
LengthIsHonest ==
    packet # <<>> => packet = <<Len(message)>> \o message /\ packet[1] = Len(packet) - 1

(* The eleven bytes pack_message adds to the names suffice exactly as long  *)
(* as the request inside needs one byte for its length: a longer host name  *)
(* gives an empty packet, never a packet that is cut off.                   *)
EncodesShortNames ==
    stage = "packed" => (packet # <<>> <=> RequestSize(ServiceName, client) < 128)
=============================================================================
