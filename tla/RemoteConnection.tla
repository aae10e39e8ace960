-------------------------- MODULE RemoteConnection --------------------------
(***************************************************************************)
(* GoogleTvRemote (src/src/GoogleIP_Remote.cpp): the object that keeps one  *)
(* TLS session to one TV, first to the remote-control port, and when that   *)
(* fails to the pairing port.  The main task calls loopRemoteConnection()   *)
(* every 500 ms and the public methods between two calls; a call is split   *)
(* here only where the code blocks or where one of its callees starts, so   *)
(* that the TV and the network act in between.                              *)
(*                                                                          *)
(* The TV, lwIP and wolfSSL are the environment: they answer, stay silent,  *)
(* refuse, close or lose power at any step.                                 *)
(***************************************************************************)
EXTENDS Integers

CONSTANTS
    FD,         \* the socket descriptors lwIP can hand out
    NoFD,       \* the value -1 of sockFD
    MaxUnread,  \* how many TLS records the receive window holds
    MaxStarts   \* bound: how often connectToTV is called

ASSUME FDAssumption == NoFD \notin FD
ASSUME MaxUnreadAssumption == MaxUnread \in Nat \ {0}
ASSUME MaxStartsAssumption == MaxStarts \in Nat

VARIABLES
    API_state,       \* RemoteMode
    connectRetries,  \* connection attempts since the last reset
    is_paired,
    tvInit,          \* TRUE when the ip of the chosen TV is not empty
    ctx,             \* "null", "bare" (certificate or I/O callbacks missing), "loaded"
    ssl,             \* "null" or "session"
    sockFD,
    readDataCunks,   \* how far the received packet is from being complete
    message,         \* the unpacked pairing message loopRemoteConnection acts on
    port,            \* the port of the last makeSSLConnectBase
    pc,              \* where the main task stands
    openFDs,         \* sockets lwIP holds open for this object
    ctxLive,         \* WOLFSSL_CTX objects allocated and not freed
    sslLive,         \* WOLFSSL objects allocated and not freed
    link,            \* the connection behind sockFD as lwIP and the TV know it
    tvDown,          \* the TV is off the network
    starts           \* calls of connectToTV so far

supervisor == <<API_state, connectRetries>>
handles == <<ctx, ssl, sockFD, openFDs, ctxLive, sslLive>>
vars == <<API_state, connectRetries, is_paired, tvInit, ctx, ssl, sockFD,
          readDataCunks, message, port, pc, openFDs, ctxLive, sslLive, link, tvDown, starts>>

RemoteMode == {"STARTUP", "CONNECTED_TO_TV", "CONNECTED_TO_PAIRING", "INIT_WOL", "DISCONNECTED"}
Connected == {"CONNECTED_TO_TV", "CONNECTED_TO_PAIRING"}

(* What the branches of the pairing protocol tell apart: three of them only log. *)
PairingKinds == {"informational", "secret_ack", "status_ok"}

(* No byte yet; fewer bytes than the first byte announces; exactly as many; *)
(* more, and then no later byte can make the packet complete.               *)
BufferStates == {"empty", "partial", "full", "overrun"}

PCs == {"idle", "createCtx", "openSocket", "tcpWait", "newSession", "handshake", "select",
        "sendRequest", "unpack", "dispatch", "panicked"}

(* state: as seen by the TCP stack.  unread: TLS records in the receive     *)
(* buffer.                                                                  *)
Links == [state : {"none", "connecting", "failed", "open", "secure", "closed"},
          unread : 0..MaxUnread]
NoLink == [state |-> "none", unread |-> 0]
Readable == link.unread > 0

TypeOK ==
    /\ API_state \in RemoteMode
    /\ connectRetries \in Nat
    /\ is_paired \in BOOLEAN
    /\ tvInit \in BOOLEAN
    /\ ctx \in {"null", "bare", "loaded"}
    /\ ssl \in {"null", "session"}
    /\ sockFD \in FD \cup {NoFD}
    /\ readDataCunks \in BufferStates
    /\ message \in PairingKinds \cup {"none"}
    /\ port \in {"none", "remote", "pairing"}
    /\ pc \in PCs
    /\ openFDs \subseteq FD
    /\ ctxLive \in Nat
    /\ sslLive \in Nat
    /\ link \in Links
    /\ tvDown \in BOOLEAN
    /\ starts \in 0..MaxStarts

Init ==
    /\ API_state = "DISCONNECTED" /\ connectRetries = 0
    /\ is_paired = FALSE /\ tvInit = FALSE
    /\ ctx = "null" /\ ssl = "null" /\ sockFD = NoFD
    /\ readDataCunks = "empty" /\ message = "none"
    /\ port = "none" /\ pc = "idle"
    /\ openFDs = {} /\ ctxLive = 0 /\ sslLive = 0 /\ link = NoLink
    /\ tvDown = FALSE /\ starts = 0

-----------------------------------------------------------------------------
(* Helpers: the methods that the handlers call                              *)

(* Faulty variants of definitions stand before the definition they vary and *)
(* are named Bug...; no action uses them.                                   *)
BugFreeSSLWithoutNullCheck == ssl' = "null" /\ sslLive' = sslLive - 1

FreeSSL ==
    /\ ssl' = "null"
    /\ sslLive' = IF ssl # "null" THEN sslLive - 1 ELSE sslLive

FreeCtx ==
    /\ ctx' = "null"
    /\ ctxLive' = IF ctx # "null" THEN ctxLive - 1 ELSE ctxLive

BugCloseSocketForgetsFD ==
    /\ sockFD' = NoFD
    /\ link' = NoLink
    /\ UNCHANGED openFDs

CloseSocket ==
    /\ sockFD' = NoFD
    /\ openFDs' = openFDs \ {sockFD}
    /\ link' = NoLink

BugDisconnectKeepsSSL == UNCHANGED <<ssl, sslLive>> /\ FreeCtx /\ CloseSocket

(* disconnect(): API_state, the retries and the receive buffer are kept.    *)
disconnect == FreeSSL /\ FreeCtx /\ CloseSocket

KeepSession == UNCHANGED <<handles, link>>

(* The early returns of makeSSLConnectBase.                                 *)
MayConnect(fd) == tvInit /\ fd = NoFD

BeginConnect(p) == pc' = "createCtx" /\ port' = p

BugConnectFailsForgetsAttempts ==
    /\ disconnect
    /\ pc' = "idle"
    /\ API_state' = IF port = "remote" THEN "CONNECTED_TO_TV" ELSE "INIT_WOL"
    /\ connectRetries' = IF port = "remote" THEN connectRetries ELSE 0
    /\ UNCHANGED <<is_paired, tvInit, readDataCunks, message, port, tvDown, starts>>

(* Every failing return of makeSSLConnectBase and connectTCPHandshake has   *)
(* disconnected.  The caller for the remote port ignores the result; the    *)
(* caller for the pairing port goes on to wake the TV up.                   *)
ConnectFails ==
    /\ disconnect
    /\ pc' = "idle"
    /\ API_state' = IF port = "remote" THEN "CONNECTED_TO_TV" ELSE "INIT_WOL"
    /\ UNCHANGED <<connectRetries, is_paired, tvInit, readDataCunks, message, port, tvDown, starts>>

ConnectSucceeds ==
    /\ IF port = "remote"
       THEN pc' = "idle" /\ API_state' = "CONNECTED_TO_TV"
       ELSE pc' = "sendRequest" /\ UNCHANGED API_state
    /\ UNCHANGED <<connectRetries, is_paired, tvInit, handles, readDataCunks, message, port, tvDown, starts>>

(* Restarts from the remote port, with a fresh count of attempts.           *)
RestartFresh == API_state' = "STARTUP" /\ connectRetries' = 0

Idle == pc = "idle"

-----------------------------------------------------------------------------
(* The public methods, called by the main task between two loop calls       *)

ConnectToTV(ip) ==
    /\ Idle
    /\ starts < MaxStarts
    /\ starts' = starts + 1
    /\ tvInit' = ip
    /\ RestartFresh
    /\ KeepSession
    /\ UNCHANGED <<is_paired, readDataCunks, message, port, pc, tvDown>>

UserDisconnect ==
    /\ Idle
    /\ disconnect
    /\ UNCHANGED <<supervisor, is_paired, tvInit, readDataCunks, message, port, pc, tvDown, starts>>

UnPair ==
    /\ Idle
    /\ is_paired' = FALSE
    /\ KeepSession
    /\ UNCHANGED <<supervisor, tvInit, readDataCunks, message, port, pc, tvDown, starts>>

(* isConnected() peeks at the socket: an end of stream or a hard error      *)
(* disconnects, and leaves API_state as it was.                             *)
IsConnected ==
    /\ Idle
    /\ sockFD # NoFD
    /\ link.state = "closed" /\ ~Readable
    /\ disconnect
    /\ UNCHANGED <<supervisor, is_paired, tvInit, readDataCunks, message, port, pc, tvDown, starts>>

-----------------------------------------------------------------------------
(* loopRemoteConnection(), by API_state                                     *)

LoopDisconnected ==
    /\ Idle /\ API_state = "DISCONNECTED"
    /\ disconnect
    /\ connectRetries' = 0
    /\ UNCHANGED <<API_state, is_paired, tvInit, readDataCunks, message, port, pc, tvDown, starts>>

LoopStartup ==
    /\ Idle /\ API_state = "STARTUP"
    /\ disconnect
    /\ connectRetries' = connectRetries + 1
    /\ \/ /\ connectRetries' > 3
          /\ API_state' = "DISCONNECTED"
          /\ UNCHANGED <<port, pc>>
       \/ /\ connectRetries' <= 3
          /\ ~MayConnect(sockFD')
          /\ API_state' = "CONNECTED_TO_TV"
          /\ UNCHANGED <<port, pc>>
       \/ /\ connectRetries' <= 3
          /\ MayConnect(sockFD')
          /\ BeginConnect("remote")
          /\ UNCHANGED API_state
    /\ UNCHANGED <<is_paired, tvInit, readDataCunks, message, tvDown, starts>>

(* A request to the cast port that may switch the TV on; its result is ignored. *)
wakeUpTV == tvDown' \in {tvDown, FALSE}

BugLoopInitWolResetsRetries ==
    /\ Idle /\ API_state = "INIT_WOL"
    /\ RestartFresh
    /\ wakeUpTV
    /\ KeepSession
    /\ UNCHANGED <<is_paired, tvInit, readDataCunks, message, port, pc, starts>>

LoopInitWol ==
    /\ Idle /\ API_state = "INIT_WOL"
    /\ API_state' = "STARTUP"
    /\ wakeUpTV
    /\ KeepSession
    /\ UNCHANGED <<connectRetries, is_paired, tvInit, readDataCunks, message, port, pc, starts>>

(* wolfSSL_read returns no application byte: there is no session, the       *)
(* socket would block, the peer closed, or what was waiting was not data.   *)
LoopReadFailsPairing ==
    /\ Idle /\ API_state = "CONNECTED_TO_PAIRING"
    /\ disconnect
    /\ RestartFresh
    /\ UNCHANGED <<is_paired, tvInit, readDataCunks, message, port, pc, tvDown, starts>>

LoopReadFailsRemote ==
    /\ Idle /\ API_state = "CONNECTED_TO_TV"
    /\ disconnect
    /\ IF MayConnect(sockFD')
       THEN BeginConnect("pairing") /\ UNCHANGED API_state
       ELSE API_state' = "INIT_WOL" /\ UNCHANGED <<port, pc>>
    /\ UNCHANGED <<connectRetries, is_paired, tvInit, readDataCunks, message, tvDown, starts>>

(* wolfSSL_read returns up to 80 bytes, which complete a packet or not.     *)
LoopReadsData ==
    /\ Idle /\ API_state \in Connected
    /\ ssl # "null" /\ Readable
    /\ link' = [link EXCEPT !.unread = @ - 1]
    /\ \/ readDataCunks' \in {"partial", "overrun"} /\ readDataCunks # "overrun" /\ UNCHANGED pc
       \/ readDataCunks = "overrun" /\ UNCHANGED <<readDataCunks, pc>>
       \/ readDataCunks # "overrun" /\ readDataCunks' = "full" /\ pc' = "unpack"
    /\ UNCHANGED <<supervisor, is_paired, tvInit, handles, message, port, tvDown, starts>>

(* unpack_paring_message and unpack_remote_message hand pb_decode the       *)
(* address of their local pointer, so that the decoder writes over the      *)
(* pointer and the stack behind it.  What comes back is undefined: NULL     *)
(* when zeros land on the pointer, a bad address on which the chip panics,  *)
(* or an address at which the flags of any message may stand.               *)
Panics ==
    /\ pc' = "panicked"
    /\ UNCHANGED <<supervisor, is_paired, tvInit, handles, readDataCunks, message, port, link, tvDown, starts>>

UnpackPanics == pc = "unpack" /\ Panics

(* A NULL message and every message of the remote protocol are dropped.     *)
UnpackDrops ==
    /\ pc = "unpack"
    /\ readDataCunks' = "empty"
    /\ pc' = "idle"
    /\ KeepSession
    /\ UNCHANGED <<supervisor, is_paired, tvInit, message, port, tvDown, starts>>

BugUnpackPairingInAnyMode ==
    /\ pc = "unpack"
    /\ message' \in PairingKinds
    /\ pc' = "dispatch"
    /\ KeepSession
    /\ UNCHANGED <<supervisor, is_paired, tvInit, readDataCunks, port, tvDown, starts>>

UnpackPairing ==
    /\ pc = "unpack" /\ API_state = "CONNECTED_TO_PAIRING"
    /\ message' \in PairingKinds
    /\ pc' = "dispatch"
    /\ KeepSession
    /\ UNCHANGED <<supervisor, is_paired, tvInit, readDataCunks, port, tvDown, starts>>

(* The end of every branch but one: the message is released, the buffer cleared. *)
BugMessageDoneKeepsBuffer ==
    /\ pc' = "idle"
    /\ message' = "none"
    /\ KeepSession
    /\ UNCHANGED <<readDataCunks, tvInit, port, tvDown, starts>>

MessageDone ==
    /\ pc' = "idle"
    /\ readDataCunks' = "empty"
    /\ message' = "none"
    /\ KeepSession
    /\ UNCHANGED <<tvInit, port, tvDown, starts>>

HandleInformational ==
    /\ pc = "dispatch" /\ message = "informational"
    /\ MessageDone
    /\ UNCHANGED <<supervisor, is_paired>>

BugHandleSecretAckSkipsStartup ==
    /\ pc = "dispatch" /\ message = "secret_ack"
    /\ is_paired' = TRUE
    /\ API_state' = "CONNECTED_TO_TV" /\ connectRetries' = 0
    /\ MessageDone

HandleSecretAck ==
    /\ pc = "dispatch" /\ message = "secret_ack"
    /\ is_paired' = TRUE
    /\ RestartFresh
    /\ MessageDone

(* The option message holds no pairing request, and pack_message measures   *)
(* the two names of the request it holds: strlen(NULL).                     *)
HandleStatusOk ==
    /\ pc = "dispatch" /\ message = "status_ok"
    /\ Panics

-----------------------------------------------------------------------------
(* makeSSLConnectBase, from its first blocking callee to its return         *)

(* createSSLCtx: its result is ignored.  The certificate side of it is      *)
(* module SelfCertificate.                                                  *)
CreateSSLCtx ==
    /\ pc = "createCtx"
    /\ ctx' \in {"null", "bare", "loaded"}
    /\ ctxLive' = (IF ctx # "null" THEN ctxLive - 1 ELSE ctxLive)
                    + (IF ctx' # "null" THEN 1 ELSE 0)
    /\ pc' = "openSocket"
    /\ UNCHANGED <<supervisor, is_paired, tvInit, ssl, sockFD, readDataCunks, message, port,
                   openFDs, sslLive, link, tvDown, starts>>

(* connectTCPHandshake, up to the wait for the connection.                  *)
OpenSocket ==
    /\ pc = "openSocket"
    /\ \E fd \in FD \ openFDs :
         /\ sockFD' = fd
         /\ openFDs' = openFDs \cup {fd}
    /\ link' = [NoLink EXCEPT !.state = "connecting"]
    /\ pc' = "tcpWait"
    /\ UNCHANGED <<supervisor, is_paired, tvInit, ctx, ssl, readDataCunks, message, port,
                   ctxLive, sslLive, tvDown, starts>>

OpenSocketFails == pc = "openSocket" /\ ConnectFails

(* The select on the connecting socket returns when the connection stands   *)
(* or has failed; SO_ERROR tells the two apart.                             *)
TcpConnected ==
    /\ pc = "tcpWait"
    /\ link.state \in {"open", "closed"}
    /\ pc' = "newSession"
    /\ KeepSession
    /\ UNCHANGED <<supervisor, is_paired, tvInit, readDataCunks, message, port, tvDown, starts>>

TcpFails ==
    /\ pc = "tcpWait"
    /\ link.state \in {"failed", "closed"}
    /\ ConnectFails

NewSession ==
    /\ pc = "newSession"
    /\ ctx # "null"
    /\ ssl' = "session"
    /\ sslLive' = sslLive + 1
    /\ pc' = "handshake"
    /\ UNCHANGED <<supervisor, is_paired, tvInit, ctx, sockFD, readDataCunks, message, port,
                   openFDs, ctxLive, link, tvDown, starts>>

NewSessionFails == pc = "newSession" /\ ConnectFails

(* wolfSSL_connect wants to read: waitForSocket selects without a timeout.  *)
HandshakeWants ==
    /\ pc = "handshake"
    /\ link.state = "open"
    /\ link' = [link EXCEPT !.unread = 0]
    /\ pc' = "select"
    /\ UNCHANGED <<supervisor, is_paired, tvInit, handles, readDataCunks, message, port, tvDown, starts>>

SelectReturns ==
    /\ pc = "select"
    /\ Readable \/ link.state = "closed"
    /\ pc' = "handshake"
    /\ KeepSession
    /\ UNCHANGED <<supervisor, is_paired, tvInit, readDataCunks, message, port, tvDown, starts>>

HandshakeSucceeds ==
    /\ pc = "handshake"
    /\ link.state = "open" /\ Readable
    /\ \E left \in 0..(link.unread - 1) : link' = [link EXCEPT !.state = "secure", !.unread = left]
    /\ ConnectSucceeds

HandshakeFails ==
    /\ pc = "handshake"
    /\ Readable \/ link.state = "closed"
    /\ ConnectFails

(* The pairing request is sent, or wolfSSL_send fails: its int result is    *)
(* compared with a size_t, for which a negative error code is larger than   *)
(* every size, and only a count that is too small is noticed.               *)
SendRequest ==
    /\ pc = "sendRequest"
    /\ API_state' = "CONNECTED_TO_PAIRING"
    /\ connectRetries' = 0
    /\ pc' = "idle"
    /\ UNCHANGED <<is_paired, tvInit, handles, readDataCunks, message, port, link, tvDown, starts>>

SendRequestShort ==
    /\ pc = "sendRequest"
    /\ link.state = "closed"
    /\ disconnect
    /\ API_state' = "STARTUP"
    /\ pc' = "idle"
    /\ UNCHANGED <<connectRetries, is_paired, tvInit, readDataCunks, message, port, tvDown, starts>>

(* The panic handler restarts the chip: only the flash survives.            *)
Reboot ==
    /\ pc = "panicked"
    /\ API_state' = "DISCONNECTED" /\ connectRetries' = 0
    /\ is_paired' = FALSE /\ tvInit' = FALSE
    /\ ctx' = "null" /\ ssl' = "null" /\ sockFD' = NoFD
    /\ readDataCunks' = "empty" /\ message' = "none"
    /\ port' = "none" /\ pc' = "idle"
    /\ openFDs' = {} /\ ctxLive' = 0 /\ sslLive' = 0 /\ link' = NoLink
    /\ UNCHANGED <<tvDown, starts>>

-----------------------------------------------------------------------------
(* The TV and the network                                                   *)

device == <<API_state, connectRetries, is_paired, tvInit, handles, readDataCunks,
            message, port, pc, starts>>

TvAccepts ==
    /\ link.state = "connecting" /\ ~tvDown
    /\ link' = [link EXCEPT !.state = "open"]
    /\ UNCHANGED <<device, tvDown>>

(* Refused, unreachable, or no answer to any retransmitted SYN.             *)
NetFails ==
    /\ link.state = "connecting"
    /\ link' = [link EXCEPT !.state = "failed"]
    /\ UNCHANGED <<device, tvDown>>

TvSends ==
    /\ link.state \in {"open", "secure"} /\ ~tvDown /\ link.unread < MaxUnread
    /\ link' = [link EXCEPT !.unread = @ + 1]
    /\ UNCHANGED <<device, tvDown>>

LinkCloses ==
    /\ link.state \in {"open", "secure"}
    /\ link' = [link EXCEPT !.state = "closed"]
    /\ UNCHANGED <<device, tvDown>>

TvPower == tvDown' = ~tvDown /\ UNCHANGED <<device, link>>

-----------------------------------------------------------------------------
UserCall == (\E ip \in BOOLEAN : ConnectToTV(ip)) \/ UserDisconnect \/ UnPair \/ IsConnected

LoopCall == LoopDisconnected \/ LoopStartup \/ LoopInitWol
              \/ LoopReadFailsPairing \/ LoopReadFailsRemote \/ LoopReadsData

LoopContinues ==
    \/ UnpackPanics \/ UnpackDrops \/ UnpackPairing
    \/ HandleInformational \/ HandleSecretAck \/ HandleStatusOk
    \/ CreateSSLCtx \/ OpenSocket \/ OpenSocketFails \/ TcpConnected \/ TcpFails
    \/ NewSession \/ NewSessionFails
    \/ HandshakeWants \/ SelectReturns \/ HandshakeSucceeds \/ HandshakeFails
    \/ SendRequest \/ SendRequestShort
    \/ Reboot

MainTask == LoopCall \/ LoopContinues

Environment == TvAccepts \/ NetFails \/ TvSends \/ LinkCloses \/ TvPower

Next == UserCall \/ MainTask \/ Environment

Spec == Init /\ [][Next]_vars

(* The main task runs for(;;) with a 500 ms delay; lwIP gives up on a SYN   *)
(* nobody answers, and SO_KEEPALIVE ends a connection to a host that has    *)
(* left.  Nothing is assumed of the TV.                                     *)
Fairness ==
    /\ WF_vars(MainTask)
    /\ WF_vars(NetFails)
    /\ WF_vars(tvDown /\ LinkCloses)

FairSpec == Spec /\ Fairness

-----------------------------------------------------------------------------
(* Safety                                                                   *)

(* Every socket, context and session that was allocated and not freed is    *)
(* the one the object still points to: over all failing connects, reads and *)
(* reconnects nothing is lost (disconnect, makeSSLConnectBase).             *)
NothingLeaks ==
    /\ openFDs = {sockFD} \ {NoFD}
    /\ ctxLive = IF ctx = "null" THEN 0 ELSE 1
    /\ sslLive = IF ssl = "null" THEN 0 ELSE 1

(* A TLS session stands on a live context and a live socket: nothing reads, *)
(* writes or selects through a freed object (wolfSSL_free before            *)
(* wolfSSL_CTX_free before close).                                          *)
SessionIsBacked == ssl # "null" => ctx # "null" /\ sockFD # NoFD

(* While the object waits for the user or for the TV to wake up it holds    *)
(* none of the chip's few sockets and TLS buffers, also in the loop call    *)
(* that gives up.                                                           *)
QuietModesHoldNothing ==
    API_state \in {"DISCONNECTED", "INIT_WOL"} => ctx = "null" /\ ssl = "null" /\ sockFD = NoFD

(* Between two calls of the main task, the mode by which received packets   *)
(* are interpreted is that of the port the session was made to.             *)
SessionMatchesMode ==
    Idle /\ sockFD # NoFD =>
        /\ API_state = "CONNECTED_TO_TV" => port = "remote" /\ ssl # "null"
        /\ API_state = "CONNECTED_TO_PAIRING" => port = "pairing" /\ ssl # "null"

(* There is never a fourth attempt to connect without a reset in between.   *)
RetriesBounded ==
    /\ connectRetries <= 4
    /\ API_state # "DISCONNECTED" => connectRetries <= 3

(* The device believes it is paired only after a message that came over a   *)
(* live session to the pairing port, while it was in pairing mode.          *)
PairedOnlyByPairingSession ==
    [][~is_paired /\ is_paired' =>
          API_state = "CONNECTED_TO_PAIRING" /\ port = "pairing" /\ ssl # "null"]_vars

(* Liveness: when the TV stays off, the object stops trying, for good.      *)
(* (MaxStarts ends the calls of connectToTV; waking the TV up fails.)       *)
GivesUp == <>[]tvDown => <>[](API_state = "DISCONNECTED")

-----------------------------------------------------------------------------
(* What the object promises about its attempts: module ConnectSupervisor.   *)
(* The attempt counts from the loop call that starts it.                    *)
Supervisor == INSTANCE ConnectSupervisor WITH
    phase <- IF API_state = "STARTUP" /\ pc # "idle" /\ port = "remote"
             THEN "CONNECTED_TO_TV" ELSE API_state,
    attempts <- IF API_state = "DISCONNECTED" THEN 0 ELSE connectRetries

(* The receive buffer, whose bytes are in module PacketFraming.             *)
Buffer == INSTANCE PacketBuffer WITH fill <- readDataCunks

(* The buffer only fills up to a packet and is emptied, across disconnects  *)
(* and reconnects; one that overran is left so until the chip restarts.     *)
BufferMoves == [][Buffer!Next \/ pc = "panicked"]_readDataCunks

(* The object implements the supervisor.                                    *)
Supervises == Supervisor!Spec

-----------------------------------------------------------------------------
(* What the comments of the source say and the code does not do             *)

(* "ok we need to be in paring mode we are not paired and this is the       *)
(* initial connecction".                                                    *)
PairedStaysOnRemotePort ==
    [][pc' = "createCtx" /\ port' = "pairing" /\ pc = "idle" => ~is_paired]_vars
=============================================================================
