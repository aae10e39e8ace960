----------------------- MODULE RemoteConnection_proofs -----------------------
(* The safety of RemoteConnection for every set of descriptors and every    *)
(* receive window.                                                          *)
EXTENDS RemoteConnection, TLAPS

ConnectSteps == {"createCtx", "openSocket", "tcpWait", "newSession", "handshake", "select"}

(* Where the main task stands inside makeSSLConnectBase determines which    *)
(* handles exist: none, the socket, the socket and the session.             *)
HandlesInv ==
    /\ NothingLeaks
    /\ SessionIsBacked
    /\ pc \in {"createCtx", "openSocket"} => ssl = "null" /\ sockFD = NoFD
    /\ pc \in {"tcpWait", "newSession"} => ssl = "null" /\ sockFD # NoFD
    /\ pc \in {"handshake", "select", "sendRequest", "unpack", "dispatch"} => ssl # "null"

(* The mode, the port and the step agree, also while a call is under way.   *)
ModeInv ==
    /\ QuietModesHoldNothing
    /\ pc \in ConnectSteps => \/ port = "remote" /\ API_state = "STARTUP"
                              \/ port = "pairing" /\ API_state = "CONNECTED_TO_TV"
    /\ pc = "sendRequest" => port = "pairing" /\ API_state = "CONNECTED_TO_TV"
    /\ pc \in {"unpack", "dispatch"} => API_state \in Connected
    /\ pc = "dispatch" => API_state = "CONNECTED_TO_PAIRING"
    /\ pc \in {"idle", "unpack", "dispatch"} /\ sockFD # NoFD =>
         /\ API_state = "CONNECTED_TO_TV" => port = "remote" /\ ssl # "null"
         /\ API_state = "CONNECTED_TO_PAIRING" => port = "pairing" /\ ssl # "null"

IInv == TypeOK /\ HandlesInv /\ ModeInv /\ RetriesBounded

-----------------------------------------------------------------------------
(* The helpers                                                              *)

LEMMA NoLinkTyped == NoLink \in Links
  BY MaxUnreadAssumption DEF NoLink, Links

(* What holds after disconnect(), from any state that has leaked nothing.   *)
Freed ==
    /\ ctx' = "null" /\ ssl' = "null" /\ sockFD' = NoFD
    /\ openFDs' = {} /\ ctxLive' = 0 /\ sslLive' = 0
    /\ link' \in Links

LEMMA DisconnectFrees ==
  ASSUME TypeOK, NothingLeaks, disconnect
  PROVE  Freed
  <1>1. openFDs' = {}
    BY DEF NothingLeaks, disconnect, CloseSocket
  <1>2. ctxLive' = 0 /\ sslLive' = 0
    BY DEF NothingLeaks, disconnect, FreeSSL, FreeCtx
  <1>3. link' \in Links
    BY NoLinkTyped DEF disconnect, CloseSocket
  <1> QED
    BY <1>1, <1>2, <1>3 DEF Freed, disconnect, FreeSSL, FreeCtx, CloseSocket

LinkStates == {"none", "connecting", "failed", "open", "secure", "closed"}

LEMMA UnreadTyped ==
  ASSUME link \in Links
  PROVE  link.unread \in Int /\ 0 <= link.unread /\ link.unread <= MaxUnread
  BY MaxUnreadAssumption DEF Links

LEMMA StateUpdate ==
  ASSUME NEW l \in Links, NEW s \in LinkStates
  PROVE  [l EXCEPT !.state = s] \in Links
  BY DEF Links, LinkStates

LEMMA UnreadUpdate ==
  ASSUME link \in Links, NEW n \in 0..MaxUnread
  PROVE  /\ [link EXCEPT !.unread = n] \in Links
         /\ [link EXCEPT !.state = "secure", !.unread = n] \in Links
  BY DEF Links

-----------------------------------------------------------------------------
LEMMA InitIInv == Init => IInv
  <1> SUFFICES ASSUME Init PROVE IInv
    OBVIOUS
  <1>1. TypeOK
    <2>1. link \in Links /\ starts \in 0..MaxStarts
      BY NoLinkTyped, MaxStartsAssumption DEF Init
    <2> QED
      BY <2>1 DEF Init, TypeOK, RemoteMode, BufferStates, PCs
  <1>2. HandlesInv
    BY FDAssumption DEF Init, HandlesInv, NothingLeaks, SessionIsBacked
  <1>3. ModeInv /\ RetriesBounded
    BY DEF Init, ModeInv, QuietModesHoldNothing, RetriesBounded, ConnectSteps
  <1> QED
    BY <1>1, <1>2, <1>3 DEF IInv

-----------------------------------------------------------------------------
(* Every step preserves the invariant, by the part of Next it belongs to.   *)

LEMMA UserCallIInv ==
  ASSUME IInv, UserCall
  PROVE  IInv'
  <1> USE DEF IInv, TypeOK, HandlesInv, ModeInv, RetriesBounded, NothingLeaks, SessionIsBacked,
              QuietModesHoldNothing, ConnectSteps, Idle, supervisor, handles
  <1>1. ASSUME NEW ip \in BOOLEAN, ConnectToTV(ip) PROVE IInv'
    BY <1>1, MaxStartsAssumption DEF ConnectToTV, RestartFresh, KeepSession, RemoteMode
  <1>2. CASE UserDisconnect
    <2>1. Freed
      BY <1>2, DisconnectFrees DEF UserDisconnect
    <2> QED
      BY <1>2, <2>1 DEF UserDisconnect, Freed
  <1>3. CASE UnPair
    BY <1>3 DEF UnPair, KeepSession
  <1>4. CASE IsConnected
    <2>1. Freed
      BY <1>4, DisconnectFrees DEF IsConnected
    <2> QED
      BY <1>4, <2>1 DEF IsConnected, Freed
  <1> QED
    BY <1>1, <1>2, <1>3, <1>4 DEF UserCall

LEMMA LoopCallIInv ==
  ASSUME IInv, LoopCall
  PROVE  IInv'
  <1> USE DEF IInv, TypeOK, HandlesInv, ModeInv, RetriesBounded, NothingLeaks, SessionIsBacked,
              QuietModesHoldNothing, ConnectSteps, Idle, supervisor, handles
  <1>1. CASE LoopDisconnected
    <2>1. Freed
      BY <1>1, DisconnectFrees DEF LoopDisconnected
    <2> QED
      BY <1>1, <2>1 DEF LoopDisconnected, Freed
  <1>2. CASE LoopStartup
    <2>1. Freed
      BY <1>2, DisconnectFrees DEF LoopStartup
    <2>2. connectRetries \in 0..3 /\ connectRetries' = connectRetries + 1
      BY <1>2 DEF LoopStartup
    <2>3. TypeOK' /\ RetriesBounded'
      BY <1>2, <2>1, <2>2 DEF LoopStartup, Freed, BeginConnect, RemoteMode, PCs
    <2>4. HandlesInv'
      BY <1>2, <2>1 DEF LoopStartup, Freed, BeginConnect
    <2>5. ModeInv'
      BY <1>2, <2>1 DEF LoopStartup, Freed, BeginConnect
    <2> QED
      BY <2>3, <2>4, <2>5
  <1>3. CASE LoopInitWol
    BY <1>3 DEF LoopInitWol, wakeUpTV, KeepSession, RemoteMode
  <1>4. CASE LoopReadFailsPairing
    <2>1. Freed
      BY <1>4, DisconnectFrees DEF LoopReadFailsPairing
    <2> QED
      BY <1>4, <2>1 DEF LoopReadFailsPairing, Freed, RestartFresh, RemoteMode
  <1>5. CASE LoopReadFailsRemote
    <2>1. Freed
      BY <1>5, DisconnectFrees DEF LoopReadFailsRemote
    <2> QED
      BY <1>5, <2>1 DEF LoopReadFailsRemote, Freed, BeginConnect, RemoteMode, PCs
  <1>6. CASE LoopReadsData
    <2>1. link.unread - 1 \in 0..MaxUnread
      BY <1>6, UnreadTyped, MaxUnreadAssumption DEF LoopReadsData, Readable
    <2>2. link' \in Links
      BY <1>6, <2>1, UnreadUpdate DEF LoopReadsData
    <2> QED
      BY <1>6, <2>2 DEF LoopReadsData, Connected, BufferStates, PCs
  <1> QED
    BY <1>1, <1>2, <1>3, <1>4, <1>5, <1>6 DEF LoopCall

LEMMA ConnectFailsIInv ==
  ASSUME IInv, ConnectFails, pc \in ConnectSteps
  PROVE  IInv'
  <1> USE DEF IInv, TypeOK, HandlesInv, ModeInv, RetriesBounded, NothingLeaks, SessionIsBacked,
              QuietModesHoldNothing, ConnectSteps
  <1>1. Freed
    BY DisconnectFrees DEF ConnectFails
  <1> QED
    BY <1>1 DEF ConnectFails, Freed, RemoteMode, PCs

LEMMA MessageIInv ==
  ASSUME IInv,
         \/ UnpackPanics \/ UnpackDrops \/ UnpackPairing
         \/ HandleInformational \/ HandleSecretAck \/ HandleStatusOk
  PROVE  IInv'
  <1> USE DEF IInv, TypeOK, HandlesInv, ModeInv, RetriesBounded, NothingLeaks, SessionIsBacked,
              QuietModesHoldNothing, ConnectSteps, supervisor, handles, PCs, BufferStates
  <1>1. CASE UnpackPanics \/ HandleStatusOk
    BY <1>1 DEF UnpackPanics, HandleStatusOk, Panics
  <1>2. CASE UnpackDrops
    BY <1>2 DEF UnpackDrops, KeepSession, Connected
  <1>3. CASE UnpackPairing
    BY <1>3 DEF UnpackPairing, KeepSession, Connected
  <1>4. CASE HandleInformational
    BY <1>4 DEF HandleInformational, MessageDone, KeepSession, Connected
  <1>5. CASE HandleSecretAck
    BY <1>5 DEF HandleSecretAck, MessageDone, RestartFresh, KeepSession, RemoteMode
  <1> QED
    BY <1>1, <1>2, <1>3, <1>4, <1>5

LEMMA ConnectIInv ==
  ASSUME IInv,
         \/ CreateSSLCtx \/ OpenSocket \/ OpenSocketFails \/ TcpConnected \/ TcpFails
         \/ NewSession \/ NewSessionFails
  PROVE  IInv'
  <1> USE DEF IInv, TypeOK, HandlesInv, ModeInv, RetriesBounded, NothingLeaks, SessionIsBacked,
              QuietModesHoldNothing, ConnectSteps, supervisor, handles, PCs
  <1>1. CASE CreateSSLCtx
    BY <1>1 DEF CreateSSLCtx
  <1>2. CASE OpenSocket
    <2>1. PICK fd \in FD \ openFDs : sockFD' = fd /\ openFDs' = openFDs \cup {fd}
      BY <1>2 DEF OpenSocket
    <2>2. fd # NoFD /\ openFDs' = {fd}
      BY <1>2, <2>1, FDAssumption DEF OpenSocket
    <2>3. link' \in Links
      BY <1>2, NoLinkTyped, StateUpdate DEF OpenSocket, LinkStates
    <2>4. TypeOK'
      BY <1>2, <2>1, <2>2, <2>3 DEF OpenSocket
    <2>5. HandlesInv' /\ ModeInv' /\ RetriesBounded'
      BY <1>2, <2>1, <2>2 DEF OpenSocket
    <2> QED
      BY <2>4, <2>5
  <1>3. CASE OpenSocketFails \/ TcpFails \/ NewSessionFails
    BY <1>3, ConnectFailsIInv DEF OpenSocketFails, TcpFails, NewSessionFails
  <1>4. CASE TcpConnected
    BY <1>4 DEF TcpConnected, KeepSession
  <1>5. CASE NewSession
    BY <1>5 DEF NewSession
  <1> QED
    BY <1>1, <1>2, <1>3, <1>4, <1>5

LEMMA HandshakeIInv ==
  ASSUME IInv,
         HandshakeWants \/ SelectReturns \/ HandshakeSucceeds \/ HandshakeFails
  PROVE  IInv'
  <1> USE DEF IInv, TypeOK, HandlesInv, ModeInv, RetriesBounded, NothingLeaks, SessionIsBacked,
              QuietModesHoldNothing, ConnectSteps, supervisor, handles, PCs
  <1>1. CASE HandshakeWants
    <2>1. 0 \in 0..MaxUnread
      BY MaxUnreadAssumption
    <2>2. link' \in Links
      BY <1>1, <2>1, UnreadUpdate DEF HandshakeWants
    <2> QED
      BY <1>1, <2>2 DEF HandshakeWants
  <1>2. CASE SelectReturns
    BY <1>2 DEF SelectReturns, KeepSession
  <1>3. CASE HandshakeSucceeds
    <2>1. PICK left \in 0..(link.unread - 1) :
             link' = [link EXCEPT !.state = "secure", !.unread = left]
      BY <1>3 DEF HandshakeSucceeds
    <2>2. left \in 0..MaxUnread
      BY <2>1, UnreadTyped, MaxUnreadAssumption
    <2>3. link' \in Links
      BY <2>1, <2>2, UnreadUpdate
    <2> QED
      BY <1>3, <2>3 DEF HandshakeSucceeds, ConnectSucceeds, RemoteMode
  <1>4. CASE HandshakeFails
    BY <1>4, ConnectFailsIInv DEF HandshakeFails
  <1> QED
    BY <1>1, <1>2, <1>3, <1>4

LEMMA RequestIInv ==
  ASSUME IInv, SendRequest \/ SendRequestShort
  PROVE  IInv'
  <1> USE DEF IInv, TypeOK, HandlesInv, ModeInv, RetriesBounded, NothingLeaks, SessionIsBacked,
              QuietModesHoldNothing, ConnectSteps
  <1>1. CASE SendRequest
    BY <1>1 DEF SendRequest, RemoteMode, PCs, handles
  <1>2. CASE SendRequestShort
    <2>1. Freed
      BY <1>2, DisconnectFrees DEF SendRequestShort
    <2> QED
      BY <1>2, <2>1 DEF SendRequestShort, Freed, RemoteMode, PCs
  <1> QED
    BY <1>1, <1>2

LEMMA RebootIInv ==
  ASSUME IInv, Reboot
  PROVE  IInv'
  <1>1. TypeOK'
    BY NoLinkTyped DEF IInv, Reboot, TypeOK, RemoteMode, BufferStates, PCs
  <1>2. HandlesInv'
    BY FDAssumption DEF Reboot, HandlesInv, NothingLeaks, SessionIsBacked
  <1>3. ModeInv' /\ RetriesBounded'
    BY DEF Reboot, ModeInv, QuietModesHoldNothing, RetriesBounded, ConnectSteps
  <1> QED
    BY <1>1, <1>2, <1>3 DEF IInv

LEMMA EnvironmentIInv ==
  ASSUME IInv, Environment
  PROVE  IInv'
  <1> USE DEF IInv, TypeOK, HandlesInv, ModeInv, RetriesBounded, NothingLeaks, SessionIsBacked,
              QuietModesHoldNothing, ConnectSteps, device, handles
  <1>1. link' \in Links
    <2>1. CASE TvAccepts
      BY <2>1, StateUpdate DEF TvAccepts, LinkStates
    <2>2. CASE NetFails
      BY <2>2, StateUpdate DEF NetFails, LinkStates
    <2>3. CASE TvSends
      <3>1. link.unread + 1 \in 0..MaxUnread
        BY <2>3, UnreadTyped, MaxUnreadAssumption DEF TvSends
      <3> QED
        BY <2>3, <3>1, UnreadUpdate DEF TvSends
    <2>4. CASE LinkCloses
      BY <2>4, StateUpdate DEF LinkCloses, LinkStates
    <2>5. CASE TvPower
      BY <2>5 DEF TvPower
    <2> QED
      BY <2>1, <2>2, <2>3, <2>4, <2>5 DEF Environment
  <1>2. UNCHANGED device /\ tvDown' \in BOOLEAN
    BY DEF Environment, TvAccepts, NetFails, TvSends, LinkCloses, TvPower
  <1> QED
    BY <1>1, <1>2

LEMMA NextIInv == IInv /\ [Next]_vars => IInv'
  <1> SUFFICES ASSUME IInv, [Next]_vars PROVE IInv'
    OBVIOUS
  <1>1. CASE UserCall
    BY <1>1, UserCallIInv
  <1>2. CASE MainTask /\ ~Reboot
    BY <1>2, LoopCallIInv, MessageIInv, ConnectIInv, HandshakeIInv, RequestIInv
       DEF MainTask, LoopContinues
  <1>3. CASE Environment
    BY <1>3, EnvironmentIInv
  <1>5. CASE Reboot
    BY <1>5, RebootIInv
  <1>4. CASE UNCHANGED vars
    BY <1>4 DEF vars, IInv, TypeOK, HandlesInv, ModeInv, RetriesBounded, NothingLeaks,
                SessionIsBacked, QuietModesHoldNothing, ConnectSteps
  <1> QED
    BY <1>1, <1>2, <1>3, <1>4, <1>5 DEF Next

(* The inductive invariant holds in every reachable state.                  *)
THEOREM Invariance == Spec => []IInv
  BY InitIInv, NextIInv, PTL DEF Spec

-----------------------------------------------------------------------------
(* Every variable keeps its type; no counter of live objects goes below     *)
(* zero, which a double free would do (disconnect, createSSLCtx).           *)
THEOREM TypeCorrect == Spec => []TypeOK
  <1>1. IInv => TypeOK
    BY DEF IInv
  <1> QED
    BY <1>1, Invariance, PTL

(* No socket, context or session is ever lost (makeSSLConnectBase and all   *)
(* its failing returns, disconnect).                                        *)
THEOREM NoLeak == Spec => []NothingLeaks
  <1>1. IInv => NothingLeaks
    BY DEF IInv, HandlesInv
  <1> QED
    BY <1>1, Invariance, PTL

(* A session always stands on a live context and a live socket.             *)
THEOREM NoStaleSession == Spec => []SessionIsBacked
  <1>1. IInv => SessionIsBacked
    BY DEF IInv, HandlesInv
  <1> QED
    BY <1>1, Invariance, PTL

(* The modes that wait hold no resource (loopRemoteConnection giving up,    *)
(* and going to wake the TV up).                                            *)
THEOREM QuietModes == Spec => []QuietModesHoldNothing
  <1>1. IInv => QuietModesHoldNothing
    BY DEF IInv, ModeInv
  <1> QED
    BY <1>1, Invariance, PTL

(* Packets are interpreted by the protocol of the port they came from.      *)
THEOREM ModeFollowsPort == Spec => []SessionMatchesMode
  <1>1. IInv => SessionMatchesMode
    BY DEF IInv, ModeInv, SessionMatchesMode, Idle
  <1> QED
    BY <1>1, Invariance, PTL

(* At most three attempts between two resets of the count.                  *)
THEOREM BoundedAttempts == Spec => []RetriesBounded
  <1>1. IInv => RetriesBounded
    BY DEF IInv
  <1> QED
    BY <1>1, Invariance, PTL

-----------------------------------------------------------------------------
(* The device takes itself for paired only on a message of a live pairing   *)
(* session (the secret-ack branch of loopRemoteConnection).                 *)
THEOREM PairedByPairing == Spec => PairedOnlyByPairingSession
  <1> DEFINE A == ~is_paired /\ is_paired' =>
                    API_state = "CONNECTED_TO_PAIRING" /\ port = "pairing" /\ ssl # "null"
  <1>1. IInv /\ [Next]_vars => [A]_vars
    <2> SUFFICES ASSUME IInv, Next, ~is_paired, is_paired'
                 PROVE  API_state = "CONNECTED_TO_PAIRING" /\ port = "pairing" /\ ssl # "null"
      OBVIOUS
    <2>1. ~UserCall
      BY DEF UserCall, ConnectToTV, UserDisconnect, UnPair, IsConnected
    <2>2. ~Environment
      BY DEF Environment, TvAccepts, NetFails, TvSends, LinkCloses, TvPower, device
    <2>3. ~LoopCall
      BY DEF LoopCall, LoopDisconnected, LoopStartup, LoopInitWol, LoopReadFailsPairing,
             LoopReadFailsRemote, LoopReadsData
    <2>4. HandleSecretAck
      BY <2>1, <2>2, <2>3
         DEF Next, MainTask, LoopContinues, UnpackPanics, UnpackDrops, UnpackPairing,
             HandleInformational, HandleStatusOk, Panics, CreateSSLCtx, OpenSocket,
             OpenSocketFails, TcpConnected, TcpFails, NewSession, NewSessionFails,
             HandshakeWants, SelectReturns, HandshakeSucceeds, HandshakeFails,
             SendRequest, SendRequestShort, Reboot,
             ConnectFails, ConnectSucceeds
    <2> QED
      BY <2>4 DEF HandleSecretAck, IInv, HandlesInv, ModeInv, SessionIsBacked
  <1> QED
    BY <1>1, Invariance, PTL DEF Spec, PairedOnlyByPairingSession

-----------------------------------------------------------------------------
(* The buffer holds a whole packet while one is being handled, and only     *)
(* then.                                                                    *)
BufferInv ==
    /\ readDataCunks \in BufferStates
    /\ pc \in {"unpack", "dispatch"} => readDataCunks = "full"
    /\ pc \in PCs \ {"unpack", "dispatch", "panicked"} => readDataCunks # "full"
    /\ pc \in PCs

BufferMove == readDataCunks' = readDataCunks \/ Buffer!Next \/ pc = "panicked"

LEMMA BufferStep == BufferInv /\ [Next]_vars => BufferInv' /\ BufferMove
  <1> SUFFICES ASSUME BufferInv, [Next]_vars PROVE BufferInv' /\ BufferMove
    OBVIOUS
  <1> USE DEF BufferInv, BufferMove, BufferStates, PCs, Idle
  <1>1. CASE UserCall
    BY <1>1 DEF UserCall, ConnectToTV, UserDisconnect, UnPair, IsConnected
  <1>2. CASE Environment \/ UNCHANGED vars
    BY <1>2 DEF Environment, TvAccepts, NetFails, TvSends, LinkCloses, TvPower, device, vars
  <1>3. CASE LoopReadsData
    BY <1>3 DEF LoopReadsData, Buffer!Next, Buffer!Grow
  <1>4. CASE LoopCall /\ ~LoopReadsData
    BY <1>4 DEF LoopCall, LoopDisconnected, LoopStartup, BeginConnect, LoopInitWol,
                LoopReadFailsPairing, RestartFresh, LoopReadFailsRemote
  <1>5. CASE UnpackDrops \/ HandleInformational \/ HandleSecretAck
    BY <1>5 DEF UnpackDrops, HandleInformational, HandleSecretAck, MessageDone, Buffer!Next,
                Buffer!Clear
  <1>6. CASE UnpackPanics \/ UnpackPairing \/ HandleStatusOk
    BY <1>6 DEF UnpackPanics, UnpackPairing, HandleStatusOk, Panics
  <1>7. CASE CreateSSLCtx \/ OpenSocket \/ OpenSocketFails \/ TcpConnected \/ TcpFails
    BY <1>7 DEF CreateSSLCtx, OpenSocket, OpenSocketFails, TcpConnected, TcpFails, ConnectFails
  <1>8. CASE NewSession \/ NewSessionFails \/ HandshakeWants \/ SelectReturns
    BY <1>8 DEF NewSession, NewSessionFails, HandshakeWants, SelectReturns, ConnectFails
  <1>9. CASE HandshakeSucceeds \/ HandshakeFails \/ SendRequest
    BY <1>9 DEF HandshakeSucceeds, HandshakeFails, SendRequest,
                ConnectFails, ConnectSucceeds
  <1>10. CASE SendRequestShort
    BY <1>10 DEF SendRequestShort
  <1>11. CASE Reboot
    BY <1>11 DEF Reboot
  <1> QED
    BY <1>1, <1>2, <1>3, <1>4, <1>5, <1>6, <1>7, <1>8, <1>9, <1>10, <1>11
       DEF Next, MainTask, LoopContinues

(* The receive buffer moves as PacketBuffer says, through every disconnect  *)
(* and reconnect, until the chip restarts.                                  *)
THEOREM BufferRefinement == Spec => BufferMoves
  <1>1. Init => BufferInv
    BY DEF Init, BufferInv, BufferStates, PCs
  <1>2. BufferInv /\ [Next]_vars => BufferInv' /\ [Buffer!Next \/ pc = "panicked"]_readDataCunks
    BY BufferStep DEF BufferMove
  <1> QED
    BY <1>1, <1>2, PTL DEF Spec, BufferMoves

-----------------------------------------------------------------------------
(* The object implements ConnectSupervisor.                                 *)

phase == IF API_state = "STARTUP" /\ pc # "idle" /\ port = "remote"
         THEN "CONNECTED_TO_TV" ELSE API_state
attempts == IF API_state = "DISCONNECTED" THEN 0 ELSE connectRetries

LEMMA LoopCallSimulates ==
  ASSUME IInv, LoopCall
  PROVE  Supervisor!Next \/ UNCHANGED <<phase, attempts, starts>>
  <1> USE DEF IInv, TypeOK, RetriesBounded, ModeInv, Idle, supervisor, phase, attempts,
              Supervisor!Next, Supervisor!Unasked
  <1>1. CASE LoopDisconnected
    BY <1>1 DEF LoopDisconnected
  <1>2. CASE LoopStartup
    BY <1>2 DEF LoopStartup, BeginConnect, Supervisor!Attempt, Supervisor!GiveUp,
                Supervisor!MaxAttempts
  <1>3. CASE LoopInitWol
    BY <1>3 DEF LoopInitWol, Supervisor!TryAgain
  <1>4. CASE LoopReadFailsPairing
    BY <1>4 DEF LoopReadFailsPairing, RestartFresh, Supervisor!PairingEnds
  <1>5. CASE LoopReadFailsRemote
    BY <1>5 DEF LoopReadFailsRemote, BeginConnect, Supervisor!WakeUp
  <1>6. CASE LoopReadsData
    BY <1>6 DEF LoopReadsData, Connected
  <1> QED
    BY <1>1, <1>2, <1>3, <1>4, <1>5, <1>6 DEF LoopCall

LEMMA ConnectFailsSimulates ==
  ASSUME IInv, ConnectFails, pc \in ConnectSteps
  PROVE  Supervisor!Next \/ UNCHANGED <<phase, attempts, starts>>
  BY DEF IInv, ModeInv, ConnectSteps, ConnectFails, phase, attempts, Supervisor!Next, Supervisor!Unasked,
         Supervisor!WakeUp

LEMMA LoopContinuesSimulates ==
  ASSUME IInv, LoopContinues
  PROVE  Supervisor!Next \/ UNCHANGED <<phase, attempts, starts>>
  <1> USE DEF IInv, ModeInv, ConnectSteps, supervisor, phase, attempts
  <1>1. CASE UnpackPanics \/ HandleStatusOk
    BY <1>1 DEF UnpackPanics, HandleStatusOk, Panics, Connected
  <1>2. CASE UnpackDrops \/ UnpackPairing \/ HandleInformational
    BY <1>2 DEF UnpackDrops, UnpackPairing, HandleInformational, MessageDone, Connected
  <1>3. CASE HandleSecretAck
    BY <1>3 DEF HandleSecretAck, MessageDone, RestartFresh, Supervisor!Next, Supervisor!Unasked,
                Supervisor!PairingEnds
  <1>4. CASE \/ CreateSSLCtx \/ OpenSocket \/ TcpConnected \/ NewSession
             \/ HandshakeWants \/ SelectReturns
    BY <1>4 DEF CreateSSLCtx, OpenSocket, TcpConnected, NewSession, HandshakeWants, SelectReturns
  <1>5. CASE OpenSocketFails \/ TcpFails \/ NewSessionFails \/ HandshakeFails
    BY <1>5, ConnectFailsSimulates
       DEF OpenSocketFails, TcpFails, NewSessionFails, HandshakeFails
  <1>6. CASE HandshakeSucceeds
    BY <1>6 DEF HandshakeSucceeds, ConnectSucceeds
  <1>7. CASE SendRequest
    BY <1>7 DEF SendRequest, Supervisor!Next, Supervisor!Unasked, Supervisor!Pair
  <1>8. CASE SendRequestShort
    BY <1>8 DEF SendRequestShort, Supervisor!Next, Supervisor!Unasked, Supervisor!TryAgain
  <1>9. CASE Reboot
    BY <1>9 DEF Reboot, Supervisor!Next, Supervisor!Unasked, Supervisor!Restart
  <1> QED
    BY <1>1, <1>2, <1>3, <1>4, <1>5, <1>6, <1>7, <1>8, <1>9 DEF LoopContinues

LEMMA NextSimulates ==
  IInv /\ [Next]_vars => [Supervisor!Next]_<<phase, attempts, starts>>
  <1> SUFFICES ASSUME IInv, [Next]_vars
               PROVE  Supervisor!Next \/ UNCHANGED <<phase, attempts, starts>>
    OBVIOUS
  <1>1. ASSUME NEW ip \in BOOLEAN, ConnectToTV(ip)
        PROVE  Supervisor!Next
    BY <1>1 DEF ConnectToTV, Idle, RestartFresh, phase, attempts, Supervisor!Next, Supervisor!Unasked,
                Supervisor!Start
  <1>2. CASE UserDisconnect \/ UnPair \/ IsConnected
    BY <1>2 DEF UserDisconnect, UnPair, IsConnected, supervisor, phase, attempts
  <1>3. CASE LoopCall
    BY <1>3, LoopCallSimulates
  <1>4. CASE LoopContinues
    BY <1>4, LoopContinuesSimulates
  <1>5. CASE Environment \/ UNCHANGED vars
    BY <1>5 DEF Environment, TvAccepts, NetFails, TvSends, LinkCloses, TvPower, device, vars,
                phase, attempts
  <1> QED
    BY <1>1, <1>2, <1>3, <1>4, <1>5 DEF Next, UserCall, MainTask

(* GoogleTvRemote keeps the promise of ConnectSupervisor: three attempts    *)
(* from every start, given back by a pairing session alone, then a stop.    *)
THEOREM Refinement == Spec => Supervises
  <1>1. Init => Supervisor!Init
    BY DEF Init, Supervisor!Init
  <1>2. IInv /\ [Next]_vars => [Supervisor!Next]_(Supervisor!vars)
    BY NextSimulates DEF Supervisor!vars, phase, attempts
  <1> QED
    BY <1>1, <1>2, Invariance, PTL DEF Spec, Supervises, Supervisor!Spec
=============================================================================
