------------------------- MODULE ConnectSupervisor -------------------------
(***************************************************************************)
(* What GoogleTvRemote promises about its attempts to reach a TV, without   *)
(* sockets, TLS or messages: from each start at most three attempts on the  *)
(* remote port, then it stops until the user starts it again; a wake-up     *)
(* call and a failed request cost nothing and refund nothing; only a        *)
(* pairing session that came about gives the three attempts back.  A start  *)
(* is told from a refund by the user's calls, which are counted.            *)
(***************************************************************************)
EXTENDS Naturals

VARIABLES
    phase,      \* the modes of the object
    attempts,   \* attempts on the remote port since the last start
    starts      \* calls of connectToTV

vars == <<phase, attempts, starts>>

Phases == {"STARTUP", "CONNECTED_TO_TV", "CONNECTED_TO_PAIRING", "INIT_WOL", "DISCONNECTED"}

MaxAttempts == 3

Init == phase = "DISCONNECTED" /\ attempts = 0 /\ starts = 0

Start == starts' = starts + 1 /\ phase' = "STARTUP" /\ attempts' = 0

Attempt ==
    /\ phase = "STARTUP" /\ attempts < MaxAttempts
    /\ phase' = "CONNECTED_TO_TV"
    /\ attempts' = attempts + 1

GiveUp ==
    /\ phase = "STARTUP" /\ attempts = MaxAttempts
    /\ phase' = "DISCONNECTED"
    /\ attempts' = 0

Pair ==
    /\ phase = "CONNECTED_TO_TV"
    /\ phase' = "CONNECTED_TO_PAIRING"
    /\ attempts' = 0

PairingEnds ==
    /\ phase = "CONNECTED_TO_PAIRING"
    /\ phase' = "STARTUP"
    /\ attempts' = 0

WakeUp == phase = "CONNECTED_TO_TV" /\ phase' = "INIT_WOL" /\ UNCHANGED attempts

TryAgain ==
    /\ phase \in {"CONNECTED_TO_TV", "INIT_WOL"}
    /\ phase' = "STARTUP"
    /\ UNCHANGED attempts

Restart == phase' = "DISCONNECTED" /\ attempts' = 0

Unasked == Attempt \/ GiveUp \/ Pair \/ PairingEnds \/ WakeUp \/ TryAgain \/ Restart

Next == Start \/ (Unasked /\ UNCHANGED starts)

Spec == Init /\ [][Next]_vars
=============================================================================
