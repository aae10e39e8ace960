---------------------------- MODULE PacketBuffer ----------------------------
(***************************************************************************)
(* What the rest of GoogleTvRemote relies on of its receive buffer: it      *)
(* fills up to a whole packet and is emptied, and once it holds more than   *)
(* the packet it never holds a whole one again.                             *)
(***************************************************************************)
VARIABLE fill

(* No byte yet; fewer bytes than the first byte announces; exactly as many; *)
(* more.                                                                    *)
BufferStates == {"empty", "partial", "full", "overrun"}

Init == fill = "empty"

Grow == fill \in {"empty", "partial"} /\ fill' \in {"partial", "full", "overrun"}

Clear == fill # "overrun" /\ fill' = "empty"

Next == Grow \/ Clear

Spec == Init /\ [][Next]_fill
=============================================================================
