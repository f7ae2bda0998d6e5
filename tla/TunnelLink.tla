----------------------------- MODULE TunnelLink -----------------------------
(***************************************************************************)
(* What a tunnel's proxy promises to the daemon: the stream of connect,    *)
(* disconnect and connect_error events that createProxy emits, as the      *)
(* daemon's listeners fold them into TunnelInfo.status.                    *)
(*                                                                         *)
(* A link is up while at least one relay socket of the pool is connected.  *)
(* connect and disconnect alternate: connect is emitted when the link goes *)
(* up and disconnect when it goes down, never in between.  Closing is      *)
(* final.  ProxyPool implements this module; DaemonServer assumes it of    *)
(* each tunnel it owns.                                                    *)
(***************************************************************************)

VARIABLES up, open, status

vars == <<up, open, status>>

Status == {"connecting", "connected", "disconnected", "error"}

Init == up = FALSE /\ open = TRUE /\ status = "connecting"

\* The event connect.
GoUp == open /\ ~up /\ up' /\ open' /\ status' = "connected"

\* The event disconnect.
GoDown == open /\ up /\ ~up' /\ open' /\ status' = "disconnected"

\* The event connect_error: the link itself is not affected.
Refuse == open /\ (up' <=> up) /\ open' /\ status' = "error"

\* disconnect() is called; a link that was up reports it.
Close == /\ open /\ ~open' /\ ~up'
         /\ status' = IF up THEN "disconnected" ELSE status

Next == GoUp \/ GoDown \/ Refuse \/ Close

Spec == Init /\ [][Next]_vars
=============================================================================
