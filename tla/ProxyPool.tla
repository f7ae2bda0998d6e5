----------------------------- MODULE ProxyPool ------------------------------
(***************************************************************************)
(* The relay connections of one tunnel: the pool that createProxy opens    *)
(* (src/proxy/Proxy.ts) and the status the daemon keeps about it           *)
(* (src/daemon/DaemonServer.ts).                                           *)
(*                                                                         *)
(* The pool holds connectionPoolSize socket.io sockets.  One of them, the  *)
(* ping socket, carries the periodic ping, and one interval timer drives   *)
(* it.  Sockets connect and drop one by one, in any order; the handlers    *)
(* below run to completion, as JavaScript callbacks do.  Only disconnect() *)
(* takes several steps here: its loop over the sockets calls the           *)
(* disconnect handler synchronously for every connected one, and `closing' *)
(* is the loop's index, so that the states in between are visible too.     *)
(***************************************************************************)
EXTENDS Integers, FiniteSets

CONSTANT PoolSize          \* connectionPoolSize, chosen by the relay

ASSUME PoolSizeAssumption == PoolSize \in Nat

VARIABLES
  sock,            \* state of each socket.io socket
  connectedCount,  \* sockets connected, as the handlers count them
  pingSocket,      \* the socket that pings, or NoSocket
  pingInterval,    \* whether the interval handle is defined
  timers,          \* interval timers that are really running
  status,          \* TunnelInfo.status
  closing          \* 0, then the index of disconnect()'s loop, then past the end

poolVars == <<sock, connectedCount, pingSocket, pingInterval, timers, status, closing>>

Sockets  == 1..PoolSize
NoSocket == 0

\* "trying" sockets reconnect by themselves; an "idle" one never will: the
\* relay ended or refused it, or it was disconnected locally.
SocketState == {"trying", "connected", "idle"}
Connected   == {s \in Sockets : sock[s] = "connected"}

\* sockets.find(...): the first socket of the array that qualifies.
First(S) == CHOOSE s \in S : \A t \in S : s <= t

PoolInit ==
  /\ sock = [s \in Sockets |-> "trying"]
  /\ connectedCount = 0
  /\ pingSocket = NoSocket
  /\ pingInterval = FALSE
  /\ timers = 0
  /\ status = "connecting"
  /\ closing = 0

-----------------------------------------------------------------------------
(* The handlers.  Beside some of them stand variants no action uses, each  *)
(* with a slip a change could introduce; put in the place of the           *)
(* definition it varies, each breaks one of the properties below.          *)

\* The pieces of socket.on('disconnect').
HandOverPing(s) ==
  pingSocket' = IF pingSocket # s THEN pingSocket
                ELSE IF Connected = {s} THEN NoSocket
                ELSE First(Connected \ {s})

StopTimer(s) ==
  LET last == pingSocket = s /\ Connected = {s} IN
  /\ pingInterval' = IF last THEN FALSE ELSE pingInterval
  /\ timers' = IF last /\ pingInterval THEN timers - 1 ELSE timers

CountDown ==
  /\ connectedCount' = connectedCount - 1
  /\ status' = IF connectedCount' = 0 THEN "disconnected" ELSE status

\* Slips: counts only the ping socket, never clears the interval, reports the
\* loss of the ping socket as the loss of the tunnel.
HandleDisconnectOfPingOnly(s) ==
  /\ HandOverPing(s) /\ StopTimer(s)
  /\ IF pingSocket = s THEN CountDown ELSE UNCHANGED <<connectedCount, status>>
HandleDisconnectKeepsTimer(s) ==
  HandOverPing(s) /\ CountDown /\ UNCHANGED <<pingInterval, timers>>
HandleDisconnectReportsEarly(s) ==
  /\ HandOverPing(s) /\ StopTimer(s)
  /\ connectedCount' = connectedCount - 1
  /\ status' = IF pingSocket = s THEN "disconnected" ELSE status

\* socket.on('disconnect'): hand the ping over to another connected socket or
\* stop the interval, then count down and report when none is left.
HandleDisconnect(s) == HandOverPing(s) /\ StopTimer(s) /\ CountDown

\* Slip: announces every socket of the pool instead of the first one.
ConnectAnnouncesEach(s) ==
  /\ closing \notin Sockets
  /\ sock[s] = "trying"
  /\ sock' = [sock EXCEPT ![s] = "connected"]
  /\ connectedCount' = connectedCount + 1
  /\ status' = "connected"
  /\ IF connectedCount' = 1
       THEN pingSocket' = s /\ pingInterval' = TRUE /\ timers' = timers + 1
       ELSE UNCHANGED <<pingSocket, pingInterval, timers>>
  /\ UNCHANGED closing

\* socket.on('connect'): the first connected socket becomes the ping socket.
Connect(s) ==
  /\ closing \notin Sockets
  /\ sock[s] = "trying"
  /\ sock' = [sock EXCEPT ![s] = "connected"]
  /\ connectedCount' = connectedCount + 1
  /\ IF connectedCount' = 1
       THEN /\ pingSocket' = s
            /\ pingInterval' = TRUE
            /\ timers' = timers + 1
            /\ status' = "connected"
       ELSE UNCHANGED <<pingSocket, pingInterval, timers, status>>
  /\ UNCHANGED closing

\* A connection is lost: socket.io retries after a transport failure and stays
\* down when the relay itself ended the connection.
Drop(s) ==
  /\ closing \notin Sockets
  /\ sock[s] = "connected"
  /\ \E next \in {"trying", "idle"} : sock' = [sock EXCEPT ![s] = next]
  /\ HandleDisconnect(s)
  /\ UNCHANGED closing

\* connect_error: the relay cannot be reached (retried) or refuses the socket.
ConnectError(s) ==
  /\ closing \notin Sockets
  /\ sock[s] = "trying"
  /\ \E next \in {"trying", "idle"} : sock' = [sock EXCEPT ![s] = next]
  /\ status' = "error"
  /\ UNCHANGED <<connectedCount, pingSocket, pingInterval, timers, closing>>

\* disconnect(): sockets.forEach(s => s.disconnect()).
Disconnect ==
  /\ closing = 0
  /\ closing' = 1
  /\ UNCHANGED <<sock, connectedCount, pingSocket, pingInterval, timers, status>>

\* One turn of its loop: only a connected socket emits 'disconnect'.
DisconnectNext(s) ==
  /\ closing = s
  /\ closing' = s + 1
  /\ sock' = [sock EXCEPT ![s] = "idle"]
  /\ IF sock[s] = "connected"
       THEN HandleDisconnect(s)
       ELSE UNCHANGED <<connectedCount, pingSocket, pingInterval, timers, status>>

PoolNext ==
  \/ \E s \in Sockets :
       Connect(s) \/ Drop(s) \/ ConnectError(s) \/ DisconnectNext(s)
  \/ Disconnect

PoolSpec == PoolInit /\ [][PoolNext]_poolVars

-----------------------------------------------------------------------------
(* Properties                                                              *)

PoolTypes ==
  /\ sock \in [Sockets -> SocketState]
  /\ connectedCount \in 0..PoolSize
  /\ pingSocket \in Sockets \cup {NoSocket}
  /\ pingInterval \in BOOLEAN
  /\ timers \in Nat
  /\ status \in {"connecting", "connected", "disconnected", "error"}
  /\ closing \in 0..(PoolSize + 1)

\* The handlers' counter never drifts from the sockets, whatever the order of
\* connects, drops and the closing loop: a drift would leave the tunnel
\* reported up with no socket, or report it down while requests still arrive.
CountExact == connectedCount = Cardinality(Connected)

\* While the link is up there is exactly one running timer and it pings
\* through a connected socket; while it is down none is left behind.
PingFollowsLink ==
  IF Connected = {}
  THEN pingSocket = NoSocket /\ ~pingInterval /\ timers = 0
  ELSE pingSocket \in Connected /\ pingInterval /\ timers = 1

\* The status shown by `list' and `attach' never claims a connection that does
\* not exist, nor a loss while a socket still carries traffic.
StatusSound ==
  /\ status = "connected" => Connected # {}
  /\ status \in {"connecting", "disconnected"} => Connected = {}

\* To the daemon the pool is one link: connect and disconnect alternate, and
\* nothing is emitted after disconnect() has returned.
Link == INSTANCE TunnelLink
          WITH up <- connectedCount > 0, open <- closing <= PoolSize
LinkSpec == Link!Spec
=============================================================================
