----------------------------- MODULE ProxyProofs -----------------------------
(***************************************************************************)
(* Theorems about the two halves of createProxy.  ProxyPool, for every     *)
(* pool size: its invariants, and that it implements TunnelLink.           *)
(* ProxyRequest, for any number of requests on a socket and bodies of any  *)
(* length: what the local target, the relay and the replay buffer get.     *)
(***************************************************************************)
EXTENDS ProxyPool, ProxyRequest, FiniteSetTheorems, WellFoundedInduction, SequenceTheorems,
        TLAPS

-----------------------------------------------------------------------------
(* The pool                                                                *)

\* sockets.find returns one of the sockets that qualify.
LEMMA FirstIsMember ==
  ASSUME NEW S \in SUBSET Sockets, S # {}
  PROVE  First(S) \in S
<1>1. S \subseteq Nat
  BY PoolSizeAssumption DEF Sockets
<1>. DEFINE R == {p \in Nat \X Nat : p[1] < p[2]}
<1>r. R = OpToRel(<, Nat)
  BY DEF OpToRel
<1>2. PICK m \in S : \A t \in S : ~(<<t, m>> \in R)
  <2>. HIDE DEF R
  <2>. QED BY <1>1, <1>r, NatLessThanWellFounded, WFMin
<1>3. ASSUME NEW t \in S
      PROVE  m <= t
  <2>1. <<t, m>> \in Nat \X Nat /\ <<t, m>>[1] = t /\ <<t, m>>[2] = m
    BY <1>1
  <2>2. ~(t < m)
    BY <1>2, <2>1
  <2>. QED BY <1>1, <2>2
<1>. QED BY <1>3 DEF First

\* The connected sockets can be counted, and are at most the whole pool.
LEMMA ConnectedCountable ==
  /\ IsFiniteSet(Connected)
  /\ Cardinality(Connected) \in 0..PoolSize
<1>1. IsFiniteSet(Sockets) /\ Cardinality(Sockets) = PoolSize
  BY FS_Interval, PoolSizeAssumption DEF Sockets
<1>2. Connected \subseteq Sockets
  BY DEF Connected
<1>3. /\ IsFiniteSet(Connected)
      /\ Cardinality(Connected) <= Cardinality(Sockets)
  BY <1>1, <1>2, FS_Subset
<1>. QED BY <1>1, <1>3, FS_CardinalityType, PoolSizeAssumption

-----------------------------------------------------------------------------

\* A socket that disconnect() has visited never comes back.
VisitedStayIdle == \A s \in Sockets : s < closing => sock[s] = "idle"

\* The inductive invariant: none of the parts is inductive alone, because the
\* handlers read the counter, the ping socket and the sockets together.
PoolInv == PoolTypes /\ CountExact /\ PingFollowsLink /\ StatusSound /\ VisitedStayIdle

\* The whole effect of one socket leaving the connected state, whether it is
\* dropped by the network or by the closing loop.
LEMMA DisconnectKeepsInvariant ==
  ASSUME PoolInv,
         NEW s \in Connected,
         NEW next \in {"trying", "idle"},
         sock' = [sock EXCEPT ![s] = next],
         HandleDisconnect(s),
         closing' \in 0..(PoolSize + 1),
         closing' = closing \/ (closing = s /\ closing' = s + 1 /\ next = "idle")
  PROVE  PoolInv'
<1>1. s \in Sockets
  BY DEF Connected
<1>2. Connected' = Connected \ {s}
  BY <1>1 DEF PoolInv, PoolTypes, Connected, Sockets
<1>3. Cardinality(Connected') = Cardinality(Connected) - 1
  BY <1>2, ConnectedCountable, FS_RemoveElement
<1>4. Cardinality(Connected') \in 0..PoolSize
  BY <1>2, <1>3, ConnectedCountable, FS_RemoveElement, FS_CardinalityType,
     PoolSizeAssumption
<1>5. connectedCount' = Cardinality(Connected')
  BY <1>3 DEF PoolInv, CountExact, HandleDisconnect, CountDown
<1>6. connectedCount' = 0 <=> Connected' = {}
  BY <1>2, <1>5, ConnectedCountable, FS_RemoveElement, FS_EmptySet
<1>7. Connected' # {} => First(Connected') \in Connected'
  BY <1>2, FirstIsMember DEF Connected
<1>8. PingFollowsLink'
  <2>1. pingSocket \in Connected /\ pingInterval /\ timers = 1
    BY DEF PoolInv, PingFollowsLink
  <2>2. CASE pingSocket # s
    BY <1>2, <2>1, <2>2 DEF HandleDisconnect, HandOverPing, StopTimer, PingFollowsLink
  <2>3. CASE pingSocket = s /\ Connected' = {}
    <3>1. pingSocket' = NoSocket /\ timers' = 0
      BY <1>2, <2>1, <2>3 DEF HandleDisconnect, HandOverPing, StopTimer
    <3>2. ~pingInterval'
      BY <1>2, <2>1, <2>3 DEF HandleDisconnect, StopTimer
    <3>. QED BY <2>3, <3>1, <3>2 DEF PingFollowsLink
  <2>4. CASE pingSocket = s /\ Connected' # {}
    BY <1>2, <1>7, <2>1, <2>4 DEF HandleDisconnect, HandOverPing, StopTimer, PingFollowsLink
  <2>. QED BY <2>2, <2>3, <2>4
<1>9. StatusSound'
  BY <1>2, <1>6 DEF PoolInv, StatusSound, HandleDisconnect, CountDown
<1>10. PoolTypes'
  <2>1. sock' \in [Sockets -> SocketState]
    BY <1>1 DEF PoolInv, PoolTypes, SocketState
  <2>2. pingSocket' \in Sockets \cup {NoSocket} /\ timers' \in Nat
    BY <1>8 DEF PingFollowsLink, Connected
  <2>2a. pingInterval' \in BOOLEAN
    BY DEF PoolInv, PoolTypes, HandleDisconnect, StopTimer
  <2>3. status' \in {"connecting", "connected", "disconnected", "error"}
    BY DEF PoolInv, PoolTypes, HandleDisconnect, CountDown
  <2>. QED BY <1>4, <1>5, <2>1, <2>2, <2>2a, <2>3 DEF PoolTypes
<1>11. VisitedStayIdle'
  BY <1>1, PoolSizeAssumption
     DEF PoolInv, PoolTypes, VisitedStayIdle, Connected, Sockets
<1>. QED BY <1>5, <1>8, <1>9, <1>10, <1>11 DEF PoolInv, CountExact

\* A step that moves a socket between the states that carry no traffic.
LEMMA QuietKeepsInvariant ==
  ASSUME PoolInv,
         NEW s \in Sockets, sock[s] # "connected",
         NEW next \in {"trying", "idle"},
         sock' = [sock EXCEPT ![s] = next],
         UNCHANGED <<connectedCount, pingSocket, pingInterval, timers>>,
         status' \in {status, "error"},
         closing' \in 0..(PoolSize + 1),
         \/ closing' = closing /\ sock[s] = "trying"
         \/ closing = s /\ closing' = s + 1 /\ next = "idle"
  PROVE  PoolInv'
<1>1. Connected' = Connected
  BY DEF PoolInv, PoolTypes, Connected
<1>2. PoolTypes'
  BY DEF PoolInv, PoolTypes, SocketState
<1>3. VisitedStayIdle'
  BY PoolSizeAssumption DEF PoolInv, PoolTypes, VisitedStayIdle, Sockets
<1>. QED BY <1>1, <1>2, <1>3 DEF PoolInv, CountExact, PingFollowsLink, StatusSound

\* A pool that is opened has no connected socket.
LEMMA InitInvariant == PoolInit => PoolInv
<1>. SUFFICES ASSUME PoolInit PROVE PoolInv
  OBVIOUS
<1>1. Connected = {}
  BY DEF PoolInit, Connected
<1>2. PoolTypes
  <2>1. connectedCount \in 0..PoolSize /\ timers \in Nat
        /\ closing \in 0..(PoolSize + 1)
    BY PoolSizeAssumption DEF PoolInit
  <2>2. sock \in [Sockets -> SocketState] /\ pingInterval \in BOOLEAN
    BY DEF PoolInit, SocketState
  <2>. QED BY <2>1, <2>2 DEF PoolInit, PoolTypes
<1>. QED
  BY <1>1, <1>2, FS_EmptySet
     DEF PoolInit, PoolInv, CountExact, PingFollowsLink, StatusSound, VisitedStayIdle,
         Sockets

\* Every handler of the pool preserves the invariant.
LEMMA StepInvariant == PoolInv /\ [PoolNext]_poolVars => PoolInv'
<1>. SUFFICES ASSUME PoolInv, [PoolNext]_poolVars PROVE PoolInv'
  OBVIOUS
<1>1. ASSUME NEW s \in Sockets, Connect(s) PROVE PoolInv'
  <2>1. s \notin Connected /\ Connected' = Connected \cup {s}
    BY <1>1 DEF PoolInv, PoolTypes, Connected, Connect
  <2>2. Cardinality(Connected') = Cardinality(Connected) + 1
    BY <2>1, ConnectedCountable, FS_AddElement
  <2>3. connectedCount' = Cardinality(Connected')
    BY <1>1, <2>2 DEF PoolInv, CountExact, Connect
  <2>4. Cardinality(Connected') \in 0..PoolSize
    <3>1. IsFiniteSet(Sockets) /\ Cardinality(Sockets) = PoolSize
      BY FS_Interval, PoolSizeAssumption DEF Sockets
    <3>2. Connected' \subseteq Sockets
      BY <2>1 DEF Connected
    <3>3. IsFiniteSet(Connected') /\ Cardinality(Connected') <= PoolSize
      BY <3>1, <3>2, FS_Subset
    <3>. QED BY <3>3, FS_CardinalityType, PoolSizeAssumption
  <2>5. connectedCount' = 1 <=> Connected = {}
    BY <2>2, <2>3, ConnectedCountable, FS_EmptySet
  <2>6. PingFollowsLink' /\ StatusSound'
    <3>1. CASE Connected = {}
      BY <1>1, <2>1, <2>5, <3>1
         DEF PoolInv, PingFollowsLink, StatusSound, Connect
    <3>2. CASE Connected # {}
      BY <1>1, <2>1, <2>5, <3>2
         DEF PoolInv, PingFollowsLink, StatusSound, Connect
    <3>. QED BY <3>1, <3>2
  <2>7. PoolTypes'
    <3>1. timers' \in Nat /\ sock' \in [Sockets -> SocketState]
      BY <1>1 DEF PoolInv, PoolTypes, SocketState, Connect
    <3>2. pingInterval' \in BOOLEAN /\ pingSocket' \in Sockets \cup {NoSocket}
      BY <1>1 DEF PoolInv, PoolTypes, Connect
    <3>3. status' \in {"connecting", "connected", "disconnected", "error"}
      BY <1>1 DEF PoolInv, PoolTypes, Connect
    <3>. QED
      BY <1>1, <2>3, <2>4, <3>1, <3>2, <3>3 DEF PoolInv, PoolTypes, Connect
  <2>8. VisitedStayIdle'
    BY <1>1, PoolSizeAssumption
       DEF PoolInv, PoolTypes, VisitedStayIdle, Connect, Sockets
  <2>. QED BY <2>3, <2>6, <2>7, <2>8 DEF PoolInv, CountExact
<1>2. ASSUME NEW s \in Sockets, Drop(s) PROVE PoolInv'
  <2>1. s \in Connected /\ closing' = closing /\ closing' \in 0..(PoolSize + 1)
    BY <1>2 DEF Drop, Connected, PoolInv, PoolTypes
  <2>2. PICK next \in {"trying", "idle"} : sock' = [sock EXCEPT ![s] = next]
    BY <1>2 DEF Drop
  <2>. QED BY <1>2, <2>1, <2>2, DisconnectKeepsInvariant DEF Drop
<1>3. ASSUME NEW s \in Sockets, ConnectError(s) PROVE PoolInv'
  <2>1. sock[s] = "trying" /\ closing' = closing
        /\ closing' \in 0..(PoolSize + 1)
    BY <1>3 DEF ConnectError, PoolInv, PoolTypes
  <2>2. PICK next \in {"trying", "idle"} : sock' = [sock EXCEPT ![s] = next]
    BY <1>3 DEF ConnectError
  <2>. QED BY <1>3, <2>1, <2>2, QuietKeepsInvariant DEF ConnectError
<1>4. ASSUME NEW s \in Sockets, DisconnectNext(s) PROVE PoolInv'
  <2>1. closing = s /\ closing' = s + 1 /\ closing' \in 0..(PoolSize + 1)
    BY <1>4, PoolSizeAssumption DEF DisconnectNext, Sockets
  <2>2. CASE sock[s] = "connected"
    <3>1. s \in Connected
      BY <2>2 DEF Connected
    <3>. QED
      BY <1>4, <2>1, <2>2, <3>1, DisconnectKeepsInvariant DEF DisconnectNext
  <2>3. CASE sock[s] # "connected"
    BY <1>4, <2>1, <2>3, QuietKeepsInvariant DEF DisconnectNext
  <2>. QED BY <2>2, <2>3
<1>5. CASE Disconnect
  <2>1. Connected' = Connected
    BY <1>5 DEF Disconnect, Connected
  <2>2. VisitedStayIdle'
    BY <1>5 DEF Disconnect, VisitedStayIdle, Sockets
  <2>. QED
    BY <1>5, <2>1, <2>2, PoolSizeAssumption
       DEF Disconnect, PoolInv, PoolTypes, CountExact, PingFollowsLink, StatusSound
<1>6. CASE UNCHANGED poolVars
  BY <1>6 DEF poolVars, PoolInv, PoolTypes, CountExact, PingFollowsLink, StatusSound,
              VisitedStayIdle, Connected
<1>. QED BY <1>1, <1>2, <1>3, <1>4, <1>5, <1>6 DEF PoolNext

\* The invariant holds in every reachable state, for every pool size.
THEOREM PoolInvariant == PoolSpec => []PoolInv
<1>. QED BY InitInvariant, StepInvariant, PTL DEF PoolSpec

\* The types and the bound of the counter: it never goes below zero or above
\* the size of the pool (Proxy.ts counts with ++ and -- in two handlers).
THEOREM PoolTypeOK == PoolSpec => []PoolTypes
<1>1. PoolInv => PoolTypes
  BY DEF PoolInv
<1>. QED BY <1>1, PoolInvariant, PTL

\* The counter of the handlers is the number of connected sockets.
THEOREM PoolCountExact == PoolSpec => []CountExact
<1>1. PoolInv => CountExact
  BY DEF PoolInv
<1>. QED BY <1>1, PoolInvariant, PTL

\* One timer, on a connected socket, exactly while the link is up.
THEOREM PoolPingFollowsLink == PoolSpec => []PingFollowsLink
<1>1. PoolInv => PingFollowsLink
  BY DEF PoolInv
<1>. QED BY <1>1, PoolInvariant, PTL

\* The status is never ahead of or behind the sockets.
THEOREM PoolStatusSound == PoolSpec => []StatusSound
<1>1. PoolInv => StatusSound
  BY DEF PoolInv
<1>. QED BY <1>1, PoolInvariant, PTL

-----------------------------------------------------------------------------
(* The pool as one link                                                    *)

\* A new pool is a link that is down.
LEMMA LinkInit == PoolInit => Link!Init
BY PoolSizeAssumption DEF PoolInit, Link!Init

\* Each step of the pool is an event of the link, or leaves it as it is.
LEMMA LinkStep == PoolInv /\ PoolInv' /\ [PoolNext]_poolVars => [Link!Next]_(Link!vars)
<1>. SUFFICES ASSUME PoolInv, PoolInv', [PoolNext]_poolVars
              PROVE  [Link!Next]_(Link!vars)
  OBVIOUS
<1>0. /\ connectedCount \in Nat /\ connectedCount' \in Nat
      /\ closing \in Nat /\ closing' \in Nat
  BY PoolSizeAssumption DEF PoolInv, PoolTypes
<1>. USE DEF Link!Next, Link!GoUp, Link!GoDown, Link!Refuse, Link!Close, Link!vars
<1>1. ASSUME NEW s \in Sockets, Connect(s) PROVE [Link!Next]_(Link!vars)
  <2>1. closing <= PoolSize
    BY <1>0, <1>1, PoolSizeAssumption
       DEF Connect, PoolInv, PoolTypes, VisitedStayIdle, Sockets
  <2>2. closing' = closing /\ connectedCount' = connectedCount + 1
    BY <1>1 DEF Connect
  <2>3. CASE connectedCount = 0
    BY <1>0, <1>1, <2>1, <2>2, <2>3 DEF Connect
  <2>4. CASE connectedCount # 0
    <3>1. status' = status
      BY <1>0, <1>1, <2>4 DEF Connect
    <3>. QED BY <1>0, <2>2, <2>4, <3>1
  <2>. QED BY <2>3, <2>4
<1>2. ASSUME NEW s \in Sockets, Drop(s) PROVE [Link!Next]_(Link!vars)
  <2>1. closing <= PoolSize
    BY <1>0, <1>2, PoolSizeAssumption
       DEF Drop, PoolInv, PoolTypes, VisitedStayIdle, Sockets
  <2>2. /\ closing' = closing
        /\ connectedCount' = connectedCount - 1
        /\ status' = IF connectedCount' = 0 THEN "disconnected" ELSE status
    BY <1>2 DEF Drop, HandleDisconnect, CountDown
  <2>. QED BY <1>0, <2>1, <2>2
<1>3. ASSUME NEW s \in Sockets, ConnectError(s) PROVE [Link!Next]_(Link!vars)
  <2>1. closing <= PoolSize
    BY <1>0, <1>3, PoolSizeAssumption
       DEF ConnectError, PoolInv, PoolTypes, VisitedStayIdle, Sockets
  <2>. QED BY <1>0, <1>3, <2>1 DEF ConnectError
<1>4. ASSUME NEW s \in Sockets, DisconnectNext(s) PROVE [Link!Next]_(Link!vars)
  <2>1. closing = s /\ closing' = s + 1 /\ closing <= PoolSize
    BY <1>4, PoolSizeAssumption DEF DisconnectNext, Sockets
  <2>2. \/ /\ connectedCount' = connectedCount - 1
           /\ status' = IF connectedCount' = 0 THEN "disconnected" ELSE status
        \/ connectedCount' = connectedCount /\ status' = status
    BY <1>4 DEF DisconnectNext, HandleDisconnect, CountDown
  <2>3. CASE s < PoolSize
    BY <1>0, <2>1, <2>2, <2>3, PoolSizeAssumption
  <2>4. CASE s = PoolSize
    <3>1. \A t \in Sockets : t < closing'
      BY <2>1, <2>4, PoolSizeAssumption DEF Sockets
    <3>2. Connected' = {}
      BY <3>1 DEF PoolInv, VisitedStayIdle, Connected
    <3>3. connectedCount' = 0
      BY <3>2, FS_EmptySet DEF PoolInv, CountExact
    <3>. QED BY <1>0, <2>1, <2>2, <2>4, <3>3, PoolSizeAssumption
  <2>. QED BY <2>3, <2>4, PoolSizeAssumption DEF Sockets
<1>5. CASE Disconnect
  <2>1. closing = 0 /\ closing' = 1 /\ connectedCount' = connectedCount
        /\ status' = status
    BY <1>5 DEF Disconnect
  <2>2. CASE PoolSize = 0
    <3>1. connectedCount = 0
      BY <2>2 DEF PoolInv, PoolTypes
    <3>. QED BY <2>1, <2>2, <3>1
  <2>3. CASE PoolSize # 0
    BY <2>1, <2>3, PoolSizeAssumption
  <2>. QED BY <2>2, <2>3
<1>6. CASE UNCHANGED poolVars
  BY <1>6 DEF poolVars
<1>. QED BY <1>1, <1>2, <1>3, <1>4, <1>5, <1>6 DEF PoolNext

\* The pool implements the link the daemon relies on: connect and disconnect
\* alternate, whatever the sockets do, and disconnect() is final.
THEOREM PoolImplementsLink == PoolSpec => LinkSpec
<1>. QED
  BY LinkInit, LinkStep, PoolInvariant, PTL DEF PoolSpec, LinkSpec, Link!Spec

-----------------------------------------------------------------------------
(* The requests                                                            *)

\* Before the request event there is nothing of a request.
Fresh(i) ==
  kind[i] = "none" =>
    /\ i \notin onPipe /\ i \notin onEnd /\ i \notin answered /\ i \notin finished
    /\ relay[i] = "sending" /\ sent[i] = 0 /\ got[i] = <<>> /\ local[i] = "open"
    /\ heard[i] = 0 /\ forwarded[i] = 0 /\ batched[i] = {}

\* The body has reached the target as far as it was sent, while the target
\* listens and when it was ended.
BodyDelivered(i) ==
  /\ i \in onPipe => Delivered(i)
  /\ local[i] = "ended" => relay[i] = "ended" /\ Delivered(i)
  /\ i \in finished => relay[i] = "ended" /\ Delivered(i)
  /\ batched[i] \subseteq 1..sent[i]

\* Listeners come and go together, and with them the deferred capture.
HttpListeners(i) ==
  kind[i] \in {"http", "excluded"} =>
    /\ i \in onPipe <=> i \in onEnd
    /\ i \in onPipe => relay[i] \in {"sending", "lost"} /\ local[i] = "open"
    /\ i \in onPipe /\ i \in answered => i \in pending
    /\ i \in finished => i \notin onPipe

UpgradeListeners(i) ==
  kind[i] = "upgrade" => (i \in onPipe <=> local[i] = "open")

CapturedOnce(i) ==
  captured[i] = IF i \in finished /\ i \in answered THEN <<Capture(i)>> ELSE <<>>

HeadersThenFrames(i) ==
  kind[i] = "upgrade" =>
    /\ i \in answered <=> heard[i] >= HeaderSize
    /\ forwarded[i] = IF heard[i] > HeaderSize THEN heard[i] - HeaderSize ELSE 0

\* The types, but for the number of captures.
Types ==
  /\ kind \in [Requests -> {"none", "http", "excluded", "upgrade"}]
  /\ relay \in [Requests -> {"sending", "ended", "failed", "lost"}]
  /\ sent \in [Requests -> 0..MaxChunks]
  /\ batched \in [Requests -> SUBSET (1..MaxChunks)]
  /\ onPipe \subseteq Requests /\ onEnd \subseteq Requests
  /\ got \in [Requests -> Seq(Requests \X Nat)]
  /\ local \in [Requests -> {"open", "ended", "destroyed", "closed"}]
  /\ answered \subseteq Requests /\ finished \subseteq Http
  /\ pending \subseteq (Http \cap answered) \ finished
  /\ heard \in [Requests -> 0..MaxBytes] /\ forwarded \in [Requests -> 0..MaxBytes]

RequestInv(i) ==
  /\ Fresh(i) /\ BodyDelivered(i) /\ HttpListeners(i) /\ UpgradeListeners(i)
  /\ CapturedOnce(i) /\ HeadersThenFrames(i)

\* The inductive invariant.
IInv == Types /\ (\A i \in Requests : RequestInv(i)) /\ EndMissedOnlyIfOvertaken

-----------------------------------------------------------------------------

\* Appending the chunks that are sent to all that were sent gives them all.
LEMMA ChunksExtend ==
  ASSUME Types, NEW i \in Requests, NEW n \in 1..MaxChunks, got[i] = Whole(i),
         sent' = [sent EXCEPT ![i] = sent[i] + n]
  PROVE  got[i] \o Chunks(i, n) = Whole(i)'
<1>. DEFINE a == sent[i]
<1>1. a \in Nat /\ n \in Nat /\ sent'[i] = a + n
  BY RequestAssumption DEF Types
<1>. HIDE DEF a
<1>2. Whole(i)' = [m \in 1..(a + n) |-> <<i, m>>]
  BY <1>1 DEF Whole
<1>3. got[i] = [m \in 1..a |-> <<i, m>>] /\ Chunks(i, n) = [m \in 1..n |-> <<i, a + m>>]
  BY DEF Whole, Chunks, a
<1>4. /\ [m \in 1..a |-> <<i, m>>] \in Seq(Requests \X Nat)
      /\ [m \in 1..n |-> <<i, a + m>>] \in Seq(Requests \X Nat)
  BY <1>1
<1>5. /\ Len([m \in 1..a |-> <<i, m>>]) = a
      /\ Len([m \in 1..n |-> <<i, a + m>>]) = n
  BY <1>1
<1>6. PICK s : s = [m \in 1..a |-> <<i, m>>]
  OBVIOUS
<1>7. PICK t : t = [m \in 1..n |-> <<i, a + m>>]
  OBVIOUS
<1>8. s \in Seq(Requests \X Nat) /\ t \in Seq(Requests \X Nat) /\ Len(s) = a /\ Len(t) = n
  BY <1>4, <1>5, <1>6, <1>7
<1>9. PICK w : w = [m \in 1..(a + n) |-> <<i, m>>]
  OBVIOUS
<1>10. w \in Seq(Requests \X Nat) /\ Len(w) = a + n
  BY <1>1, <1>9
<1>11. /\ s \o t \in Seq(Requests \X Nat) /\ Len(s \o t) = a + n
       /\ \A m \in 1..(a + n) : (s \o t)[m] = IF m <= a THEN s[m] ELSE t[m - a]
  BY <1>8, ConcatProperties
<1>12. ASSUME NEW m \in 1..(a + n) PROVE (s \o t)[m] = w[m]
  <2>1. w[m] = <<i, m>>
    BY <1>9
  <2>2. CASE m <= a
    BY <2>1, <2>2, <1>1, <1>6, <1>11
  <2>3. CASE ~(m <= a)
    <3>1. m - a \in 1..n /\ a + (m - a) = m
      BY <2>3, <1>1
    <3>. QED BY <2>1, <2>3, <3>1, <1>7, <1>11
  <2>. QED BY <2>2, <2>3
<1>13. s \o t = w
  BY <1>10, <1>11, <1>12, SeqEqual
<1>. QED BY <1>2, <1>3, <1>6, <1>7, <1>9, <1>13

\* The chunks of i numbered in K, in order.
InOrder(s, i, K) ==
  /\ \A m, n \in DOMAIN s : m < n => s[m][2] < s[n][2]
  /\ {s[m] : m \in DOMAIN s} = {i} \X K

\* One chunk more, after all that came before.
LEMMA OneChunkMore ==
  ASSUME NEW i \in Requests, NEW s \in Seq(Requests \X Nat), NEW a \in Nat, NEW K \in SUBSET (1..a),
         InOrder(s, i, K)
  PROVE  InOrder(Append(s, <<i, a + 1>>), i, K \cup {a + 1})
<1>1. PICK c : c = <<i, a + 1>>
  OBVIOUS
<1>2. c \in Requests \X Nat /\ c[2] = a + 1
  BY <1>1
<1>3. PICK g : g = Append(s, c)
  OBVIOUS
<1>4. Len(s) \in Nat /\ DOMAIN s = 1..Len(s)
  OBVIOUS
<1>5. g \in Seq(Requests \X Nat) /\ Len(g) = Len(s) + 1
  BY <1>2, <1>3
<1>6. DOMAIN g = 1..(Len(s) + 1)
  BY <1>5
<1>7. g[Len(s) + 1] = c /\ \A m \in 1..Len(s) : g[m] = s[m]
  BY <1>2, <1>3, <1>4
<1>8. ASSUME NEW m \in 1..Len(s) PROVE s[m][2] \in 1..a
  <2>1. s[m] \in {i} \X K
    BY <1>4 DEF InOrder
  <2>. QED BY <2>1
<1>9. ASSUME NEW m \in DOMAIN g, NEW n \in DOMAIN g, m < n
      PROVE  g[m][2] < g[n][2]
  <2>1. m \in 1..Len(s) /\ (n \in 1..Len(s) \/ n = Len(s) + 1)
    BY <1>4, <1>6, <1>9
  <2>2. CASE n \in 1..Len(s)
    <3>1. s[m][2] < s[n][2]
      BY <1>4, <1>9, <2>1, <2>2 DEF InOrder
    <3>. QED BY <1>7, <2>1, <2>2, <3>1
  <2>3. CASE n = Len(s) + 1
    <3>1. g[m] = s[m] /\ g[n] = c
      BY <1>7, <2>1, <2>3
    <3>2. s[m][2] \in 1..a
      BY <1>8, <2>1
    <3>. QED BY <1>2, <3>1, <3>2
  <2>. QED BY <2>1, <2>2, <2>3
<1>10. {g[m] : m \in DOMAIN g} = {s[m] : m \in DOMAIN s} \cup {c}
  <2>1. DOMAIN g = DOMAIN s \cup {Len(s) + 1}
    BY <1>4, <1>6
  <2>. QED BY <1>4, <1>7, <2>1
<1>11. {g[m] : m \in DOMAIN g} = {i} \X (K \cup {a + 1})
  <2>1. {s[m] : m \in DOMAIN s} = {i} \X K
    BY DEF InOrder
  <2>. QED BY <1>1, <1>10, <2>1
<1>. QED BY <1>1, <1>3, <1>9, <1>11 DEF InOrder

\* A socket starts without requests.
LEMMA InvariantInit == Init => IInv
<1>. SUFFICES ASSUME Init PROVE IInv
  OBVIOUS
<1>1. Types
  <2>1. <<>> \in Seq(Requests \X Nat)
    OBVIOUS
  <2>. QED BY <2>1, RequestAssumption DEF Init, Types, Http
<1>2. ASSUME NEW i \in Requests
      PROVE  RequestInv(i)
  BY RequestAssumption DEF Init, RequestInv, Fresh, BodyDelivered, HttpListeners,
       UpgradeListeners, CapturedOnce, HeadersThenFrames
<1>3. EndMissedOnlyIfOvertaken
  BY DEF Init, EndMissedOnlyIfOvertaken, Upgrades
<1>. QED BY <1>1, <1>2, <1>3 DEF IInv

-----------------------------------------------------------------------------
(* The steps                                                               *)

\* A request arrives, http, excluded or an upgrade.
LEMMA RequestStep ==
  ASSUME IInv, NEW r \in Requests, Request(r)
  PROVE  IInv'
<1>1. PICK k \in {"http", "excluded", "upgrade"} : kind' = [kind EXCEPT ![r] = k]
  BY DEF Request
<1>2. /\ kind[r] = "none" /\ onPipe' = onPipe \cup {r} /\ onEnd' = onEnd \cup {r}
      /\ UNCHANGED <<relay, sent, batched, got, local, answered, finished, pending, captured, heard, forwarded>>
  BY DEF Request, body, target, capture, stream
<1>3. Fresh(r) /\ Types
  BY DEF IInv, RequestInv
<1>4. Types'
  BY <1>1, <1>2, <1>3 DEF Types, Http, Fresh
<1>5. ASSUME NEW i \in Requests
      PROVE  RequestInv(i)'
  <2>1. RequestInv(i)
    BY DEF IInv
  <2>2. CASE i = r
    <3>1. Delivered(r)'
      <4>1. got'[r] = <<>> /\ sent'[r] = 0 /\ batched'[r] = {}
        BY <1>2, <1>3 DEF Fresh
      <4>2. got'[r] = Whole(r)'
        BY <4>1 DEF Whole
      <4>3. DOMAIN got'[r] = {}
        BY <4>1
      <4>4. {got'[r][m] : m \in DOMAIN got'[r]} = {r} \X ((1..sent'[r]) \ batched'[r])
        BY <4>1, <4>3
      <4>. QED BY <4>2, <4>3, <4>4 DEF Delivered
    <3>2. CapturedOnce(i)'
      BY <1>2, <1>3, <2>1, <2>2 DEF RequestInv, CapturedOnce, Fresh
    <3>3. HeadersThenFrames(i)'
      BY <1>1, <1>2, <1>3, <2>2, RequestAssumption DEF HeadersThenFrames, Fresh, Types
    <3>. QED BY <1>1, <1>2, <1>3, <2>1, <2>2, <3>1, <3>2, <3>3
           DEF RequestInv, Fresh, BodyDelivered, HttpListeners, UpgradeListeners, Types
  <2>3. CASE i # r
    <3>1. kind'[i] = kind[i] /\ (i \in onPipe' <=> i \in onPipe) /\ (i \in onEnd' <=> i \in onEnd)
      BY <1>1, <1>2, <1>3, <2>3 DEF Types
    <3>. QED BY <1>2, <2>1, <3>1 DEF RequestInv, Fresh, BodyDelivered, HttpListeners,
           UpgradeListeners, CapturedOnce, HeadersThenFrames, Whole, Delivered, Capture
  <2>. QED BY <2>2, <2>3
<1>6. EndMissedOnlyIfOvertaken'
  BY <1>1, <1>2, <1>3 DEF IInv, EndMissedOnlyIfOvertaken, Upgrades, Types
<1>. QED BY <1>4, <1>5, <1>6 DEF IInv

\* Chunks of a body arrive for the listeners in S: it is enough that their target
\* then has what it is due, and that nobody else is given anything.
LEMMA SendStep ==
  ASSUME IInv, NEW r \in Requests, NEW n \in 1..MaxChunks, NEW S, Send(r, n, S), S \subseteq {r},
         \A i \in Requests \ {r} : batched'[i] = batched[i],
         batched' \in [Requests -> SUBSET (1..MaxChunks)],
         batched'[r] \subseteq 1..(sent[r] + n),
         r \in onPipe => Delivered(r)'
  PROVE  IInv'
<1>1. /\ kind[r] # "none" /\ relay[r] = "sending" /\ sent[r] + n <= MaxChunks
      /\ sent' = [sent EXCEPT ![r] = sent[r] + n]
      /\ UNCHANGED <<kind, relay, onPipe, onEnd, local, answered, finished, pending,
                     captured, heard, forwarded>>
  BY DEF Send, Sending, listeners, capture, stream
<1>2. Types
  BY DEF IInv
<1>3. /\ got'[r] = got[r] \o Chunks(r, n) \/ got'[r] = got[r]
      /\ \A i \in Requests \ {r} : got'[i] = got[i]
      /\ got' = [i \in Requests |-> got'[i]]
  BY DEF Send
<1>4. got[r] \in Seq(Requests \X Nat) /\ sent[r] \in Nat /\ n \in Nat
  BY <1>2, RequestAssumption DEF Types
<1>5. Chunks(r, n) \in Seq(Requests \X Nat)
  BY <1>4 DEF Chunks
<1>6. Types'
  <2>1. sent' \in [Requests -> 0..MaxChunks]
    BY <1>1, <1>2, <1>4, RequestAssumption DEF Types
  <2>2. got[r] \o Chunks(r, n) \in Seq(Requests \X Nat)
    BY <1>4, <1>5
  <2>3. \A i \in Requests : got'[i] \in Seq(Requests \X Nat)
    BY <1>2, <1>3, <2>2 DEF Types
  <2>4. got' \in [Requests -> Seq(Requests \X Nat)]
    BY <1>3, <2>3
  <2>. QED BY <1>1, <1>2, <2>1, <2>4 DEF Types, Http
<1>7. ASSUME NEW i \in Requests
      PROVE  RequestInv(i)'
  <2>1. RequestInv(i)
    BY DEF IInv
  <2>2. CASE i = r
    <3>1. r \notin finished /\ local[r] # "ended" /\ sent'[r] = sent[r] + n
      BY <1>1, <1>2, <2>1, <2>2 DEF RequestInv, BodyDelivered, Types
    <3>2. BodyDelivered(r)'
      BY <1>1, <3>1 DEF BodyDelivered
    <3>3. CapturedOnce(r)'
      BY <1>1, <2>1, <2>2, <3>1 DEF RequestInv, CapturedOnce
    <3>. QED BY <1>1, <2>1, <2>2, <3>2, <3>3 DEF RequestInv, Fresh,
           HttpListeners, UpgradeListeners, HeadersThenFrames
  <2>3. CASE i # r
    <3>1. got'[i] = got[i] /\ sent'[i] = sent[i] /\ batched'[i] = batched[i]
      BY <1>1, <1>2, <1>3, <2>3 DEF Types
    <3>2. (Delivered(i)' <=> Delivered(i)) /\ Capture(i)' = Capture(i)
      <4>1. Whole(i)' = Whole(i) /\ kind'[i] = kind[i]
        BY <1>1, <3>1 DEF Whole
      <4>2. Capture(i)' = Capture(i)
        BY <3>1, <4>1 DEF Capture
      <4>3. {got'[i][m] : m \in DOMAIN got'[i]} = {got[i][m] : m \in DOMAIN got[i]}
        BY <3>1
      <4>4. Delivered(i)' <=> Delivered(i)
        BY <3>1, <4>1, <4>3 DEF Delivered
      <4>. QED BY <4>2, <4>4
    <3>. QED BY <1>1, <2>1, <3>1, <3>2 DEF RequestInv, Fresh, BodyDelivered, HttpListeners,
           UpgradeListeners, CapturedOnce, HeadersThenFrames
  <2>. QED BY <2>2, <2>3
<1>8. EndMissedOnlyIfOvertaken'
  BY <1>1 DEF IInv, EndMissedOnlyIfOvertaken, Upgrades
<1>. QED BY <1>6, <1>7, <1>8 DEF IInv

\* A chunk arrives by itself, for whoever listens.
LEMMA PipeStep ==
  ASSUME IInv, NEW r \in Requests, Pipe(r)
  PROVE  IInv'
<1>1. /\ Send(r, 1, onPipe \cap {r}) /\ batched' = batched /\ kind' = kind
      /\ sent' = [sent EXCEPT ![r] = sent[r] + 1] /\ sent[r] + 1 <= MaxChunks
  BY DEF Pipe, Send
<1>2. Types /\ BodyDelivered(r) /\ 1 \in 1..MaxChunks
  <2>1. Types /\ RequestInv(r)
    BY DEF IInv
  <2>2. sent[r] \in Nat /\ MaxChunks \in Nat
    BY <2>1, RequestAssumption DEF Types
  <2>. QED BY <1>1, <2>1, <2>2 DEF RequestInv
<1>3. sent[r] \in Nat /\ sent'[r] = sent[r] + 1 /\ batched[r] \subseteq 1..sent[r]
  BY <1>1, <1>2 DEF Types, BodyDelivered
<1>4. ASSUME r \in onPipe
      PROVE  Delivered(r)'
  <2>1. Delivered(r) /\ got'[r] = got[r] \o Chunks(r, 1)
    BY <1>1, <1>2, <1>4 DEF BodyDelivered, Send
  <2>2. CASE kind[r] # "upgrade"
    <3>1. got'[r] = Whole(r)'
      BY <1>1, <1>2, <2>1, <2>2, ChunksExtend DEF Delivered
    <3>. QED BY <1>1, <2>2, <3>1 DEF Delivered
  <2>3. CASE kind[r] = "upgrade"
    <3>1. InOrder(got[r], r, (1..sent[r]) \ batched[r])
      BY <2>1, <2>3 DEF Delivered, InOrder
    <3>2. got[r] \in Seq(Requests \X Nat) /\ Chunks(r, 1) = <<<<r, sent[r] + 1>>>>
      BY <1>2, <1>3 DEF Types, Chunks
    <3>3. got'[r] = Append(got[r], <<r, sent[r] + 1>>)
      <4>1. PICK c : c = <<r, sent[r] + 1>>
        OBVIOUS
      <4>2. c \in Requests \X Nat
        BY <1>3, <4>1
      <4>3. got'[r] = got[r] \o <<c>>
        BY <2>1, <3>2, <4>1
      <4>. QED BY <3>2, <4>1, <4>2, <4>3
    <3>4. InOrder(Append(got[r], <<r, sent[r] + 1>>), r, ((1..sent[r]) \ batched[r]) \cup {sent[r] + 1})
      <4>1. (1..sent[r]) \ batched[r] \in SUBSET (1..sent[r])
        OBVIOUS
      <4>. QED BY <1>3, <3>1, <3>2, <4>1, OneChunkMore
    <3>5. ((1..sent[r]) \ batched[r]) \cup {sent[r] + 1} = (1..sent'[r]) \ batched'[r]
      BY <1>1, <1>3
    <3>. QED BY <1>1, <2>3, <3>3, <3>4, <3>5 DEF Delivered, InOrder
  <2>. QED BY <2>2, <2>3
<1>5. batched'[r] \subseteq 1..(sent[r] + 1)
  BY <1>1, <1>3
<1>6. onPipe \cap {r} \subseteq {r} /\ batched' \in [Requests -> SUBSET (1..MaxChunks)]
  BY <1>1, <1>2 DEF Types
<1>. QED BY <1>1, <1>2, <1>4, <1>5, <1>6, SendStep

\* A batch arrives, which the targets of upgrades miss.
LEMMA PipesStep ==
  ASSUME IInv, NEW r \in Requests, NEW n \in 1..MaxChunks, Pipes(r, n)
  PROVE  IInv'
<1>1. /\ Send(r, n, onPipe \cap {r} \cap Http) /\ kind' = kind /\ sent[r] + n <= MaxChunks
      /\ sent' = [sent EXCEPT ![r] = sent[r] + n]
      /\ r \in Upgrades => batched' = [batched EXCEPT ![r] = batched[r] \cup ((sent[r] + 1) .. (sent[r] + n))]
      /\ r \notin Upgrades => batched' = batched
  BY DEF Pipes, Send
<1>2. Types /\ BodyDelivered(r)
  BY DEF IInv, RequestInv
<1>3. /\ sent[r] \in Nat /\ n \in Nat \ {0} /\ MaxChunks \in Nat /\ sent'[r] = sent[r] + n
      /\ batched[r] \subseteq 1..sent[r]
  BY <1>1, <1>2, RequestAssumption DEF Types, BodyDelivered
<1>4. /\ batched' \in [Requests -> SUBSET (1..MaxChunks)]
      /\ batched'[r] \subseteq 1..(sent[r] + n)
      /\ \A i \in Requests \ {r} : batched'[i] = batched[i]
  <2>1. CASE r \in Upgrades
    <3>1. (sent[r] + 1) .. (sent[r] + n) \subseteq 1..(sent[r] + n)
      BY <1>3
    <3>2. 1..(sent[r] + n) \subseteq 1..MaxChunks /\ 1..sent[r] \subseteq 1..(sent[r] + n)
      BY <1>1, <1>3
    <3>3. PICK B : B = batched[r] \cup ((sent[r] + 1) .. (sent[r] + n))
      OBVIOUS
    <3>4. B \subseteq 1..(sent[r] + n) /\ B \subseteq 1..MaxChunks
      BY <1>3, <3>1, <3>2, <3>3
    <3>5. batched' = [batched EXCEPT ![r] = B]
      BY <1>1, <2>1, <3>3
    <3>. QED BY <1>2, <3>4, <3>5 DEF Types
  <2>2. CASE r \notin Upgrades
    <3>1. 1..sent[r] \subseteq 1..(sent[r] + n)
      BY <1>3
    <3>. QED BY <1>1, <1>2, <1>3, <2>2, <3>1 DEF Types
  <2>. QED BY <2>1, <2>2
<1>5. ASSUME r \in onPipe
      PROVE  Delivered(r)'
  <2>1. Delivered(r) /\ kind[r] # "none"
    BY <1>1, <1>2, <1>5 DEF BodyDelivered, Send, Sending
  <2>2. CASE kind[r] # "upgrade"
    <3>1. r \in Http
      BY <1>2, <2>1, <2>2 DEF Types, Http
    <3>2. got'[r] = got[r] \o Chunks(r, n)
      BY <1>1, <1>5, <3>1 DEF Send
    <3>3. got'[r] = Whole(r)'
      BY <1>1, <1>2, <2>1, <2>2, <3>2, ChunksExtend DEF Delivered
    <3>. QED BY <1>1, <2>2, <3>3 DEF Delivered
  <2>3. CASE kind[r] = "upgrade"
    <3>1. got'[r] = got[r] /\ r \in Upgrades
      BY <1>1, <2>3 DEF Send, Http, Upgrades
    <3>2. batched'[r] = batched[r] \cup ((sent[r] + 1) .. (sent[r] + n))
      BY <1>1, <1>2, <3>1 DEF Types
    <3>3. (1..sent'[r]) \ batched'[r] = (1..sent[r]) \ batched[r]
      BY <1>3, <3>2
    <3>. QED BY <1>1, <2>1, <2>3, <3>1, <3>3 DEF Delivered
  <2>. QED BY <2>2, <2>3
<1>6. onPipe \cap {r} \cap Http \subseteq {r}
  OBVIOUS
<1>. QED BY <1>1, <1>4, <1>5, <1>6, SendStep

\* The end of a body arrives.
LEMMA PipeEndStep ==
  ASSUME IInv, NEW r \in Requests, PipeEnd(r)
  PROVE  IInv'
<1>1. /\ kind[r] # "none" /\ relay[r] = "sending"
      /\ relay' = [relay EXCEPT ![r] = "ended"]
      /\ onEnd' = onEnd \ (Upgrades \cup {r}) /\ onPipe' = onPipe \ ({r} \cap onEnd)
      /\ finished' = finished \cup (({r} \cap onEnd) \cap Http)
      /\ pending' = pending \ ({r} \cap onEnd)
      /\ UNCHANGED <<kind, sent, batched, got, answered, heard, forwarded>>
  BY DEF PipeEnd, Ends, Sending, BodyKnown, stream
<1>2. /\ local' = [j \in Requests |-> IF j \in {r} \cap onEnd /\ local[j] = "open"
                                         THEN "ended" ELSE local[j]]
      /\ captured' = [i \in Requests |-> IF i \in ({r} \cap onEnd) \cap pending
                        THEN Append(captured[i], Capture(i)) ELSE captured[i]]
  BY DEF PipeEnd, Leave, BodyKnown, EmitCaptured
<1>3. Types
  BY DEF IInv
<1>4. Types'
  <2>1. local' \in [Requests -> {"open", "ended", "destroyed", "closed"}]
    BY <1>2, <1>3 DEF Types
  <2>. QED BY <1>1, <1>3, <2>1 DEF Types, Http
<1>5. ASSUME NEW i \in Requests
      PROVE  RequestInv(i)'
  <2>1. RequestInv(i)
    BY DEF IInv
  <2>2. (Delivered(i)' <=> Delivered(i)) /\ Capture(i)' = Capture(i)
    BY <1>1 DEF Whole, Delivered, Capture
  <2>3. CASE i # r
    <3>1. /\ relay'[i] = relay[i] /\ local'[i] = local[i] /\ captured'[i] = captured[i]
          /\ (i \in onPipe' <=> i \in onPipe)
          /\ kind[i] # "upgrade" => (i \in onEnd' <=> i \in onEnd)
          /\ i \notin onEnd => i \notin onEnd'
          /\ (i \in finished' <=> i \in finished) /\ (i \in pending' <=> i \in pending)
      BY <1>1, <1>2, <1>3, <2>3 DEF Types, Upgrades
    <3>2. Fresh(i)' /\ BodyDelivered(i)' /\ HttpListeners(i)' /\ UpgradeListeners(i)'
      BY <1>1, <2>1, <2>2, <3>1 DEF RequestInv, Fresh, BodyDelivered, HttpListeners, UpgradeListeners
    <3>3. CapturedOnce(i)' /\ HeadersThenFrames(i)'
      BY <1>1, <2>1, <2>2, <3>1 DEF RequestInv, CapturedOnce, HeadersThenFrames
    <3>. QED BY <3>2, <3>3 DEF RequestInv
  <2>4. CASE i = r
    <3>1. relay'[r] = "ended" /\ relay[r] = "sending" /\ r \notin finished /\ local[r] # "ended"
      BY <1>1, <1>3, <2>1, <2>4 DEF Types, RequestInv, BodyDelivered
    <3>2. CASE r \in onEnd
      <4>1. /\ local'[r] = IF local[r] = "open" THEN "ended" ELSE local[r]
            /\ r \notin onPipe' /\ r \notin onEnd' /\ r \notin pending'
            /\ r \in finished' <=> kind[r] \in {"http", "excluded"}
        BY <1>1, <1>2, <1>3, <3>1, <3>2 DEF Http, Types
      <4>2. local[r] = "open" => Delivered(r)
        BY <1>1, <1>3, <2>1, <2>4, <3>2
          DEF Types, RequestInv, BodyDelivered, HttpListeners, UpgradeListeners
      <4>3. kind[r] \in {"http", "excluded"} => Delivered(r) /\ local[r] = "open"
        BY <2>1, <2>4, <3>2 DEF RequestInv, BodyDelivered, HttpListeners
      <4>4. CapturedOnce(r)'
        <5>1. captured[r] = <<>>
          BY <2>1, <2>4, <3>1 DEF RequestInv, CapturedOnce
        <5>2. r \in pending <=> kind[r] \in {"http", "excluded"} /\ r \in answered
          <6>1. r \in pending => kind[r] \in {"http", "excluded"} /\ r \in answered
            BY <1>3 DEF Types, Http
          <6>. QED BY <2>1, <2>4, <3>2, <6>1 DEF RequestInv, HttpListeners
        <5>3. captured'[r] = IF r \in pending THEN <<Capture(r)>> ELSE <<>>
          <6>1. captured'[r] = IF r \in pending THEN Append(captured[r], Capture(r)) ELSE captured[r]
            BY <1>2, <3>2
          <6>2. Append(<<>>, Capture(r)) = <<Capture(r)>>
            OBVIOUS
          <6>. QED BY <5>1, <6>1, <6>2
        <5>. QED BY <1>1, <2>2, <2>4, <4>1, <5>2, <5>3 DEF CapturedOnce
      <4>5. Fresh(r)' /\ HeadersThenFrames(r)'
        BY <1>1, <2>1, <2>4 DEF RequestInv, Fresh, HeadersThenFrames
      <4>6. BodyDelivered(r)'
        BY <1>1, <2>1, <2>2, <2>4, <3>1, <4>1, <4>2, <4>3 DEF BodyDelivered, RequestInv
      <4>7. HttpListeners(r)' /\ UpgradeListeners(r)'
        BY <1>1, <4>1 DEF HttpListeners, UpgradeListeners
      <4>. QED BY <2>4, <4>4, <4>5, <4>6, <4>7 DEF RequestInv
    <3>3. CASE r \notin onEnd
      <4>1. /\ local'[r] = local[r] /\ captured'[r] = captured[r]
            /\ (r \in onPipe' <=> r \in onPipe) /\ r \notin onEnd'
            /\ (r \in finished' <=> r \in finished) /\ (r \in pending' <=> r \in pending)
        BY <1>1, <1>2, <3>3
      <4>2. Fresh(r)' /\ BodyDelivered(r)' /\ HttpListeners(r)' /\ UpgradeListeners(r)'
        BY <1>1, <2>1, <2>2, <2>4, <3>1, <3>3, <4>1
          DEF RequestInv, Fresh, BodyDelivered, HttpListeners, UpgradeListeners
      <4>3. CapturedOnce(r)' /\ HeadersThenFrames(r)'
        BY <1>1, <2>1, <2>2, <2>4, <4>1 DEF RequestInv, CapturedOnce, HeadersThenFrames
      <4>. QED BY <2>4, <4>2, <4>3 DEF RequestInv
    <3>. QED BY <3>2, <3>3
  <2>. QED BY <2>3, <2>4
<1>6. EndMissedOnlyIfOvertaken'
  <2>1. SUFFICES ASSUME NEW i \in Upgrades, i \notin onEnd', local'[i] = "open"
                 PROVE  \E j \in Requests \ {i} : relay'[j] = "ended"
    BY <1>1 DEF EndMissedOnlyIfOvertaken, Upgrades
  <2>2. relay'[r] = "ended" /\ \A j \in Requests : relay[j] = "ended" => relay'[j] = "ended"
    BY <1>1, <1>3 DEF Types
  <2>3. CASE i # r
    BY <2>2, <2>3
  <2>4. CASE i = r
    <3>1. i \notin onEnd /\ local[i] = "open"
      BY <1>2, <2>1, <2>4 DEF Upgrades
    <3>. QED BY <2>1, <2>2, <3>1 DEF IInv, EndMissedOnlyIfOvertaken
  <2>. QED BY <2>3, <2>4
<1>. QED BY <1>4, <1>5, <1>6 DEF IInv

\* The relay reports that a request is lost.
LEMMA PipeErrorStep ==
  ASSUME IInv, NEW r \in Requests, PipeError(r)
  PROVE  IInv'
<1>1. /\ kind[r] # "none" /\ relay[r] = "sending"
      /\ relay' = [relay EXCEPT ![r] = "failed"]
      /\ onPipe' = onPipe \ ({r} \cap onEnd \cap Http) /\ onEnd' = onEnd \ ({r} \cap onEnd \cap Http)
      /\ pending' = pending \ ({r} \cap onEnd \cap Http)
      /\ local' = [j \in Requests |-> IF j \in ({r} \cap onEnd \cap Http) /\ local[j] = "open"
                                         THEN "destroyed" ELSE local[j]]
      /\ UNCHANGED <<kind, sent, batched, got, answered, finished, captured, heard, forwarded>>
  BY DEF PipeError, Ends, Sending, Leave, stream
<1>2. Types
  BY DEF IInv
<1>4. Types'
  <2>1. local' \in [Requests -> {"open", "ended", "destroyed", "closed"}]
    BY <1>1, <1>2 DEF Types
  <2>. QED BY <1>1, <1>2, <2>1 DEF Types, Http
<1>5. ASSUME NEW i \in Requests
      PROVE  RequestInv(i)'
  <2>1. RequestInv(i)
    BY DEF IInv
  <2>2. (Delivered(i)' <=> Delivered(i)) /\ Capture(i)' = Capture(i)
    BY <1>1 DEF Whole, Delivered, Capture
  <2>3. CASE i # r
    <3>1. /\ relay'[i] = relay[i] /\ local'[i] = local[i]
          /\ (i \in onPipe' <=> i \in onPipe) /\ (i \in onEnd' <=> i \in onEnd)
          /\ (i \in pending' <=> i \in pending)
      BY <1>1, <1>2, <2>3 DEF Types
    <3>2. Fresh(i)' /\ BodyDelivered(i)' /\ HttpListeners(i)' /\ UpgradeListeners(i)'
      BY <1>1, <2>1, <2>2, <3>1 DEF RequestInv, Fresh, BodyDelivered, HttpListeners, UpgradeListeners
    <3>3. CapturedOnce(i)' /\ HeadersThenFrames(i)'
      BY <1>1, <2>1, <2>2, <3>1 DEF RequestInv, CapturedOnce, HeadersThenFrames
    <3>. QED BY <3>2, <3>3 DEF RequestInv
  <2>4. CASE i = r
    <3>1. relay'[r] = "failed" /\ relay[r] = "sending" /\ r \notin finished /\ local[r] # "ended"
      BY <1>1, <1>2, <2>1, <2>4 DEF Types, RequestInv, BodyDelivered
    <3>2. CapturedOnce(r)' /\ HeadersThenFrames(r)' /\ Fresh(r)'
      BY <1>1, <2>1, <2>2, <2>4 DEF RequestInv, CapturedOnce, HeadersThenFrames, Fresh
    <3>3. BodyDelivered(r)'
      BY <1>1, <2>1, <2>2, <2>4, <3>1 DEF RequestInv, BodyDelivered
    <3>4. CASE kind[r] = "upgrade"
      <4>1. r \notin Http
        BY <3>4 DEF Http
      <4>2. (r \in onPipe' <=> r \in onPipe) /\ local'[r] = local[r]
        BY <1>1, <4>1
      <4>. QED BY <1>1, <2>1, <2>4, <3>2, <3>3, <3>4, <4>2
             DEF RequestInv, HttpListeners, UpgradeListeners
    <3>5. CASE kind[r] # "upgrade"
      <4>1. r \in Http
        BY <1>1, <1>2, <3>5 DEF Http, Types
      <4>2. r \notin onPipe' /\ r \notin onEnd'
        BY <1>1, <2>1, <2>4, <4>1 DEF RequestInv, HttpListeners, Http
      <4>. QED BY <1>1, <2>4, <3>1, <3>2, <3>3, <3>5, <4>2 DEF RequestInv, HttpListeners, UpgradeListeners
    <3>. QED BY <3>4, <3>5
  <2>. QED BY <2>3, <2>4
<1>6. EndMissedOnlyIfOvertaken'
  <2>1. SUFFICES ASSUME NEW i \in Upgrades, i \notin onEnd', local'[i] = "open"
                 PROVE  \E j \in Requests \ {i} : relay'[j] = "ended"
    BY <1>1 DEF EndMissedOnlyIfOvertaken, Upgrades
  <2>2. i \notin Http /\ i \in Requests
    BY DEF Upgrades, Http
  <2>3. i \notin onEnd /\ local[i] = "open"
    BY <1>1, <2>1, <2>2
  <2>4. PICK j \in Requests \ {i} : relay[j] = "ended"
    BY <2>3 DEF IInv, EndMissedOnlyIfOvertaken
  <2>. QED BY <1>1, <1>2, <2>4 DEF Types
<1>. QED BY <1>4, <1>5, <1>6 DEF IInv

\* The socket drops, with the requests still being sent.
LEMMA SocketDropsStep ==
  ASSUME IInv, SocketDrops
  PROVE  IInv'
<1>1. /\ relay' = [i \in Requests |-> IF Sending(i) THEN "lost" ELSE relay[i]]
      /\ UNCHANGED <<kind, sent, batched, onPipe, onEnd, got, local, answered, finished, pending,
                     captured, heard, forwarded>>
  BY DEF SocketDrops, listeners, target, capture, stream
<1>2. Types
  BY DEF IInv
<1>3. \A i \in Requests : relay'[i] = relay[i] \/ (kind[i] # "none" /\ relay[i] = "sending" /\ relay'[i] = "lost")
  BY <1>1 DEF Sending
<1>4. Types'
  <2>1. relay' \in [Requests -> {"sending", "ended", "failed", "lost"}]
    BY <1>1, <1>2 DEF Types
  <2>. QED BY <1>1, <1>2, <2>1 DEF Types, Http
<1>5. ASSUME NEW i \in Requests
      PROVE  RequestInv(i)'
  <2>1. RequestInv(i)
    BY DEF IInv
  <2>2. (Delivered(i)' <=> Delivered(i)) /\ Capture(i)' = Capture(i)
    BY <1>1 DEF Whole, Delivered, Capture
  <2>3. Fresh(i)' /\ BodyDelivered(i)' /\ HttpListeners(i)' /\ UpgradeListeners(i)'
    BY <1>1, <1>3, <2>1, <2>2 DEF RequestInv, Fresh, BodyDelivered, HttpListeners, UpgradeListeners
  <2>4. CapturedOnce(i)' /\ HeadersThenFrames(i)'
    BY <1>1, <2>1, <2>2 DEF RequestInv, CapturedOnce, HeadersThenFrames
  <2>. QED BY <2>3, <2>4 DEF RequestInv
<1>6. EndMissedOnlyIfOvertaken'
  BY <1>1, <1>3 DEF IInv, EndMissedOnlyIfOvertaken, Upgrades
<1>. QED BY <1>4, <1>5, <1>6 DEF IInv

\* The local target answers.
LEMMA AnswerStep ==
  ASSUME IInv, NEW r \in Requests, Answer(r)
  PROVE  IInv'
<1>1. /\ r \in Http /\ r \notin answered
      /\ answered' = answered \cup {r} /\ pending' = pending \cup ({r} \ finished)
      /\ UNCHANGED <<kind, relay, sent, batched, onPipe, onEnd, got, local, finished, heard, forwarded>>
  BY DEF Answer, body, listeners, target, stream
<1>2. Types
  BY DEF IInv
<1>3. /\ captured'[r] = IF r \in finished THEN Append(captured[r], Capture(r)) ELSE captured[r]
      /\ \A i \in Requests \ {r} : captured'[i] = captured[i]
  BY DEF Answer, EmitCaptured
<1>4. Types'
  BY <1>1, <1>2 DEF Types, Http
<1>5. ASSUME NEW i \in Requests
      PROVE  RequestInv(i)'
  <2>1. RequestInv(i)
    BY DEF IInv
  <2>2. (Delivered(i)' <=> Delivered(i)) /\ Capture(i)' = Capture(i)
    BY <1>1 DEF Whole, Delivered, Capture
  <2>3. CASE i # r
    <3>1. /\ captured'[i] = captured[i]
          /\ (i \in answered' <=> i \in answered) /\ (i \in pending' <=> i \in pending)
      BY <1>1, <1>3, <2>3
    <3>2. Fresh(i)' /\ BodyDelivered(i)' /\ HttpListeners(i)' /\ UpgradeListeners(i)'
      BY <1>1, <2>1, <2>2, <3>1 DEF RequestInv, Fresh, BodyDelivered, HttpListeners, UpgradeListeners
    <3>3. CapturedOnce(i)' /\ HeadersThenFrames(i)'
      BY <1>1, <2>1, <2>2, <3>1 DEF RequestInv, CapturedOnce, HeadersThenFrames
    <3>. QED BY <3>2, <3>3 DEF RequestInv
  <2>4. CASE i = r
    <3>1. kind[r] \in {"http", "excluded"} /\ r \in answered'
      BY <1>1 DEF Http
    <3>2. Fresh(r)' /\ BodyDelivered(r)' /\ UpgradeListeners(r)' /\ HeadersThenFrames(r)'
      BY <1>1, <2>1, <2>2, <2>4, <3>1
        DEF RequestInv, Fresh, BodyDelivered, UpgradeListeners, HeadersThenFrames
    <3>3. HttpListeners(r)'
      BY <1>1, <2>1, <2>4 DEF RequestInv, HttpListeners
    <3>4. CapturedOnce(r)'
      <4>1. captured[r] = <<>>
        BY <1>1, <2>1, <2>4 DEF RequestInv, CapturedOnce
      <4>2. Append(<<>>, Capture(r)) = <<Capture(r)>>
        OBVIOUS
      <4>. QED BY <1>1, <1>3, <2>2, <2>4, <3>1, <4>1, <4>2 DEF CapturedOnce
    <3>. QED BY <2>4, <3>2, <3>3, <3>4 DEF RequestInv
  <2>. QED BY <2>3, <2>4
<1>6. EndMissedOnlyIfOvertaken'
  BY <1>1 DEF IInv, EndMissedOnlyIfOvertaken, Upgrades
<1>. QED BY <1>4, <1>5, <1>6 DEF IInv

\* The connection to the local target fails.
LEMMA LocalErrorStep ==
  ASSUME IInv, NEW r \in Requests, LocalError(r)
  PROVE  IInv'
<1>1. /\ r \in Http /\ local' = [local EXCEPT ![r] = "closed"]
      /\ onPipe' = onPipe \ {r} /\ onEnd' = onEnd \ {r}
      /\ UNCHANGED <<kind, relay, sent, batched, got, answered, finished, pending, captured, heard, forwarded>>
  BY DEF LocalError, body, capture, stream
<1>2. Types
  BY DEF IInv
<1>4. Types'
  BY <1>1, <1>2 DEF Types, Http
<1>5. ASSUME NEW i \in Requests
      PROVE  RequestInv(i)'
  <2>1. RequestInv(i)
    BY DEF IInv
  <2>2. (Delivered(i)' <=> Delivered(i)) /\ Capture(i)' = Capture(i)
    BY <1>1 DEF Whole, Delivered, Capture
  <2>3. CASE i # r
    <3>1. /\ local'[i] = local[i]
          /\ (i \in onPipe' <=> i \in onPipe) /\ (i \in onEnd' <=> i \in onEnd)
      BY <1>1, <1>2, <2>3 DEF Types
    <3>2. Fresh(i)' /\ BodyDelivered(i)' /\ HttpListeners(i)' /\ UpgradeListeners(i)'
      BY <1>1, <2>1, <2>2, <3>1 DEF RequestInv, Fresh, BodyDelivered, HttpListeners, UpgradeListeners
    <3>3. CapturedOnce(i)' /\ HeadersThenFrames(i)'
      BY <1>1, <2>1, <2>2, <3>1 DEF RequestInv, CapturedOnce, HeadersThenFrames
    <3>. QED BY <3>2, <3>3 DEF RequestInv
  <2>4. CASE i = r
    <3>1. kind[r] \in {"http", "excluded"} /\ local'[r] = "closed" /\ r \notin onPipe' /\ r \notin onEnd'
      BY <1>1, <1>2 DEF Http, Types
    <3>2. CapturedOnce(r)' /\ HeadersThenFrames(r)' /\ Fresh(r)'
      BY <1>1, <2>1, <2>2, <2>4, <3>1 DEF RequestInv, CapturedOnce, HeadersThenFrames, Fresh
    <3>3. BodyDelivered(r)' /\ HttpListeners(r)' /\ UpgradeListeners(r)'
      BY <1>1, <2>1, <2>2, <2>4, <3>1 DEF RequestInv, BodyDelivered, HttpListeners, UpgradeListeners
    <3>. QED BY <2>4, <3>2, <3>3 DEF RequestInv
  <2>. QED BY <2>3, <2>4
<1>6. EndMissedOnlyIfOvertaken'
  <2>1. \A i \in Upgrades : (i \in onEnd' <=> i \in onEnd) /\ local'[i] = local[i]
    BY <1>1, <1>2 DEF Upgrades, Http, Types
  <2>. QED BY <1>1, <2>1 DEF IInv, EndMissedOnlyIfOvertaken, Upgrades
<1>. QED BY <1>4, <1>5, <1>6 DEF IInv

\* The local target of an upgrade sends bytes.
LEMMA DataStep ==
  ASSUME IInv, NEW r \in Requests, NEW n \in 1..MaxBytes, Data(r, n)
  PROVE  IInv'
<1>1. /\ r \in Upgrades /\ local[r] # "closed" /\ heard[r] + n <= MaxBytes
      /\ heard' = [heard EXCEPT ![r] = heard[r] + n]
      /\ UNCHANGED <<kind, relay, sent, batched, onPipe, onEnd, got, local, finished, pending, captured>>
  BY DEF Data, body, listeners, target
<1>2. \/ /\ r \in answered
         /\ forwarded' = [forwarded EXCEPT ![r] = @ + n]
         /\ UNCHANGED answered
      \/ /\ r \notin answered /\ heard[r] + n < HeaderSize
         /\ UNCHANGED <<forwarded, answered>>
      \/ /\ r \notin answered /\ heard[r] + n >= HeaderSize
         /\ answered' = answered \cup {r}
         /\ forwarded' = [forwarded EXCEPT ![r] = heard[r] + n - HeaderSize]
  BY DEF Data
<1>3. Types /\ kind[r] = "upgrade" /\ r \notin Http
  BY <1>1 DEF IInv, Upgrades, Http
<1>4. /\ heard[r] \in Nat /\ heard[r] + n \in 0..MaxBytes /\ forwarded[r] \in Nat
      /\ HeaderSize \in Nat \ {0} /\ n \in Nat \ {0}
      /\ r \in answered <=> heard[r] >= HeaderSize
      /\ forwarded[r] = IF heard[r] > HeaderSize THEN heard[r] - HeaderSize ELSE 0
  <2>1. HeadersThenFrames(r)
    BY DEF IInv, RequestInv
  <2>. QED BY <1>1, <1>3, <2>1, RequestAssumption DEF Types, HeadersThenFrames
<1>5. /\ heard'[r] = heard[r] + n
      /\ r \in answered' <=> heard'[r] >= HeaderSize
      /\ forwarded'[r] = IF heard'[r] > HeaderSize THEN heard'[r] - HeaderSize ELSE 0
  <2>1. heard'[r] = heard[r] + n
    BY <1>1, <1>3 DEF Types
  <2>2. CASE r \in answered
    <3>1. forwarded'[r] = forwarded[r] + n /\ answered' = answered
      BY <1>2, <1>3, <2>2 DEF Types
    <3>. QED BY <1>4, <2>1, <2>2, <3>1
  <2>3. CASE r \notin answered /\ heard[r] + n < HeaderSize
    BY <1>2, <1>4, <2>1, <2>3
  <2>4. CASE r \notin answered /\ heard[r] + n >= HeaderSize
    <3>1. forwarded'[r] = heard[r] + n - HeaderSize /\ r \in answered'
      BY <1>2, <1>3, <1>4, <2>4 DEF Types
    <3>2. r \in answered' <=> heard'[r] >= HeaderSize
      BY <1>4, <2>1, <2>4, <3>1
    <3>3. forwarded'[r] = IF heard'[r] > HeaderSize THEN heard'[r] - HeaderSize ELSE 0
      BY <1>4, <2>1, <2>4, <3>1
    <3>. QED BY <2>1, <3>2, <3>3
  <2>. QED BY <1>4, <2>2, <2>3, <2>4
<1>6. \A i \in Requests \ {r} :
        /\ heard'[i] = heard[i] /\ forwarded'[i] = forwarded[i]
        /\ i \in answered' <=> i \in answered
  BY <1>1, <1>2, <1>3 DEF Types
<1>7. Types'
  <2>1. heard' \in [Requests -> 0..MaxBytes]
    BY <1>1, <1>3, <1>4 DEF Types
  <2>2. forwarded'[r] \in 0..MaxBytes
    <3>1. heard'[r] \in 0..MaxBytes
      BY <1>4, <1>5
    <3>2. MaxBytes \in Nat /\ HeaderSize \in Nat
      BY RequestAssumption
    <3>3. CASE heard'[r] > HeaderSize
      BY <1>5, <3>1, <3>2, <3>3
    <3>4. CASE ~(heard'[r] > HeaderSize)
      BY <1>5, <3>2, <3>4
    <3>. QED BY <3>3, <3>4
  <2>3. forwarded' \in [Requests -> 0..MaxBytes]
    BY <1>2, <1>3, <2>2 DEF Types
  <2>4. answered' \subseteq Requests /\ answered \subseteq answered'
    BY <1>2, <1>3 DEF Types
  <2>. QED BY <1>1, <1>3, <2>1, <2>3, <2>4 DEF Types, Http
<1>8. ASSUME NEW i \in Requests
      PROVE  RequestInv(i)'
  <2>1. RequestInv(i)
    BY DEF IInv
  <2>2. (Delivered(i)' <=> Delivered(i)) /\ Capture(i)' = Capture(i)
    BY <1>1 DEF Whole, Delivered, Capture
  <2>3. CASE i = r
    <3>1. r \notin finished
      BY <1>3 DEF Types
    <3>2. Fresh(i)' /\ HeadersThenFrames(i)' /\ CapturedOnce(i)'
      BY <1>1, <1>3, <1>5, <2>1, <2>2, <2>3, <3>1
        DEF RequestInv, Fresh, HeadersThenFrames, CapturedOnce
    <3>3. BodyDelivered(i)' /\ HttpListeners(i)' /\ UpgradeListeners(i)'
      BY <1>1, <1>3, <2>1, <2>2, <2>3 DEF RequestInv, BodyDelivered, HttpListeners, UpgradeListeners
    <3>. QED BY <3>2, <3>3 DEF RequestInv
  <2>4. CASE i # r
    <3>1. Fresh(i)' /\ HeadersThenFrames(i)' /\ CapturedOnce(i)'
      BY <1>1, <1>6, <2>1, <2>2, <2>4 DEF RequestInv, Fresh, HeadersThenFrames, CapturedOnce
    <3>2. BodyDelivered(i)' /\ HttpListeners(i)' /\ UpgradeListeners(i)'
      BY <1>1, <1>6, <2>1, <2>2, <2>4 DEF RequestInv, BodyDelivered, HttpListeners, UpgradeListeners
    <3>. QED BY <3>1, <3>2 DEF RequestInv
  <2>. QED BY <2>3, <2>4
<1>9. EndMissedOnlyIfOvertaken'
  BY <1>1 DEF IInv, EndMissedOnlyIfOvertaken, Upgrades
<1>. QED BY <1>7, <1>8, <1>9 DEF IInv

\* The local connection of an upgrade closes.
LEMMA TcpCloseStep ==
  ASSUME IInv, NEW r \in Requests, TcpClose(r)
  PROVE  IInv'
<1>1. /\ r \in Upgrades /\ local' = [local EXCEPT ![r] = "closed"] /\ onPipe' = onPipe \ {r}
      /\ UNCHANGED <<kind, relay, sent, batched, onEnd, got, answered, finished, pending, captured,
                     heard, forwarded>>
  BY DEF TcpClose, body, capture, stream
<1>2. Types /\ kind[r] = "upgrade"
  BY <1>1 DEF IInv, Upgrades
<1>4. Types'
  BY <1>1, <1>2 DEF Types, Http
<1>5. ASSUME NEW i \in Requests
      PROVE  RequestInv(i)'
  <2>1. RequestInv(i)
    BY DEF IInv
  <2>2. (Delivered(i)' <=> Delivered(i)) /\ Capture(i)' = Capture(i)
    BY <1>1 DEF Whole, Delivered, Capture
  <2>3. /\ local'[i] = IF i = r THEN "closed" ELSE local[i]
        /\ i \in onPipe' <=> i \in onPipe /\ i # r
    BY <1>1, <1>2 DEF Types
  <2>4. Fresh(i)' /\ CapturedOnce(i)' /\ HeadersThenFrames(i)'
    BY <1>1, <1>2, <2>1, <2>2, <2>3 DEF RequestInv, Fresh, CapturedOnce, HeadersThenFrames
  <2>5. BodyDelivered(i)' /\ HttpListeners(i)' /\ UpgradeListeners(i)'
    BY <1>1, <1>2, <2>1, <2>2, <2>3 DEF RequestInv, BodyDelivered, HttpListeners, UpgradeListeners
  <2>. QED BY <2>4, <2>5 DEF RequestInv
<1>6. EndMissedOnlyIfOvertaken'
  <2>1. \A i \in Upgrades : local'[i] = "open" => local[i] = "open"
    BY <1>1, <1>2 DEF Upgrades, Types
  <2>. QED BY <1>1, <2>1 DEF IInv, EndMissedOnlyIfOvertaken, Upgrades
<1>. QED BY <1>4, <1>5, <1>6 DEF IInv

\* Every step keeps the invariant.
LEMMA InvariantStep == IInv /\ [Next]_vars => IInv'
<1>. SUFFICES ASSUME IInv, [Next]_vars PROVE IInv'
  OBVIOUS
<1>1. CASE UNCHANGED vars
  <2>1. UNCHANGED <<kind, relay, sent, batched, onPipe, onEnd, got, local, answered, finished, pending,
                    captured, heard, forwarded>>
    BY <1>1 DEF vars, body, listeners, target, capture, stream
  <2>2. \A i \in Requests : Delivered(i)' <=> Delivered(i)
    BY <2>1 DEF Delivered, Whole
  <2>. QED BY <2>1, <2>2 DEF IInv, Types, Http, RequestInv, Fresh, BodyDelivered, HttpListeners,
         UpgradeListeners, CapturedOnce, HeadersThenFrames, EndMissedOnlyIfOvertaken, Upgrades, Capture
<1>. QED
  BY <1>1, RequestStep, PipeStep, PipesStep, PipeEndStep, PipeErrorStep, SocketDropsStep, AnswerStep,
     LocalErrorStep, DataStep, TcpCloseStep DEF Next

-----------------------------------------------------------------------------

\* The inductive invariant holds for any requests, bodies and interleaving.
THEOREM RequestInvariant == Spec => []IInv
BY InvariantInit, InvariantStep, PTL DEF Spec

\* Every variable keeps its type, and nothing is captured twice.
THEOREM RequestTypeOK == Spec => []TypeOK
<1>1. ASSUME IInv
      PROVE  TypeOK
  <2>1. ASSUME NEW i \in Requests
        PROVE  Len(captured[i]) <= 1
    <3>1. captured[i] = <<Capture(i)>> \/ captured[i] = <<>>
      BY <1>1 DEF IInv, RequestInv, CapturedOnce
    <3>2. Len(captured[i]) = 1 \/ Len(captured[i]) = 0
      <4>1. CASE captured[i] = <<Capture(i)>>
        <5>1. Len(<<Capture(i)>>) = 1
          OBVIOUS
        <5>. QED BY <4>1, <5>1, Zenon
      <4>2. CASE captured[i] = <<>>
        BY <4>2
      <4>. QED BY <3>1, <4>1, <4>2
    <3>. DEFINE count == Len(captured[i])
    <3>3. count = 1 \/ count = 0
      BY <3>2
    <3>. HIDE DEF count
    <3>4. count <= 1
      BY <3>3
    <3>. QED BY <3>4 DEF count
  <2>. QED BY <1>1, <2>1 DEF IInv, Types, TypeOK
<1>. QED BY <1>1, RequestInvariant, PTL

\* A captured request is whole and captured once.
THEOREM RequestCapturedWhole == Spec => []CapturedWhole
<1>1. ASSUME IInv
      PROVE  CapturedWhole
  <2>1. SUFFICES ASSUME NEW i \in Http
                 PROVE  /\ captured[i] # <<>> <=> i \in finished /\ i \in answered
                        /\ captured[i] # <<>> =>
                             /\ relay[i] = "ended" /\ Len(captured[i]) = 1
                             /\ ~captured[i][1].bodyUnavailable =>
                                  captured[i][1].body = IF sent[i] = 0 THEN NoBody ELSE Whole(i)
    BY DEF CapturedWhole
  <2>2. i \in Requests /\ kind[i] \in {"http", "excluded"} /\ CapturedOnce(i) /\ BodyDelivered(i)
    BY <1>1 DEF IInv, RequestInv, Http
  <2>3. <<Capture(i)>> # <<>> /\ Len(<<Capture(i)>>) = 1 /\ <<Capture(i)>>[1] = Capture(i)
    OBVIOUS
  <2>4. CASE ~(i \in finished /\ i \in answered)
    BY <2>2, <2>4 DEF CapturedOnce
  <2>5. CASE i \in finished /\ i \in answered
    <3>1. captured[i] = <<Capture(i)>> /\ relay[i] = "ended" /\ got[i] = Whole(i)
      BY <2>2, <2>5 DEF CapturedOnce, BodyDelivered, Delivered
    <3>2. sent[i] \in Nat /\ BodyLimit \in Nat
      BY <1>1, <2>2, RequestAssumption DEF IInv, Types
    <3>3. Len(Whole(i)) = sent[i]
      BY <3>2 DEF Whole
    <3>4. ~Capture(i).bodyUnavailable =>
            Capture(i).body = IF sent[i] = 0 THEN NoBody ELSE Whole(i)
      <4>1. SUFFICES ASSUME ~(kind[i] = "excluded" \/ Len(got[i]) > BodyLimit)
                     PROVE  (IF kind[i] = "http" /\ Len(got[i]) \in 1..BodyLimit THEN got[i] ELSE NoBody)
                              = IF sent[i] = 0 THEN NoBody ELSE Whole(i)
        BY DEF Capture
      <4>2. kind[i] = "http" /\ ~(Len(got[i]) > BodyLimit) /\ Len(got[i]) = sent[i]
        BY <2>2, <3>1, <3>3, <4>1
      <4>. QED BY <3>1, <3>2, <4>2
    <3>. QED BY <2>3, <2>5, <3>1, <3>4
  <2>. QED BY <2>4, <2>5
<1>. QED BY <1>1, RequestInvariant, PTL

\* Every local target gets its own body, in order, and no truncated one as
\* if it were whole.
THEOREM RequestLocalGetsOwnBody == Spec => []LocalGetsOwnBody
<1>1. IInv => LocalGetsOwnBody
  BY DEF IInv, RequestInv, BodyDelivered, LocalGetsOwnBody
<1>. QED BY <1>1, RequestInvariant, PTL

\* Listeners are removed with the body, or the target, they are for.
THEOREM RequestListenersReleased == Spec => []ListenersReleased
<1>1. IInv => ListenersReleased
  BY DEF IInv, RequestInv, HttpListeners, UpgradeListeners, ListenersReleased, Http, Upgrades
<1>. QED BY <1>1, RequestInvariant, PTL

\* Frames of an upgraded connection are passed on completely.
THEOREM RequestFramesComplete == Spec => []FramesComplete
<1>1. IInv => FramesComplete
  BY DEF IInv, RequestInv, HeadersThenFrames, FramesComplete, Upgrades
<1>. QED BY <1>1, RequestInvariant, PTL

\* Only the end of another request makes an upgrade miss its own.
THEOREM RequestEndMissedOnlyIfOvertaken == Spec => []EndMissedOnlyIfOvertaken
<1>1. IInv => EndMissedOnlyIfOvertaken
  BY DEF IInv
<1>. QED BY <1>1, RequestInvariant, PTL
=============================================================================
