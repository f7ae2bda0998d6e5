------------------------------- MODULE Share --------------------------------
(***************************************************************************)
(* A private tunnel: `tunli share' (src/share/ShareHost.ts) and `tunli     *)
(* connect' (src/share/ShareClient.ts) with the relay between them.        *)
(*                                                                         *)
(* A local connection at the client is piped to a connection that the host *)
(* opens to its target.  The relay pairs them by sessions: it creates one  *)
(* per share-connect and ends it for both sides when either does, or when  *)
(* a side's socket drops.  The relay is not in the repository: it is taken *)
(* from what the two sides send and expect.                                *)
(***************************************************************************)
EXTENDS Integers, Sequences, SequencesExt, FiniteSets

CONSTANTS
  Conns,           \* local connections at the client
  MaxSessions,     \* bound: sessions the relay creates
  MaxData,         \* bound: chunks each end of a connection sends
  MaxDrops,        \* bound: sides whose socket drops, each once
  None

ASSUME ShareAssumption == MaxSessions \in Nat /\ MaxData \in Nat /\ MaxDrops \in Nat /\ None \notin Conns

Sides    == {"client", "host"}
Sessions == 1..MaxSessions

\* A TCP connection is "none" or "open" at first, "ending" once we have called
\* end(), "ended" once its own end came, when an error may still follow (a
\* target is not told from a closed one then), and "closed".

VARIABLES
  up,              \* the sockets to the relay: "down", "up", or "gone" with the process
  toRelay, inbox,  \* events under way to the relay, and to each side
  registered,      \* relay: the host's key is registered
  created, bridged,\* relay: sessions created so far, and those that are not over
  sessionId,       \* client; 0 for null
  active,          \* client: activeTcpClient
  listening,       \* client: server.listening
  local,           \* client: the local connections
  sessions,        \* host: session -> target connection
  target, opened,  \* host: the target connections, named as the local connection
                   \* that asked for them, and the session each was opened for
  sentBy, given,   \* history: chunks each end sent, and those written to it
  dropped,         \* history, and bound: sides whose socket dropped once
  orderly          \* history, see Orderly

relay   == <<registered, created, bridged>>
client  == <<sessionId, active, listening, local>>
host    == <<sessions, target, opened>>
history == <<sentBy, given, dropped, orderly>>
vars    == <<up, toRelay, inbox, relay, client, host, history>>

Other(p) == IF p = "client" THEN "host" ELSE "client"

\* An event; `chunk' names the data.
Event(t, s)   == [type |-> t, session |-> s, chunk |-> None, by |-> None]
Start(s, c)   == [type |-> "start", session |-> s, chunk |-> None, by |-> c]
Data(s, c, n) == [type |-> "data", session |-> s, chunk |-> n, by |-> c]

Init ==
  /\ up = [p \in Sides |-> "down"]
  /\ toRelay = [p \in Sides |-> <<>>] /\ inbox = [p \in Sides |-> <<>>]
  /\ registered = FALSE /\ created = 0 /\ bridged = {}
  /\ sessionId = 0 /\ active = None /\ listening = FALSE
  /\ local = [c \in Conns |-> "none"]
  /\ sessions = [s \in Sessions |-> None]
  /\ target = [c \in Conns |-> "none"] /\ opened = [c \in Conns |-> 0]
  /\ sentBy = [p \in Sides |-> [c \in Conns |-> 0]]
  /\ given = [p \in Sides |-> [c \in Conns |-> <<>>]]
  /\ dropped = {} /\ orderly = TRUE

Emit(p, events) == toRelay' = [toRelay EXCEPT ![p] = @ \o events]

\* Every share-connect was answered, and nothing is on its way to the client.
Settled == inbox["client"] = <<>> /\ \A i \in DOMAIN toRelay["client"] :
                                        toRelay["client"][i].type # "connect"

-----------------------------------------------------------------------------
(* The relay and the sockets                                               *)

\* The socket connects: what was emitted meanwhile is sent, then the handler
\* of connect registers the host, or asks for a session.
Connect(p) ==
  /\ up[p] = "down"
  /\ up' = [up EXCEPT ![p] = "up"]
  /\ Emit(p, <<Event(IF p = "host" THEN "register" ELSE "connect", 0)>>)
  /\ UNCHANGED <<inbox, relay, client, host, history>>

\* The relay loses a side: its sessions are over.
Lose(p) ==
  /\ toRelay' = [toRelay EXCEPT ![p] = <<>>]
  /\ inbox' = [inbox EXCEPT ![p] = <<>>,
                 ![Other(p)] = @ \o [i \in DOMAIN SetToSeq(bridged) |->
                                       Event("end", SetToSeq(bridged)[i])]]
  /\ bridged' = {} /\ registered' = (registered /\ p # "host")
  /\ UNCHANGED created

\* Neither side does anything about it until its socket is back.
Drop(p) ==
  /\ up[p] = "up" /\ p \notin dropped /\ Cardinality(dropped) < MaxDrops
  /\ up' = [up EXCEPT ![p] = "down"]
  /\ Lose(p)
  /\ dropped' = dropped \cup {p}
  /\ UNCHANGED <<client, host, sentBy, given, orderly>>

\* A request for a session, refused if the host is not registered.
RelayConnect ==
  IF registered
  THEN /\ created < MaxSessions
       /\ created' = created + 1 /\ bridged' = bridged \cup {created + 1}
       /\ inbox' = [inbox EXCEPT !["client"] = Append(@, Event("connected", created + 1))]
  ELSE /\ inbox' = [inbox EXCEPT !["client"] = Append(@, Event("error", 0))]
       /\ UNCHANGED <<created, bridged>>

\* The relay takes the next event of a side and passes it on within a session.
RelayTakes(p) ==
  /\ up[p] = "up" /\ toRelay[p] # <<>>
  /\ toRelay' = [toRelay EXCEPT ![p] = Tail(@)]
  /\ LET e == Head(toRelay[p]) IN
     \/ /\ e.type = "register" /\ registered' = TRUE
        /\ UNCHANGED <<inbox, created, bridged>>
     \/ /\ e.type = "connect" /\ RelayConnect
        /\ UNCHANGED registered
     \/ /\ e.type \in {"start", "data", "end"}
        /\ inbox' = IF e.session \in bridged
                      THEN [inbox EXCEPT ![Other(p)] = Append(@, e)] ELSE inbox
        /\ bridged' = IF e.type = "end" THEN bridged \ {e.session} ELSE bridged
        /\ UNCHANGED <<registered, created>>
  /\ UNCHANGED <<up, client, host, history>>

Receives(p, type) ==
  /\ up[p] = "up" /\ inbox[p] # <<>> /\ Head(inbox[p]).type = type
  /\ inbox' = [inbox EXCEPT ![p] = Tail(@)]

Give(p, c, e) == given' = [given EXCEPT ![p][c] = Append(@, <<e.by, e.chunk>>)]

-----------------------------------------------------------------------------
(* The client                                                              *)

\* share-connected: the first one starts the local server.
Connected ==
  /\ Receives("client", "connected")
  /\ sessionId' = Head(inbox["client"]).session
  /\ listening' = TRUE
  /\ UNCHANGED <<up, toRelay, relay, active, local, host, history>>

\* A local connection.  Orderly, while each comes when the last is closed and
\* the next session is there.
Orderly == /\ sessionId # 0 /\ Settled
           /\ \A c \in Conns : local[c] \in {"none", "closed"}

Accept(c) ==
  /\ local[c] = "none" /\ listening
  /\ local' = [local EXCEPT ![c] = "open"]
  /\ active' = c
  /\ Emit("client", <<Start(sessionId, c)>>)
  /\ orderly' = (orderly /\ Orderly)
  /\ UNCHANGED <<up, inbox, relay, sessionId, listening, host, sentBy, given, dropped>>

\* Data of a local connection, under whatever session is the current one.
LocalData(c) ==
  /\ local[c] \in {"open", "ending"} /\ sentBy["client"][c] < MaxData
  /\ sentBy' = [sentBy EXCEPT !["client"][c] = @ + 1]
  /\ Emit("client", IF sessionId # 0 THEN <<Data(sessionId, c, sentBy'["client"][c])>> ELSE <<>>)
  /\ UNCHANGED <<up, inbox, relay, client, host, given, dropped, orderly>>

\* Slip: forgets the session before it ends it.
CloseClientForgets ==
  /\ Emit("client", <<Event("connect", 0)>>)
  /\ active' = None /\ sessionId' = 0

\* closeClient: ends the session and asks for the next one.
CloseClient ==
  /\ Emit("client", (IF sessionId # 0 THEN <<Event("end", sessionId)>> ELSE <<>>)
                      \o <<Event("connect", 0)>>)
  /\ active' = None /\ sessionId' = 0

LocalEnd(c) ==
  /\ local[c] \in {"open", "ending"}
  /\ local' = [local EXCEPT ![c] = "ended"]
  /\ CloseClient
  /\ UNCHANGED <<up, inbox, relay, listening, host, history>>

LocalError(c) ==
  /\ local[c] \in {"open", "ending", "ended"}
  /\ local' = [local EXCEPT ![c] = "closed"]
  /\ CloseClient
  /\ UNCHANGED <<up, inbox, relay, listening, host, history>>

LocalClose(c) ==
  /\ local[c] = "ended"
  /\ local' = [local EXCEPT ![c] = "closed"]
  /\ UNCHANGED <<up, toRelay, inbox, relay, sessionId, active, listening, host, history>>

\* share-data: its session is not looked at.
ClientData ==
  /\ Receives("client", "data")
  /\ IF active = None THEN UNCHANGED given ELSE Give("client", active, Head(inbox["client"]))
  /\ UNCHANGED <<up, toRelay, relay, client, host, sentBy, dropped, orderly>>

\* share-end, whichever session it ends.
ClientEnd ==
  /\ Receives("client", "end")
  /\ local' = [c \in Conns |-> IF c = active THEN "ending" ELSE local[c]]
  /\ active' = None /\ sessionId' = 0
  /\ Emit("client", <<Event("connect", 0)>>)
  /\ UNCHANGED <<up, relay, listening, host, history>>

\* share-error, on which `tunli connect' exits.
ClientExits ==
  /\ up["client"] = "up" /\ inbox["client"] # <<>> /\ Head(inbox["client"]).type = "error"
  /\ up' = [up EXCEPT !["client"] = "gone"]
  /\ Lose("client")
  /\ local' = [c \in Conns |-> IF local[c] = "none" THEN "none" ELSE "closed"]
  /\ active' = None /\ sessionId' = 0 /\ listening' = FALSE
  /\ UNCHANGED <<host, history>>

-----------------------------------------------------------------------------
(* The host                                                                *)

\* share-session-start opens a connection to the target.
HostStart ==
  /\ Receives("host", "start")
  /\ LET e == Head(inbox["host"]) IN
     /\ sessions' = [sessions EXCEPT ![e.session] = e.by]
     /\ target' = [target EXCEPT ![e.by] = "open"]
     /\ opened' = [opened EXCEPT ![e.by] = e.session]
  /\ UNCHANGED <<up, toRelay, relay, client, history>>

\* share-data.
HostData ==
  /\ Receives("host", "data")
  /\ LET e == Head(inbox["host"])
         c == sessions[e.session]
     IN IF c = None THEN UNCHANGED given ELSE Give("host", c, e)
  /\ UNCHANGED <<up, toRelay, relay, client, host, sentBy, dropped, orderly>>

\* Slip: leaves the connection to its target open.
HostEndKeepsTarget ==
  /\ Receives("host", "end")
  /\ sessions' = [sessions EXCEPT ![Head(inbox["host"]).session] = None]
  /\ UNCHANGED <<up, toRelay, relay, client, target, opened, history>>

\* share-end.
HostEnd ==
  /\ Receives("host", "end")
  /\ LET s == Head(inbox["host"]).session IN
     /\ sessions' = [sessions EXCEPT ![s] = None]
     /\ target' = [c \in Conns |-> IF c = sessions[s] THEN "ending" ELSE target[c]]
  /\ UNCHANGED <<up, toRelay, relay, client, opened, history>>

TargetData(c) ==
  /\ target[c] \in {"open", "ending"} /\ sentBy["host"][c] < MaxData
  /\ sentBy' = [sentBy EXCEPT !["host"][c] = @ + 1]
  /\ Emit("host", <<Data(opened[c], c, sentBy'["host"][c])>>)
  /\ UNCHANGED <<up, inbox, relay, client, host, given, dropped, orderly>>

\* closeSession: whatever connection the session has now.
CloseSession(s) ==
  /\ sessions' = [sessions EXCEPT ![s] = None]
  /\ Emit("host", IF sessions[s] # None THEN <<Event("end", s)>> ELSE <<>>)

TargetEnd(c) ==
  /\ target[c] \in {"open", "ending"}
  /\ target' = [target EXCEPT ![c] = "ended"]
  /\ CloseSession(opened[c])
  /\ UNCHANGED <<up, inbox, relay, client, opened, history>>

\* Also when the connection could not be made, and also after its end, when
\* its session is over for the host, unless it has another connection.
TargetError(c) ==
  /\ target[c] # "none"
  /\ target' = [target EXCEPT ![c] = "ended"]
  /\ CloseSession(opened[c])
  /\ UNCHANGED <<up, inbox, relay, client, opened, history>>

-----------------------------------------------------------------------------

Next ==
  \/ \E p \in Sides : Connect(p) \/ Drop(p) \/ RelayTakes(p)
  \/ Connected \/ ClientData \/ ClientEnd \/ ClientExits
  \/ HostStart \/ HostData \/ HostEnd
  \/ \E c \in Conns :
       \/ Accept(c) \/ LocalData(c) \/ LocalEnd(c) \/ LocalError(c) \/ LocalClose(c)
       \/ TargetData(c) \/ TargetEnd(c) \/ TargetError(c)

Spec == Init /\ [][Next]_vars

-----------------------------------------------------------------------------
(* Properties                                                              *)

\* Nothing is under way.
Quiet == \A p \in Sides : toRelay[p] = <<>> /\ inbox[p] = <<>>

\* As long as local connections come one after the other, each end gets only
\* what the other end of its own connection sent, in order and without a gap,
\* although the client does not look at the session of what it receives and
\* sockets drop.
PipedInOrder ==
  orderly => \A p \in Sides, c \in Conns :
               given[p][c] = [n \in DOMAIN given[p][c] |-> <<c, n>>]

\* Then neither end stays open without the other, unless a side's socket drops:
\* the client then keeps a connection that leads nowhere, and so does the host
\* when the socket was its own.
EndsTogether ==
  orderly /\ Quiet =>
    \A c \in Conns :
      /\ target[c] = "open" => local[c] = "open" \/ "host" \in dropped
      /\ local[c] = "open" => target[c] = "open" \/ dropped # {}
=============================================================================
