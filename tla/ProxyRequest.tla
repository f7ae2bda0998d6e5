----------------------------- MODULE ProxyRequest -----------------------------
(***************************************************************************)
(* Forwarding of requests by the tunnel proxy (src/proxy/Proxy.ts).        *)
(*                                                                         *)
(* The relay multiplexes the bodies of many requests over one socket: each *)
(* event names its request, reaches every listener of the socket, and the  *)
(* listeners tell by the id whether it is theirs.  Meanwhile the local     *)
(* target of each request answers, fails or closes when it likes.          *)
(*                                                                         *)
(* The relay is not in the repository: it sends the chunks of a body in    *)
(* order, then its end or its error, all of it over the socket the request *)
(* came from.  When that socket drops, nothing more comes.                 *)
(***************************************************************************)
EXTENDS Integers, Sequences

CONSTANTS
  Requests,        \* request ids on one socket of the pool
  BodyLimit,       \* REPLAY_BODY_LIMIT, in chunks
  MaxChunks,       \* bound: chunks of one body
  HeaderSize,      \* size of the target's answer to an upgrade
  MaxBytes,        \* bound: size of what the target of an upgrade sends
  NoBody           \* body: null

ASSUME RequestAssumption ==
  /\ BodyLimit \in Nat /\ MaxChunks \in Nat
  /\ HeaderSize \in Nat \ {0} /\ MaxBytes \in Nat

VARIABLES
  kind,            \* "none", "http", "excluded" (http, by type), "upgrade"
  relay,           \* of each body: "sending", "ended", "failed" or "lost"
  sent,            \* chunks the relay has sent of it
  batched,         \* history: those it sent an upgrade in batches
  onPipe, onEnd,   \* requests that listen to request-pipe, request-pipe-end
  got,             \* chunks given to the local target; bodyChunks, up to the limit
  local,           \* our side of localReq or tcpSocket: "open", "ended",
                   \* "destroyed" (its error is still to come) or "closed"
  answered,        \* requests whose target has sent its response headers
  finished,        \* requestFinished
  pending,         \* requests with a pendingCapture
  captured,        \* captured-request events emitted, per request
  heard, forwarded \* bytes from the target of an upgrade, and those passed on

body      == <<relay, sent, batched>>
listeners == <<onPipe, onEnd>>
target    == <<got, local>>
capture   == <<answered, finished, pending, captured>>
stream    == <<heard, forwarded>>
vars      == <<kind, body, listeners, target, capture, stream>>

Http     == {i \in Requests : kind[i] \in {"http", "excluded"}}
Upgrades == {i \in Requests : kind[i] = "upgrade"}

Init ==
  /\ kind = [i \in Requests |-> "none"]
  /\ relay = [i \in Requests |-> "sending"] /\ sent = [i \in Requests |-> 0]
  /\ batched = [i \in Requests |-> {}]
  /\ onPipe = {} /\ onEnd = {}
  /\ got = [i \in Requests |-> <<>>] /\ local = [i \in Requests |-> "open"]
  /\ answered = {} /\ finished = {} /\ pending = {}
  /\ captured = [i \in Requests |-> <<>>]
  /\ heard = [i \in Requests |-> 0] /\ forwarded = [i \in Requests |-> 0]

-----------------------------------------------------------------------------
(* Events of the relay                                                     *)

\* A request arrives; its target is connected to and its listeners are set.
Request(i) ==
  /\ kind[i] = "none"
  /\ \E k \in {"http", "excluded", "upgrade"} : kind' = [kind EXCEPT ![i] = k]
  /\ onPipe' = onPipe \cup {i} /\ onEnd' = onEnd \cup {i}
  /\ UNCHANGED <<body, target, capture, stream>>

\* The relay sends a chunk, or how the body of i ends.
Sending(i) == kind[i] # "none" /\ relay[i] = "sending"
Ends(i, how) == Sending(i) /\ relay' = [relay EXCEPT ![i] = how] /\ UNCHANGED <<sent, batched>>

\* The next n chunks of i.
Chunks(i, n) == [m \in 1..n |-> <<i, sent[i] + m>>]

\* The relay sends them, and the listeners in S take them.
Send(i, n, S) ==
  /\ Sending(i) /\ sent[i] + n <= MaxChunks
  /\ sent' = [sent EXCEPT ![i] = sent[i] + n]
  /\ got' = [j \in Requests |-> IF j \in S THEN got[j] \o Chunks(i, n) ELSE got[j]]
  /\ UNCHANGED <<kind, relay, listeners, local, capture, stream>>

\* Slip: does not compare the id.
PipeToAll(i) == Send(i, 1, onPipe) /\ UNCHANGED batched

\* request-pipe.
Pipe(i) == Send(i, 1, onPipe \cap {i}) /\ UNCHANGED batched

\* request-pipes, a batch, to which upgrades do not listen.
Pipes(i, n) ==
  /\ Send(i, n, onPipe \cap {i} \cap Http)
  /\ batched' = IF i \in Upgrades
                  THEN [batched EXCEPT ![i] = @ \cup ((sent[i] + 1) .. (sent[i] + n))]
                  ELSE batched

\* The captured-request event.
Capture(i) ==
  [body |-> IF kind[i] = "http" /\ Len(got[i]) \in 1..BodyLimit THEN got[i] ELSE NoBody,
   bodyUnavailable |-> kind[i] = "excluded" \/ Len(got[i]) > BodyLimit]
EmitCaptured(S) ==
  captured' = [i \in Requests |-> IF i \in S THEN Append(captured[i], Capture(i)) ELSE captured[i]]

\* The listeners of S end, or destroy, their targets.
Leave(S, how) ==
  local' = [j \in Requests |-> IF j \in S /\ local[j] = "open" THEN how ELSE local[j]]

\* The bodies of S are known.
BodyKnown(S) ==
  /\ finished' = finished \cup (S \cap Http)
  /\ EmitCaptured(S \cap pending)
  /\ pending' = pending \ S

\* Slips: leaves the listener of request-pipe; does not end the target.
PipeEndKeepsPipe(i) ==
  /\ Ends(i, "ended")
  /\ onEnd' = onEnd \ (Upgrades \cup {i}) /\ UNCHANGED onPipe
  /\ Leave({i} \cap onEnd, "ended") /\ BodyKnown({i} \cap onEnd)
  /\ UNCHANGED <<kind, got, answered, stream>>
PipeEndKeepsOpen(i) ==
  /\ Ends(i, "ended")
  /\ onEnd' = onEnd \ (Upgrades \cup {i}) /\ onPipe' = onPipe \ ({i} \cap onEnd)
  /\ BodyKnown({i} \cap onEnd)
  /\ UNCHANGED <<kind, got, local, answered, stream>>

\* request-pipe-end.  A listener that finds its own id ends its target.  The
\* listeners of upgrades are subscribed once: any id uses them up.
PipeEnd(i) ==
  /\ Ends(i, "ended")
  /\ onEnd' = onEnd \ (Upgrades \cup {i}) /\ onPipe' = onPipe \ ({i} \cap onEnd)
  /\ Leave({i} \cap onEnd, "ended") /\ BodyKnown({i} \cap onEnd)
  /\ UNCHANGED <<kind, got, answered, stream>>

\* request-pipe-error, to which upgrades do not listen: the deferred capture
\* is dropped and the target's request destroyed.
PipeError(i) ==
  /\ Ends(i, "failed")
  /\ LET mine == {i} \cap onEnd \cap Http IN
     /\ onPipe' = onPipe \ mine /\ onEnd' = onEnd \ mine
     /\ Leave(mine, "destroyed")
     /\ pending' = pending \ mine
  /\ UNCHANGED <<kind, got, answered, finished, captured, stream>>

\* The socket drops: no listener hears of it, and they stay on the socket.
SocketDrops ==
  /\ \E i \in Requests : Sending(i)
  /\ relay' = [i \in Requests |-> IF Sending(i) THEN "lost" ELSE relay[i]]
  /\ UNCHANGED <<kind, sent, batched, listeners, target, capture, stream>>

-----------------------------------------------------------------------------
(* Events of the local target                                              *)

\* Slip: captures at once, whatever has arrived.
AnswerCaptures(i) ==
  /\ i \in Http \ answered /\ local[i] \in {"open", "ended"}
  /\ answered' = answered \cup {i} /\ EmitCaptured({i})
  /\ UNCHANGED <<kind, body, listeners, target, finished, pending, stream>>

\* The response of an http request: captured now, or when the body is known.
Answer(i) ==
  /\ i \in Http \ answered /\ local[i] \in {"open", "ended"}
  /\ answered' = answered \cup {i}
  /\ EmitCaptured({i} \cap finished)
  /\ pending' = pending \cup ({i} \ finished)
  /\ UNCHANGED <<kind, body, listeners, target, finished, stream>>

\* The error of a local request, also the one destroy() gives it.
LocalError(i) ==
  /\ i \in Http /\ local[i] # "closed"
  /\ local' = [local EXCEPT ![i] = "closed"]
  /\ onPipe' = onPipe \ {i} /\ onEnd' = onEnd \ {i}
  /\ UNCHANGED <<kind, body, got, capture, stream>>

\* Slip: drops what follows the headers in the same chunk.
DataDropsRest(i, n) ==
  /\ i \in Upgrades /\ local[i] # "closed" /\ heard[i] + n <= MaxBytes
  /\ heard' = [heard EXCEPT ![i] = heard[i] + n]
  /\ forwarded' = [forwarded EXCEPT ![i] = IF i \in answered THEN @ + n ELSE @]
  /\ answered' = IF heard[i] + n >= HeaderSize THEN answered \cup {i} ELSE answered
  /\ UNCHANGED <<kind, body, listeners, target, finished, pending, captured>>

\* n bytes from the target of an upgrade: headers until they are complete,
\* then frames, which may begin within the chunk that completes them.
Data(i, n) ==
  /\ i \in Upgrades /\ local[i] # "closed" /\ heard[i] + n <= MaxBytes
  /\ heard' = [heard EXCEPT ![i] = heard[i] + n]
  /\ \/ /\ i \in answered
        /\ forwarded' = [forwarded EXCEPT ![i] = @ + n]
        /\ UNCHANGED answered
     \/ /\ i \notin answered /\ heard[i] + n < HeaderSize
        /\ UNCHANGED <<forwarded, answered>>
     \/ /\ i \notin answered /\ heard[i] + n >= HeaderSize
        /\ answered' = answered \cup {i}
        /\ forwarded' = [forwarded EXCEPT ![i] = heard[i] + n - HeaderSize]
  /\ UNCHANGED <<kind, body, listeners, target, finished, pending, captured>>

\* tcpSocket closes, after its end or an error.
TcpClose(i) ==
  /\ i \in Upgrades /\ local[i] # "closed"
  /\ local' = [local EXCEPT ![i] = "closed"]
  /\ onPipe' = onPipe \ {i}
  /\ UNCHANGED <<kind, body, onEnd, got, capture, stream>>

Next ==
  \/ \E i \in Requests :
       \/ Request(i) \/ Pipe(i) \/ PipeEnd(i) \/ PipeError(i)
       \/ \E n \in 1..MaxChunks : Pipes(i, n)
       \/ Answer(i) \/ LocalError(i) \/ TcpClose(i)
       \/ \E n \in 1..MaxBytes : Data(i, n)
  \/ SocketDrops

Spec == Init /\ [][Next]_vars

-----------------------------------------------------------------------------
(* Properties                                                              *)

Whole(i) == [m \in 1..sent[i] |-> <<i, m>>]

\* What the target of i is due of the chunks sent so far, in order: all, but of
\* an upgrade those that came in batches.
Delivered(i) ==
  IF kind[i] # "upgrade" THEN got[i] = Whole(i)
  ELSE /\ \A m, n \in DOMAIN got[i] : m < n => got[i][m][2] < got[i][n][2]
       /\ {got[i][m] : m \in DOMAIN got[i]} = {i} \X ((1..sent[i]) \ batched[i])

\* Every variable keeps its type.
TypeOK ==
  /\ kind \in [Requests -> {"none", "http", "excluded", "upgrade"}]
  /\ relay \in [Requests -> {"sending", "ended", "failed", "lost"}]
  /\ sent \in [Requests -> 0..MaxChunks]
  /\ batched \in [Requests -> SUBSET (1..MaxChunks)]
  /\ onPipe \subseteq Requests /\ onEnd \subseteq Requests
  /\ got \in [Requests -> Seq(Requests \X Nat)]
  /\ local \in [Requests -> {"open", "ended", "destroyed", "closed"}]
  /\ answered \subseteq Requests /\ finished \subseteq Http
  /\ pending \subseteq (Http \cap answered) \ finished
  /\ \A i \in Requests : Len(captured[i]) <= 1
  /\ heard \in [Requests -> 0..MaxBytes] /\ forwarded \in [Requests -> 0..MaxBytes]

\* A captured request is no truncated snapshot, however early its target
\* answered and wherever the body broke off: it has been answered, its whole
\* body has come, and it is captured once.
CapturedWhole ==
  \A i \in Http :
    /\ captured[i] # <<>> <=> i \in finished /\ i \in answered
    /\ captured[i] # <<>> =>
         /\ relay[i] = "ended" /\ Len(captured[i]) = 1
         /\ ~captured[i][1].bodyUnavailable =>
              captured[i][1].body = IF sent[i] = 0 THEN NoBody ELSE Whole(i)

\* A local target gets the chunks of its own request and no other, in order,
\* and is told of their end only when they were all sent.  It gets all of them
\* while it is connected, except that the target of a WebSocket misses what comes
\* in batches: it is subscribed to request-pipe only (Proxy.ts:308).
LocalGetsOwnBody ==
  \A i \in Requests :
    /\ i \in onPipe => Delivered(i)
    /\ local[i] = "ended" => relay[i] = "ended" /\ Delivered(i)

\* A request leaves no listener on the socket, which lives as long as the
\* tunnel, once its body has ended or failed or its target is gone; only a
\* dropped socket, and the end of an upgrade, leave some.
ListenersReleased ==
  /\ \A i \in Http \cap (onPipe \cup onEnd) :
       i \in onPipe \cap onEnd /\ relay[i] \in {"sending", "lost"} /\ local[i] = "open"
  /\ \A i \in Upgrades \cap onPipe : local[i] = "open"

\* All that follows the headers of the answer to an upgrade is passed on,
\* however the target's stream is cut into chunks.
FramesComplete ==
  \A i \in Upgrades :
    forwarded[i] = IF heard[i] > HeaderSize THEN heard[i] - HeaderSize ELSE 0

\* An upgrade stops waiting for its end only when another request of its
\* socket has ended.  Then it does: the handler compares the id, but is
\* subscribed with once(), so any end removes it, and a WebSocket the end user
\* closes stays open towards the target for as long as the target keeps it.
EndMissedOnlyIfOvertaken ==
  \A i \in Upgrades :
    i \notin onEnd /\ local[i] = "open" => \E j \in Requests \ {i} : relay[j] = "ended"
=============================================================================
