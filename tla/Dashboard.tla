----------------------------- MODULE Dashboard ------------------------------
(***************************************************************************)
(* The live dashboard (cli-app/Dashboard.tsx), the command that attaches   *)
(* it to a tunnel and switches it to another (CommandDashboard.ts) and the *)
(* socket it listens on (daemon/DaemonClient.ts).                          *)
(*                                                                         *)
(* Every attach has a socket and an event emitter of its own, here its     *)
(* number.  The mounted component subscribes to one emitter when it is     *)
(* mounted and never again; it is mounted anew only when the profile shown *)
(* changes, as the profile is its React key.  React renders, and runs the  *)
(* effect that subscribes, before initDashboard and rerender return.       *)
(*                                                                         *)
(* The daemon's side is the handler of attach (DaemonServer.ts) and what   *)
(* happens to its tunnels: their links change as DaemonServer.tla has it,  *)
(* a tunnel is stopped, the daemon ends.  A tunnel started again is        *)
(* another one, and a daemon started again is left out.                    *)
(*                                                                         *)
(* The replay of an entry from its detail view is left to ReplayStore.tla. *)
(* Responses are numbered per tunnel.  Bounds: MaxEvents responses and     *)
(* changes of the links, Attaches in one run of the command, LogMax for    *)
(* the 30 entries the log keeps.                                           *)
(***************************************************************************)
EXTENDS Integers, Sequences, SequencesExt

CONSTANTS Tunnels, MaxEvents, Attaches, LogMax, NoTunnel

ASSUME DashboardAssumption ==
  /\ NoTunnel \notin Tunnels /\ MaxEvents \in Nat
  /\ LogMax \in Nat \ {0} /\ Attaches \in Nat \ {0}

Gens == 1..Attaches

VARIABLES
  alive,     \* the daemon runs
  active,   \* its tunnels that have not been stopped
  up,        \* those with a link
  status,    \* [Tunnels -> info.status]
  served,    \* [Tunnels -> responses the daemon has reported]
  events,    \* bound: responses and changes of the links so far
  attach,    \* [Gens -> tunnel, pc, open, and count and status of attach-ok]:
             \* attachTunnel and what awaits it
  wire,      \* [Gens -> messages the daemon sent and the client has not read]
  cur,       \* the attach attachState.disconnect belongs to
  switcher,  \* Ctrl-T: the modal is open
  \* The mounted component.
  prof, ear, \* the profile it shows, the emitter it listens to
  shown,     \* connectionStatus
  log, batch, timer, pending, paused, count,
  cursor, detail,
  \* History.
  heard,     \* what the component was told, in order
  shuffled,  \* it was resumed with a batch outstanding
  crossed    \* a switch began during another
             \* attach[g].missed: the last status event of emitter g had no listener

links      == <<alive, active, up, status>>
daemonSide == <<links, served, events, wire>>
client     == <<attach, cur, switcher>>
screen     == <<prof, ear, shown, log, batch, timer, pending, paused, count, cursor, detail>>
history    == <<heard, shuffled, crossed>>
vars       == <<daemonSide, client, screen, history>>

None == [tunnel |-> NoTunnel, pc |-> "none", open |-> FALSE, count |-> 0,
         status |-> "connecting", missed |-> FALSE]
Attaching(t) == [None EXCEPT !.tunnel = t, !.pc = "attaching", !.open = TRUE]

Init ==
  /\ alive = TRUE /\ active = Tunnels /\ up = {} /\ events = 0
  /\ status = [t \in Tunnels |-> "connecting"]
  /\ served = [t \in Tunnels |-> 0]
  /\ \E t \in Tunnels :
       attach = [[g \in Gens |-> None] EXCEPT ![1] = Attaching(t)]
  /\ wire = [g \in Gens |-> <<>>]
  /\ cur = 1 /\ switcher = FALSE
  /\ prof = NoTunnel /\ ear = 0 /\ shown = "connecting"
  /\ log = <<>> /\ batch = <<>> /\ timer = FALSE /\ pending = <<>> /\ paused = FALSE /\ count = 0
  /\ cursor = -1 /\ detail = 0
  /\ heard = <<>> /\ shuffled = FALSE /\ crossed = FALSE

-----------------------------------------------------------------------------
(* The daemon *)

Message(kind, n, st) == [kind |-> kind, n |-> n, status |-> st]

\* The listeners of #handleAttach: every socket attached to tunnel t is told.
Tell(t, m) ==
  wire' = [g \in Gens |->
             IF attach[g].tunnel = t /\ attach[g].open /\ attach[g].pc \notin {"none", "attaching"}
             THEN Append(wire[g], m) ELSE wire[g]]

\* A request of tunnel t is answered.
Serve(t) ==
  /\ t \in active /\ events < MaxEvents
  /\ events' = events + 1
  /\ served' = [served EXCEPT ![t] = @ + 1]
  /\ Tell(t, Message("response", served[t] + 1, "connecting"))
  /\ UNCHANGED <<links, client, screen, history>>

\* connect, disconnect and connect_error of a tunnel.
Report(t, s) ==
  /\ status' = [status EXCEPT ![t] = s]
  /\ Tell(t, Message("status", 0, s))

Change(t, s) ==
  /\ t \in active /\ events < MaxEvents
  /\ events' = events + 1
  /\ Report(t, s)
  /\ UNCHANGED <<alive, active, served, client, screen, history>>

LinkUp(t)      == t \notin up /\ up' = up \cup {t} /\ Change(t, "connected")
LinkDown(t)    == t \in up /\ up' = up \ {t} /\ Change(t, "disconnected")
LinkRefused(t) == Change(t, "error") /\ UNCHANGED up

\* stop, also as a part of restart: a link that is up reports its end; the
\* sockets attached to the tunnel stay open and hear nothing more.
Stop(t) ==
  /\ t \in active
  /\ active' = active \ {t} /\ up' = up \ {t}
  /\ \/ t \in up /\ Report(t, "disconnected")
     \/ t \notin up /\ UNCHANGED <<status, wire>>
  /\ UNCHANGED <<alive, served, events, client, screen, history>>

\* The daemon ends and every socket with it; that of an attach request it has
\* not read closes without an answer, which settles no promise.
DaemonEnds ==
  /\ alive /\ alive' = FALSE
  /\ active' = {} /\ up' = {} /\ status' = [t \in Tunnels |-> "disconnected"]
  /\ attach' = [g \in Gens |-> IF attach[g].pc = "attaching"
                               THEN [attach[g] EXCEPT !.pc = "hung", !.open = FALSE]
                               ELSE attach[g]]
  /\ wire' = [g \in Gens |->
                IF attach[g].open /\ attach[g].pc \notin {"none", "attaching"}
                THEN Append(wire[g], Message("closed", 0, "disconnected")) ELSE wire[g]]
  /\ UNCHANGED <<served, events, cur, switcher, screen, history>>

\* Slip: attach-ok does not bear the status of the tunnel.
AttachBlind(g) ==
  /\ attach[g].pc = "attaching" /\ attach[g].open
  /\ LET t == attach[g].tunnel
     IN  /\ t \in active
         /\ attach' = [attach EXCEPT ![g].pc = "attached"]
         /\ wire' = [wire EXCEPT ![g] = <<Message("ok", served[t], "connecting")>>]
  /\ UNCHANGED <<links, served, events, cur, switcher, screen, history>>
\* The attach request: attach-ok with the status and the number of requests so
\* far, or an error if the tunnel is gone, which ends the socket: the first
\* attach ends the command with it, a later one goes on to list the tunnels.
\* Without a daemon that fails as well, and no promise is left to mount it.
AttachOk(g) ==
  /\ attach[g].pc = "attaching" /\ attach[g].open
  /\ LET t == attach[g].tunnel
     IN  \/ /\ t \in active
            /\ attach' = [attach EXCEPT ![g].pc = "attached"]
            /\ wire' = [wire EXCEPT ![g] = <<Message("ok", served[t], status[t])>>]
         \/ /\ t \notin active /\ g > 1
            /\ attach' = [attach EXCEPT ![g].pc = IF alive THEN "answered" ELSE "hung",
                                        ![g].open = FALSE]
            /\ UNCHANGED wire
  /\ UNCHANGED <<links, served, events, cur, switcher, screen, history>>

-----------------------------------------------------------------------------
(* The client *)

\* An answer goes to the buffer of a paused dashboard, else to the batch.
Response(n) ==
  /\ heard' = Append(heard, n)
  /\ \/ /\ paused
        /\ pending' = Append(pending, n) /\ count' = count + 1
        /\ UNCHANGED <<batch, timer>>
     \/ /\ ~paused
        /\ batch' = Append(batch, n) /\ timer' = TRUE
        /\ UNCHANGED <<pending, count>>

\* socket.on('data') and its close: attach-ok resolves the promise; events go
\* to the emitter, where nobody may listen (yet).
Read(g) ==
  /\ attach[g].open /\ wire[g] # <<>>
  /\ wire' = [wire EXCEPT ![g] = Tail(@)]
  /\ LET m == Head(wire[g])
     IN  \/ /\ m.kind = "ok"
            /\ attach' = [attach EXCEPT ![g].pc = "answered", ![g].count = m.n, ![g].status = m.status]
            /\ UNCHANGED <<shown, batch, timer, pending, count, heard>>
         \/ /\ m.kind = "response" /\ ear # g
            /\ UNCHANGED <<attach, shown, batch, timer, pending, count, heard>>
         \/ /\ m.kind = "response" /\ ear = g
            /\ Response(m.n) /\ UNCHANGED <<attach, shown>>
         \/ /\ m.kind \in {"status", "closed"}
            /\ attach' = [attach EXCEPT ![g].open = m.kind # "closed", ![g].missed = ear # g]
            /\ shown' = IF ear = g THEN m.status ELSE shown
            /\ UNCHANGED <<batch, timer, pending, count, heard>>
  /\ UNCHANGED <<links, served, events, cur, switcher, prof, ear, log, paused, cursor, detail>>
  /\ UNCHANGED <<shuffled, crossed>>

\* Of the status at attach-ok, what is emitted once the component is mounted;
\* it starts as if connecting.
Told(s) == IF s \in {"connected", "disconnected"} THEN s ELSE "connecting"

\* Slip: the component has no key, so that it is mounted once and for all.
MountOnce(g) ==
  /\ attach[g].pc = "answered"
  /\ attach' = [attach EXCEPT ![g].pc = "mounted"]
  /\ prof' = attach[g].tunnel /\ ear' = IF ear = 0 THEN g ELSE ear
  /\ UNCHANGED <<shown, log, batch, timer, pending, paused, count, cursor, detail, heard, shuffled>>
  /\ UNCHANGED <<daemonSide, cur, switcher, crossed>>
\* initDashboard, or rerender once the list of tunnels came back; then the
\* state at attach-ok is emitted.  Another profile is another component.
Mount(g) ==
  /\ attach[g].pc = "answered"
  /\ attach' = [attach EXCEPT ![g].pc = "mounted"]
  /\ \/ /\ prof # attach[g].tunnel
        /\ prof' = attach[g].tunnel /\ ear' = g /\ shown' = Told(attach[g].status)
        /\ log' = <<>> /\ batch' = <<>> /\ timer' = FALSE /\ pending' = <<>> /\ paused' = FALSE
        /\ count' = attach[g].count
        /\ cursor' = -1 /\ detail' = 0
        /\ heard' = <<>> /\ shuffled' = FALSE
     \/ prof = attach[g].tunnel /\ UNCHANGED <<screen, heard, shuffled>>
  /\ UNCHANGED <<daemonSide, cur, switcher, crossed>>

-----------------------------------------------------------------------------
(* The keys.  A modal takes the keys of the main view. *)

Mounted == ear # 0
MainKeys == Mounted /\ detail = 0 /\ ~switcher

OpenSwitcher ==
  /\ MainKeys /\ switcher' = TRUE
  /\ UNCHANGED <<daemonSide, attach, cur, screen, history>>

\* onSwitchTunnel up to its first await: the socket of the tunnel shown, or of
\* the switch under way, is destroyed, which its emitter is told; its
\* attach-ok will never come.
Pending == {g \in Gens : attach[g].pc \in {"attaching", "attached", "answered"}}
SwitchTo(t) ==
  /\ switcher /\ switcher' = FALSE
  /\ t # prof /\ cur < Attaches
  /\ cur' = cur + 1
  /\ attach' = [attach EXCEPT ![cur].open = FALSE,
                              ![cur].pc = IF @ \in {"attaching", "attached"} THEN "hung" ELSE @,
                              ![cur].missed = @ \/ ear # cur,
                              ![cur + 1] = Attaching(t)]
  /\ wire' = [wire EXCEPT ![cur] = <<>>]
  /\ shown' = IF ear = cur /\ attach[cur].open THEN "disconnected" ELSE shown
  /\ crossed' = (crossed \/ Pending # {})
  /\ UNCHANGED <<links, served, events, prof, ear, log, batch, timer, pending, paused, count, cursor, detail>>
  /\ UNCHANGED <<heard, shuffled>>

CloseSwitcher ==
  /\ switcher /\ switcher' = FALSE
  /\ UNCHANGED <<daemonSide, attach, cur, screen, history>>

LastOf(s) == SubSeq(s, IF Len(s) > LogMax THEN Len(s) - LogMax + 1 ELSE 1, Len(s))

\* The batch timer, 50 ms after the first entry, whether or not it was paused.
FlushBatch ==
  /\ timer /\ timer' = FALSE
  /\ log' = LastOf(log \o batch) /\ batch' = <<>> /\ count' = count + Len(batch)
  /\ UNCHANGED <<prof, ear, shown, pending, paused, cursor, detail, daemonSide, client, history>>

\* Slip: what was buffered is counted when it is shown, and was when it came.
TogglePauseCounts ==
  /\ MainKeys /\ paused' = ~paused
  /\ log' = IF paused THEN LastOf(log \o pending) ELSE log
  /\ count' = IF paused THEN count + Len(pending) ELSE count
  /\ pending' = IF paused THEN <<>> ELSE pending
  /\ shuffled' = (shuffled \/ (paused /\ batch # <<>> /\ pending # <<>>))
  /\ UNCHANGED <<prof, ear, shown, batch, timer, cursor, detail, daemonSide, client, heard, crossed>>
\* Slip: resuming shows the buffer in place of the log.
TogglePauseReplaces ==
  /\ MainKeys /\ paused' = ~paused
  /\ log' = IF paused THEN LastOf(pending) ELSE log
  /\ pending' = IF paused THEN <<>> ELSE pending
  /\ shuffled' = (shuffled \/ (paused /\ batch # <<>> /\ pending # <<>>))
  /\ UNCHANGED <<prof, ear, shown, batch, timer, count, cursor, detail, daemonSide, client, heard, crossed>>
\* Ctrl-P: resuming appends the buffer to the log, past an outstanding batch.
TogglePause ==
  /\ MainKeys /\ paused' = ~paused
  /\ log' = IF paused THEN LastOf(log \o pending) ELSE log
  /\ pending' = IF paused THEN <<>> ELSE pending
  /\ shuffled' = (shuffled \/ (paused /\ batch # <<>> /\ pending # <<>>))
  /\ UNCHANGED <<prof, ear, shown, batch, timer, count, cursor, detail, daemonSide, client, heard, crossed>>

AtLeast(a, b) == IF a < b THEN b ELSE a
AtMost(a, b)  == IF a > b THEN b ELSE a

\* The cursor counts from the newest entry; -1 is none.  Down in an empty log
\* leaves it at none.
MoveCursor ==
  /\ MainKeys
  /\ cursor' \in {IF cursor = -1 THEN 0 ELSE AtLeast(0, cursor - 1),
                  IF cursor = -1 THEN 0 ELSE AtMost(Len(log) - 1, cursor + 1), -1}
  /\ UNCHANGED <<prof, ear, shown, log, batch, timer, pending, paused, count, detail>>
  /\ UNCHANGED <<daemonSide, client, history>>

\* Enter opens the entry under the cursor, if there is one.
OpenDetail ==
  /\ MainKeys /\ cursor \in 0..(Len(log) - 1)
  /\ detail' = Reverse(log)[cursor + 1]
  /\ UNCHANGED <<prof, ear, shown, log, batch, timer, pending, paused, count, cursor>>
  /\ UNCHANGED <<daemonSide, client, history>>

CloseDetail ==
  /\ detail # 0 /\ detail' = 0
  /\ UNCHANGED <<prof, ear, shown, log, batch, timer, pending, paused, count, cursor>>
  /\ UNCHANGED <<daemonSide, client, history>>

Next ==
  \/ \E t \in Tunnels :
       Serve(t) \/ LinkUp(t) \/ LinkDown(t) \/ LinkRefused(t) \/ Stop(t) \/ SwitchTo(t)
  \/ DaemonEnds
  \/ \E g \in Gens : AttachOk(g) \/ Read(g) \/ Mount(g)
  \/ OpenSwitcher \/ CloseSwitcher \/ FlushBatch \/ TogglePause
  \/ MoveCursor \/ OpenDetail \/ CloseDetail

Spec == Init /\ [][Next]_vars

-----------------------------------------------------------------------------
(* Properties. *)

\* Once no attach is under way, the component listens to the last socket and
\* shows that socket's tunnel, and the socket is open as long as the tunnel
\* runs: only a switch begun during another one leaves a dashboard that nobody
\* tells anything of a tunnel that runs.
ListensToWhatItShows ==
  Mounted /\ Pending = {} /\ ~crossed /\ alive =>
    /\ ear = cur /\ prof = attach[cur].tunnel
    /\ prof \in active => attach[cur].open

\* A dashboard that has read what was sent shows the status of its tunnel, and
\* none without a socket shows it online; a tunnel that attach-ok reports as
\* connecting or in error shows as connecting until its next event.  Only
\* events that came between attach-ok and the mount, where nobody listens, are
\* lost, and the older status of attach-ok stays until the next one.
ShownInStep ==
  Mounted /\ wire[ear] = <<>> /\ ~attach[ear].missed =>
    IF attach[ear].open THEN shown \in {status[prof], Told(status[prof])}
                        ELSE shown # "connected"

\* What the dashboard was told is in the log, the batch and the pause buffer,
\* in order and once; only the oldest entries of a full log are missing.
\* Resuming while a batch is outstanding is the one way out of order.
LogFaithful ==
  LET all == log \o batch \o pending
  IN  ~shuffled =>
        /\ IsSuffix(all, heard)
        /\ Len(all) < Len(heard) => Len(log) = LogMax

\* The request counter is never ahead of the daemon, whatever is buffered,
\* paused, missed before the mount or counted by attach-ok already.
CountNeverAhead == Mounted => count + Len(batch) <= served[prof]
=============================================================================
