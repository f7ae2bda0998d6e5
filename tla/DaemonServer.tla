---------------------------- MODULE DaemonServer -----------------------------
(***************************************************************************)
(* The background daemon that owns the tunnels                             *)
(* (src/daemon/DaemonServer.ts) and the CLI that restarts it               *)
(* (src/lib/Flow/applyUpdate.ts, src/commands/CommandDaemon).  The clients *)
(* that attach to a tunnel are in Dashboard.tla.                           *)
(*                                                                         *)
(* The daemon is one thread: a request handler runs up to its first await, *)
(* and the only one that awaits is the start of a tunnel, which asks the   *)
(* relay for its connection data.  Restoring the dump awaits too, one      *)
(* tunnel after the other, before the daemon listens.                      *)
(*                                                                         *)
(* A tunnel is known by its handle; its relay connections appear as the    *)
(* link of module TunnelLink, which ProxyPool implements.  The socket      *)
(* server and process supervision are @tunli/daemon's, outside the         *)
(* repository: one daemon process runs at a time.                          *)
(***************************************************************************)
EXTENDS Naturals, FiniteSets

CONSTANTS
  Profiles,        \* profile names
  Handles,         \* bound: tunnel handles in memory at a time
  NoHandle

ASSUME DaemonAssumption == NoHandle \notin Handles /\ Profiles # {}

VARIABLES
  phase,           \* the process: "down", "restoring", "listening", "stopping"
  tunnels,         \* #tunnels: profile -> handle or NoHandle
  stage,           \* of each handle: "unused", "creating", "live", "ended"
  owner,           \* its profile
  up,              \* handles whose link is up
  status,          \* info.status of each handle
  queue,           \* dumped profiles not yet restored
  restoring,       \* the handle the restore loop awaits
  dumpFile,        \* profiles in dump.json; no file when empty
  cli,             \* dumpAndStopDaemon: "idle", "answered", "written"
  answer,          \* the dump it was given
  \* History, for the properties only.
  before,          \* profiles running when a restart shut the daemon down
  quiet,           \* no tunnel was started or stopped since its dump
  failed           \* profiles this process could not restore

daemon  == <<phase, queue, restoring, dumpFile, cli, answer>>
links   == <<stage, owner, up, status>>
history == <<before, quiet, failed>>
vars    == <<tunnels, daemon, links, history>>

Status  == {"connecting", "connected", "disconnected", "error"}
Running == {p \in Profiles : tunnels[p] # NoHandle}
In(s)   == {h \in Handles : stage[h] = s}

Init ==
  /\ phase = "down"
  /\ tunnels = [p \in Profiles |-> NoHandle]
  /\ stage = [h \in Handles |-> "unused"]
  /\ owner = [h \in Handles |-> CHOOSE p \in Profiles : TRUE]
  /\ up = {}
  /\ status = [h \in Handles |-> "connecting"]
  /\ queue = {} /\ restoring = NoHandle
  /\ dumpFile = {}
  /\ cli = "idle" /\ answer = {}
  /\ before = {} /\ quiet = FALSE /\ failed = {}

-----------------------------------------------------------------------------
(* The life of a handle                                                    *)

\* #startTunnel up to the await.  A handle nobody refers to is a new one.
Begin(h, p) ==
  /\ stage[h] \in {"unused", "ended"}
  /\ stage' = [stage EXCEPT ![h] = "creating"]
  /\ owner' = [owner EXCEPT ![h] = p]
  /\ status' = [status EXCEPT ![h] = "connecting"]
  /\ UNCHANGED up

\* #startTunnel after it: the sockets exist and the map has the handle.
Register(h) ==
  /\ stage' = [stage EXCEPT ![h] = "live"]
  /\ tunnels' = [tunnels EXCEPT ![owner[h]] = h]
  /\ UNCHANGED <<owner, up, status>>

\* An event of h reaches the daemon's listener.
Report(h, s) == status' = [status EXCEPT ![h] = s]

\* disconnect() of a set of handles: a link that is up reports its end.
Disconnect(H) ==
  /\ up' = up \ H
  /\ status' = [h \in Handles |-> IF h \in H \cap up THEN "disconnected" ELSE status[h]]

\* The process is gone: every connection with it.
ProcessEnds ==
  /\ phase' = "down"
  /\ tunnels' = [p \in Profiles |-> NoHandle]
  /\ stage' = [h \in Handles |-> "unused"]
  /\ owner' = [h \in Handles |-> CHOOSE p \in Profiles : TRUE]
  /\ status' = [h \in Handles |-> "connecting"]
  /\ up' = {} /\ queue' = {} /\ restoring' = NoHandle

-----------------------------------------------------------------------------
(* Requests                                                                *)

\* start, for a profile the map does not have; otherwise it only answers
\* alreadyRunning.
Start(h, p) ==
  /\ phase = "listening" /\ tunnels[p] = NoHandle
  /\ Begin(h, p)
  /\ quiet' = FALSE
  /\ UNCHANGED <<tunnels, daemon, before, failed>>

CreateDone(h) ==
  /\ phase \in {"listening", "stopping"} /\ stage[h] = "creating"
  /\ Register(h)
  /\ quiet' = (quiet /\ phase = "stopping")
  /\ UNCHANGED <<daemon, before, failed>>

CreateFails(h) ==
  /\ phase \in {"listening", "stopping"} /\ stage[h] = "creating"
  /\ stage' = [stage EXCEPT ![h] = "ended"]
  /\ UNCHANGED <<tunnels, owner, up, status, daemon, history>>

\* Slip: forgets to disconnect.
StopKeepsLink(p) ==
  /\ phase = "listening" /\ tunnels[p] # NoHandle
  /\ tunnels' = [tunnels EXCEPT ![p] = NoHandle]
  /\ quiet' = FALSE
  /\ UNCHANGED <<links, daemon, before, failed>>

\* stop.
Stop(p) ==
  /\ phase = "listening" /\ tunnels[p] # NoHandle
  /\ Disconnect({tunnels[p]})
  /\ tunnels' = [tunnels EXCEPT ![p] = NoHandle]
  /\ stage' = [stage EXCEPT ![tunnels[p]] = "ended"]
  /\ quiet' = FALSE
  /\ UNCHANGED <<owner, daemon, before, failed>>

-----------------------------------------------------------------------------
(* Events of the links                                                     *)

LinkUp(h) ==
  /\ stage[h] = "live" /\ h \notin up
  /\ up' = up \cup {h}
  /\ Report(h, "connected")
  /\ UNCHANGED <<tunnels, daemon, stage, owner, history>>

LinkDown(h) ==
  /\ stage[h] = "live" /\ h \in up
  /\ up' = up \ {h}
  /\ Report(h, "disconnected")
  /\ UNCHANGED <<tunnels, daemon, stage, owner, history>>

LinkRefused(h) ==
  /\ stage[h] = "live"
  /\ Report(h, "error")
  /\ UNCHANGED <<tunnels, daemon, stage, owner, up, history>>

-----------------------------------------------------------------------------
(* Start of the process and restoring                                      *)

\* The process starts: it reads dump.json and removes it at once.
Spawn ==
  /\ phase = "down"
  /\ phase' = "restoring"
  /\ queue' = dumpFile /\ dumpFile' = {}
  /\ failed' = {}
  /\ UNCHANGED <<tunnels, restoring, cli, answer, links, before, quiet>>

RestoreNext(h, p) ==
  /\ phase = "restoring" /\ restoring = NoHandle /\ p \in queue
  /\ queue' = queue \ {p}
  /\ restoring' = h
  /\ Begin(h, p)
  /\ UNCHANGED <<tunnels, phase, dumpFile, cli, answer, history>>

\* The handle the loop awaits has been asked for.
Awaited == restoring # NoHandle /\ stage[restoring] = "creating"

Restored ==
  /\ Awaited
  /\ Register(restoring)
  /\ restoring' = NoHandle
  /\ UNCHANGED <<phase, queue, dumpFile, cli, answer, history>>

\* Slips: the failure of one tunnel ends the loop, or leaves it waiting.
RestoreFailsAll ==
  /\ Awaited
  /\ stage' = [stage EXCEPT ![restoring] = "ended"]
  /\ failed' = failed \cup {owner[restoring]}
  /\ restoring' = NoHandle
  /\ queue' = {}
  /\ UNCHANGED <<tunnels, phase, dumpFile, cli, answer, owner, up, status,
                 before, quiet>>
RestoreFailsStuck ==
  /\ Awaited
  /\ stage' = [stage EXCEPT ![restoring] = "ended"]
  /\ failed' = failed \cup {owner[restoring]}
  /\ UNCHANGED <<tunnels, daemon, owner, up, status, before, quiet>>

\* A tunnel that cannot be restored is logged; the loop goes on.
RestoreFails ==
  /\ Awaited
  /\ stage' = [stage EXCEPT ![restoring] = "ended"]
  /\ failed' = failed \cup {owner[restoring]}
  /\ restoring' = NoHandle
  /\ UNCHANGED <<tunnels, phase, queue, dumpFile, cli, answer, owner, up,
                 status, before, quiet>>

Listen ==
  /\ phase = "restoring" /\ restoring = NoHandle /\ queue = {}
  /\ phase' = "listening"
  /\ before' = {} /\ quiet' = FALSE /\ failed' = {}
  /\ UNCHANGED <<tunnels, queue, restoring, dumpFile, cli, answer, links>>

-----------------------------------------------------------------------------
(* End of the process, and the CLI's dumpAndStopDaemon                     *)

\* dump.
Dump ==
  /\ phase = "listening" /\ cli = "idle"
  /\ cli' = "answered" /\ answer' = Running
  /\ quiet' = TRUE
  /\ UNCHANGED <<tunnels, phase, queue, restoring, dumpFile, links, before, failed>>

\* The CLI writes what it got; an empty dump leaves the file as it is.
WriteDump ==
  /\ cli = "answered"
  /\ cli' = "written" /\ answer' = {}
  /\ dumpFile' = IF answer = {} THEN dumpFile ELSE answer
  /\ UNCHANGED <<tunnels, phase, queue, restoring, links, history>>

\* #shutdown: the map itself is left as it is.
DisconnectAll ==
  LET all == {tunnels[p] : p \in Running} IN
  /\ Disconnect(all)
  /\ stage' = [h \in Handles |-> IF h \in all THEN "ended" ELSE stage[h]]

\* shutdown, as the last step of the CLI's restart.
Shutdown ==
  /\ phase = "listening" /\ cli = "written"
  /\ phase' = "stopping"
  /\ before' = Running
  /\ cli' = "idle"
  /\ DisconnectAll
  /\ UNCHANGED <<tunnels, queue, restoring, dumpFile, answer, owner, quiet, failed>>

\* `tunli daemon stop': the same request without a dump.
StopDaemon ==
  /\ phase = "listening"
  /\ phase' = "stopping"
  /\ before' = {}
  /\ DisconnectAll
  /\ UNCHANGED <<tunnels, queue, restoring, dumpFile, cli, answer, owner,
                 quiet, failed>>

Exit ==
  /\ phase = "stopping"
  /\ ProcessEnds
  /\ UNCHANGED <<dumpFile, cli, answer, history>>

\* The process is killed at any other time, while it restores included.
Crash ==
  /\ phase \in {"restoring", "listening"}
  /\ ProcessEnds
  /\ before' = {}
  /\ UNCHANGED <<dumpFile, cli, answer, quiet, failed>>

\* The CLI is killed, or its request fails because the daemon is gone.
CliGivesUp ==
  /\ cli # "idle"
  /\ cli' = "idle" /\ answer' = {}
  /\ UNCHANGED <<tunnels, phase, queue, restoring, dumpFile, links, history>>

Next ==
  \/ \E h \in Handles :
       \/ \E p \in Profiles : Start(h, p) \/ RestoreNext(h, p)
       \/ CreateDone(h) \/ CreateFails(h)
       \/ LinkUp(h) \/ LinkDown(h) \/ LinkRefused(h)
  \/ \E p \in Profiles : Stop(p)
  \/ Spawn \/ Restored \/ RestoreFails \/ Listen
  \/ Dump \/ WriteDump \/ Shutdown \/ StopDaemon \/ Exit \/ Crash \/ CliGivesUp

Spec == Init /\ [][Next]_vars

\* The relay answers a request for connection data or it fails, and the loop
\* of #restoreFromDump goes on.
Fairness ==
  /\ WF_vars(\E h \in Handles, p \in Profiles : RestoreNext(h, p))
  /\ WF_vars(Restored \/ RestoreFails)
  /\ WF_vars(Listen)

FairSpec == Spec /\ Fairness

-----------------------------------------------------------------------------
(* Properties                                                              *)

\* Every variable keeps its type.
TypeOK ==
  /\ phase \in {"down", "restoring", "listening", "stopping"}
  /\ tunnels \in [Profiles -> Handles \cup {NoHandle}]
  /\ stage \in [Handles -> {"unused", "creating", "live", "ended"}]
  /\ owner \in [Handles -> Profiles]
  /\ up \subseteq Handles
  /\ status \in [Handles -> Status]
  /\ queue \subseteq Profiles /\ restoring \in Handles \cup {NoHandle}
  /\ dumpFile \subseteq Profiles
  /\ cli \in {"idle", "answered", "written"} /\ answer \subseteq Profiles
  /\ before \subseteq Profiles /\ quiet \in BOOLEAN /\ failed \subseteq Profiles

\* What `list', `dump', `attach' and `stop' find in the map is an open tunnel
\* of that profile, through overlapping starts, stops and restores.
OwnedIsOpen ==
  phase \in {"restoring", "listening"} =>
    \A p \in Running : stage[tunnels[p]] = "live" /\ owner[tunnels[p]] = p

\* src/README.md:155: `restart preserves active tunnels'.  It does, but for
\* those the relay refuses, if no tunnel is started or stopped between the
\* dump and the shutdown; one that is started there is stopped and not restored.
QuietRestartPreserves ==
  [][phase = "restoring" /\ phase' = "listening" /\ quiet =>
       before \ failed \subseteq Running']_vars

\* src/docs/architecture.md:51: the daemon `owns all active tunnel
\* connections'.  A live tunnel leaves the map without being disconnected only
\* when a start of the same profile, let in before it was registered,
\* completes: both passed the check of #handleStart, and the connections of the
\* first stay open and can be neither listed nor stopped.
OwnerLostOnlyToOverlap ==
  [][\A p \in Running : LET h == tunnels[p] IN
       phase = "listening" /\ stage[h] = "live" /\ stage'[h] = "live" /\ tunnels'[p] # h
         => \E g \in In("creating") : owner[g] = p /\ stage'[g] = "live"]_vars

\* Each handle's link does what TunnelLink, which ProxyPool implements, says.
Link(h) == INSTANCE TunnelLink WITH up <- h \in up, open <- stage[h] = "live",
                                    status <- status[h]
LinksFollowPool ==
  [][\A h \in In("live") : phase' # "down" =>
       Link(h)!Next \/ UNCHANGED <<stage[h], h \in up, status[h]>>]_vars

\* The daemon always gets to listen, whatever the restored tunnels do.
RestoreTerminates == phase = "restoring" ~> phase # "restoring"
=============================================================================
