------------------------------ MODULE Launcher ------------------------------
(***************************************************************************)
(* The launcher (launcher-main.ts, utils/cliFunctions.ts): the process     *)
(* that runs the program proper as its child, replaces it when the child   *)
(* sends `restart', and on the way swaps in a downloaded binary            *)
(* (lib/Flow/applyUpdate.ts, downloadBinaryUpdate.ts).  A second terminal  *)
(* may run `tunli update' or `tunli daemon restart' meanwhile, which go    *)
(* through the same files and the same daemon.                             *)
(*                                                                         *)
(* A process is single-threaded, but the handler of a restart message      *)
(* awaits the daemon three times, and nothing stops a second message from  *)
(* being handled in between.  The daemon is reduced to whether it is up    *)
(* and holds the user's tunnels (DaemonServer.tla has the detail).         *)
(*                                                                         *)
(* Bounds: MaxRestarts on restart messages and new starts of the launcher, *)
(* MaxChild on spawned children (each of these adds one child to the first *)
(* one, so that MaxRestarts + 1 suffices).                                 *)
(***************************************************************************)
EXTENDS Naturals, FiniteSets, FiniteSetsExt

CONSTANTS Versions,      \* <<major, minor, patch>>, as released
          First,         \* the version installed at the start
          MaxRestarts

MaxChild == MaxRestarts + 1
Children == 1..MaxChild
Cli      == 0            \* `tunli update' in another terminal
Tasks    == Cli..MaxRestarts
Updaters == {Cli} \cup Children

ASSUME LauncherAssumption ==
  /\ First \in Versions /\ Versions \subseteq Nat \X Nat \X Nat
  /\ MaxRestarts \in Nat

NoFile == <<>>
Part   == <<0>>          \* a binary that is not completely written

VARIABLES
  launcher,   \* "up", "crashed" (an unhandled rejection) or "exited"
  child,      \* [Children -> "none", "boot", "live", "told", "dead"]
  presses,    \* `restart' messages sent, and later starts of the launcher
  inbox,      \* those messages of each child that are not handled
  task,       \* [Tasks -> where dumpAndStopDaemon and its caller are]
  swap,       \* tasks that replace the binary
  bin, next,  \* tunli-main and tunli-main.update
  copy,       \* [Updaters -> "idle", "next", "bin"]: the file being written
  latest,     \* the released version
  ver,        \* [Children -> the version each runs]
  daemon, open, dump,  \* running; with the tunnels; dump.json holds them
  had,        \* tunnels were running when a restart began (history)
  mixed,      \* two restarts or updates overlapped (history)
  cut, killed \* a process ended in the middle of a copy; the other terminal
              \* was interrupted in the middle of a restart (history)

files == <<bin, next, copy, latest, ver>>
world == <<daemon, open, dump>>
vars  == <<launcher, child, presses, inbox, task, swap, files, world, had, mixed, cut, killed>>

-----------------------------------------------------------------------------
(* versionCheck.ts *)

Newer(r, l) ==
  CASE r[1] # l[1] -> r[1] > l[1]
    [] r[1] = l[1] /\ r[2] # l[2] -> r[2] > l[2]
    [] OTHER -> r[3] > l[3]

Whole(b) == b \in Versions
Busy(t) == task[t] # "none"
Calm == \A t \in Tasks : ~Busy(t)
UnderWay ==
  \/ ~Calm \/ \E u \in Updaters : copy[u] # "idle"
  \/ \E c \in Children : inbox[c] > 0 \/ child[c] = "boot"

Init ==
  /\ launcher = "up"
  /\ child = [c \in Children |-> IF c = 1 THEN "live" ELSE "none"]
  /\ presses = 0 /\ inbox = [c \in Children |-> 0]
  /\ task = [t \in Tasks |-> "none"] /\ swap = {}
  /\ bin = First /\ next = NoFile /\ ver = [c \in Children |-> First]
  /\ copy = [u \in Updaters |-> "idle"] /\ latest = First
  /\ daemon \in BOOLEAN /\ open = daemon /\ dump = FALSE
  /\ had = FALSE /\ mixed = FALSE /\ cut = FALSE /\ killed = FALSE

-----------------------------------------------------------------------------
(* downloadBinaryUpdate: Ctrl-U in a child, or `tunli update'. *)

Release ==
  /\ \E v \in Versions : Newer(v, latest) /\ latest' = v
  /\ UNCHANGED <<launcher, child, presses, inbox, task, swap, bin, next, copy, ver, world, had, mixed, cut, killed>>

Running(u) == IF u = Cli THEN task[Cli] = "none" ELSE child[u] = "live"

\* The version u compares with: its own, which a later update leaves behind.
Own(u) == IF u = Cli THEN bin ELSE ver[u]

\* Slip: the update is written over the installed binary.
CopyBeginsInPlace(u) ==
  /\ Running(u) /\ copy[u] = "idle" /\ bin # Part /\ Newer(latest, Own(u))
  /\ copy' = [copy EXCEPT ![u] = "bin"] /\ bin' = Part
  /\ mixed' = (mixed \/ UnderWay)
  /\ UNCHANGED <<launcher, child, presses, inbox, task, swap, next, latest, ver, world, had, cut, killed>>

\* copyFile truncates the target and fills it; downloading before it changes
\* nothing that is shared.  getAvailableUpdate offers newer versions only.
CopyBegins(u) ==
  /\ Running(u) /\ copy[u] = "idle" /\ bin # Part /\ Newer(latest, Own(u))
  /\ copy' = [copy EXCEPT ![u] = "next"] /\ next' = Part
  /\ mixed' = (mixed \/ UnderWay)
  /\ UNCHANGED <<launcher, child, presses, inbox, task, swap, bin, latest, ver, world, had, cut, killed>>

\* What the file holds once u is done with it: its bytes may have been moved
\* to the other name, and another copy may still be under way.
Written(u) == IF \E w \in Updaters \ {u} : copy[w] = copy[u] THEN Part ELSE latest

\* `tunli update' goes on to replace the binary at once.
CopyEnds(u) ==
  /\ copy[u] # "idle" /\ (u \in Children => child[u] \in {"live", "told"})
  /\ copy' = [copy EXCEPT ![u] = "idle"]
  /\ next' = IF copy[u] = "next" THEN Written(u) ELSE next
  /\ bin'  = IF copy[u] = "bin"  THEN Written(u) ELSE bin
  /\ task' = IF u = Cli THEN [task EXCEPT ![Cli] = "swap"] ELSE task
  /\ UNCHANGED <<launcher, child, presses, inbox, swap, latest, ver, world, had, mixed, cut, killed>>

\* A copy that fails removes what it wrote, by name.
CopyFails(u) ==
  /\ copy[u] # "idle" /\ (u \in Children => child[u] \in {"live", "told"})
  /\ copy' = [copy EXCEPT ![u] = "idle"] /\ next' = NoFile
  /\ UNCHANGED <<launcher, child, presses, inbox, task, swap, bin, latest, ver, world, had, mixed, cut, killed>>

\* The rename of applyBinary; whoever still writes the file goes on writing it.
Rename ==
  /\ bin' = next /\ next' = NoFile
  /\ copy' = [u \in Updaters |-> IF copy[u] = "next" THEN "bin" ELSE copy[u]]

\* CommandUpdate: applyBinary, then the daemon is restarted if it was running
\* and the user wants it to be.  The file may be gone by now: an error.
CliSwaps ==
  /\ task[Cli] = "swap"
  /\ \/ next # NoFile /\ Rename
     \/ next = NoFile /\ UNCHANGED <<bin, next, copy>>
  /\ \E after \in {"ask", "none"} :
       task' = [task EXCEPT ![Cli] = IF next = NoFile THEN "none" ELSE after]
  /\ UNCHANGED <<launcher, child, presses, inbox, swap, latest, ver, world, had, mixed, cut, killed>>

\* `tunli daemon restart' in the other terminal.
CliRestarts ==
  /\ task[Cli] = "none" /\ copy[Cli] = "idle" /\ daemon
  /\ task' = [task EXCEPT ![Cli] = "ask"]
  /\ mixed' = (mixed \/ UnderWay)
  /\ UNCHANGED <<launcher, child, presses, inbox, swap, files, world, had, cut, killed>>

-----------------------------------------------------------------------------
(* dumpAndStopDaemon, in whichever process: isRunning, dump, write and stop. *)

\* A step of the daemon client that fails: the launcher has no handler for the
\* rejection of doRestart and dies of it; the other terminal reports an error.
Throws(t) ==
  /\ launcher' = IF t = Cli THEN launcher ELSE "crashed"
  /\ task' = [task EXCEPT ![t] = "none"]

Alive(t) == t # Cli => launcher = "up"

IsRunning(t) ==
  /\ task[t] = "ask" /\ Alive(t)
  /\ task' = [task EXCEPT ![t] = IF daemon THEN "dump" ELSE "stopped"]
  /\ UNCHANGED <<launcher, child, presses, inbox, swap, files, world, had, mixed, cut, killed>>

\* The answer to `dump' is written to dump.json unless it is empty.
DumpTunnels(t) ==
  /\ task[t] = "dump" /\ Alive(t)
  /\ \/ /\ daemon
        /\ dump' = (dump \/ open) /\ had' = (had \/ open)
        /\ task' = [task EXCEPT ![t] = "stop"] /\ UNCHANGED launcher
     \/ ~daemon /\ Throws(t) /\ UNCHANGED <<dump, had>>
  /\ UNCHANGED <<child, presses, inbox, swap, files, daemon, open, mixed, cut, killed>>

\* shutdown: the daemon closes its tunnels and goes away.
StopDaemon(t) ==
  /\ task[t] = "stop" /\ Alive(t)
  /\ \/ /\ daemon
        /\ daemon' = FALSE /\ open' = FALSE
        /\ task' = [task EXCEPT ![t] = "stopped"] /\ UNCHANGED launcher
     \/ ~daemon /\ Throws(t) /\ UNCHANGED <<daemon, open>>
  /\ UNCHANGED <<child, presses, inbox, swap, files, dump, had, mixed, cut, killed>>

\* A daemon that starts takes the dump up and removes it.
DaemonStarts == daemon' = TRUE /\ open' = (open \/ dump) /\ dump' = FALSE

\* DaemonClient.start() of the other terminal; a running daemon is left alone.
CliStarts ==
  /\ task[Cli] = "stopped"
  /\ task' = [task EXCEPT ![Cli] = "none"]
  /\ \/ ~daemon /\ DaemonStarts
     \/ daemon /\ UNCHANGED world
  /\ UNCHANGED <<launcher, child, presses, inbox, swap, files, had, mixed, cut, killed>>

\* Ctrl-C in the other terminal ends what it does where it stands: a file it
\* was writing stays cut short, a dump it wrote stays, and a daemon it stopped
\* stays down.
CliKilled ==
  /\ copy[Cli] # "idle" \/ Busy(Cli)
  /\ copy' = [copy EXCEPT ![Cli] = "idle"] /\ task' = [task EXCEPT ![Cli] = "none"]
  /\ cut' = (cut \/ copy[Cli] # "idle") /\ killed' = (killed \/ Busy(Cli))
  /\ UNCHANGED <<launcher, child, presses, inbox, swap, bin, next, latest, ver, world, had, mixed>>

-----------------------------------------------------------------------------
(* proxyChildProcess *)

\* Ctrl-R in the dashboard: nothing disables it while it is carried out.
PressRestart(c) ==
  /\ child[c] \in {"live", "told"} /\ presses < MaxRestarts
  /\ presses' = presses + 1
  /\ inbox' = [inbox EXCEPT ![c] = @ + 1]
  /\ mixed' = (mixed \/ UnderWay \/ child[c] = "told")
  /\ UNCHANGED <<launcher, child, task, swap, files, world, had, cut, killed>>

\* Slip: the child is asked to end only once the new one runs.
HandleRestartKeeps(c) ==
  /\ launcher = "up" /\ inbox[c] > 0
  /\ inbox' = [inbox EXCEPT ![c] = @ - 1] /\ UNCHANGED presses
  /\ \E t \in {Min({s \in Tasks \ {Cli} : ~Busy(s)})} :
       /\ task' = [task EXCEPT ![t] = IF next # NoFile THEN "ask" ELSE "stopped"]
       /\ swap' = IF next # NoFile THEN swap \cup {t} ELSE swap \ {t}
  /\ UNCHANGED <<launcher, child, presses, files, world, had, mixed, cut, killed>>

\* onMessage: the close handler goes, the child is sent SIGTERM, and
\* onBeforeRestart runs up to its first await: with an update, applyUpdate.
HandleRestart(c) ==
  /\ launcher = "up" /\ inbox[c] > 0
  /\ inbox' = [inbox EXCEPT ![c] = @ - 1] /\ UNCHANGED presses
  /\ child' = [child EXCEPT ![c] = IF @ = "dead" THEN @ ELSE "told"]
  /\ \E t \in {Min({s \in Tasks \ {Cli} : ~Busy(s)})} :
       /\ task' = [task EXCEPT ![t] = IF next # NoFile THEN "ask" ELSE "stopped"]
       /\ swap' = IF next # NoFile THEN swap \cup {t} ELSE swap \ {t}
  /\ UNCHANGED <<launcher, files, world, had, mixed, cut, killed>>

\* applyBinary after the daemon stopped, then `spawn'.  Renaming a file that
\* is gone throws; a binary that is cut short cannot run, and the launcher
\* ends with its `close'.
Fresh == Min({c \in Children : child[c] = "none"})
Spawn(t) ==
  /\ t # Cli /\ task[t] = "stopped" /\ launcher = "up"
  /\ \/ /\ t \in swap /\ next = NoFile
        /\ Throws(t) /\ UNCHANGED <<child, bin, next, copy, ver>>
     \/ /\ ~(t \in swap /\ next = NoFile)
        /\ IF t \in swap THEN Rename ELSE UNCHANGED <<bin, next, copy>>
        /\ task' = [task EXCEPT ![t] = "none"]
        /\ launcher' = IF bin' = Part THEN "exited" ELSE launcher
        /\ child' = [child EXCEPT ![Fresh] = IF bin' = Part THEN "dead" ELSE "boot"]
        /\ ver' = [ver EXCEPT ![Fresh] = IF bin' = Part THEN @ ELSE bin']
  /\ UNCHANGED <<presses, inbox, swap, latest, world, had, mixed, cut, killed>>

\* sea-main: with a dump and no daemon, the daemon is started first.
BootIgnoresDump(c) ==
  /\ child[c] = "boot" /\ child' = [child EXCEPT ![c] = "live"]
  /\ UNCHANGED <<launcher, presses, inbox, task, swap, files, world, had, mixed, cut, killed>>
Boot(c) ==
  /\ child[c] = "boot" /\ child' = [child EXCEPT ![c] = "live"]
  /\ \/ dump /\ ~daemon /\ DaemonStarts
     \/ ~(dump /\ ~daemon) /\ UNCHANGED world
  /\ UNCHANGED <<launcher, presses, inbox, task, swap, files, had, mixed, cut, killed>>

\* SIGTERM takes effect; what the child was writing stays as it is.
Dies(c) ==
  /\ child[c] = "told" /\ child' = [child EXCEPT ![c] = "dead"]
  /\ copy' = [copy EXCEPT ![c] = "idle"] /\ cut' = (cut \/ copy[c] # "idle")
  /\ UNCHANGED <<launcher, presses, inbox, task, swap, bin, next, latest, ver, world, had, mixed, killed>>

\* The user leaves: the child closes, and the launcher with it.
Quit(c) ==
  /\ launcher = "up" /\ child[c] = "live" /\ inbox[c] = 0
  /\ child' = [child EXCEPT ![c] = "dead"] /\ copy' = [copy EXCEPT ![c] = "idle"]
  /\ launcher' = "exited" /\ cut' = (cut \/ copy[c] # "idle")
  /\ UNCHANGED <<presses, inbox, task, swap, bin, next, latest, ver, world, had, mixed, killed>>

\* `tunli' is started again once the program of the last start is gone, and
\* runs what is installed: a binary that is cut short ends it at once.  What
\* the last launcher left undone is gone with it; an update that lies there,
\* whoever wrote it, waits for the next restart.
Starts ==
  /\ launcher # "up" /\ \A c \in Children : child[c] \in {"none", "dead"}
  /\ bin # Part /\ presses < MaxRestarts
  /\ launcher' = "up" /\ presses' = presses + 1
  /\ child' = [child EXCEPT ![Fresh] = "boot"] /\ ver' = [ver EXCEPT ![Fresh] = bin]
  /\ inbox' = [c \in Children |-> 0] /\ swap' = {}
  /\ task' = [t \in Tasks |-> IF t = Cli THEN task[Cli] ELSE "none"]
  /\ mixed' = (mixed \/ UnderWay)
  /\ UNCHANGED <<bin, next, copy, latest, world, had, cut, killed>>

Next ==
  \/ Release \/ CliSwaps \/ CliRestarts \/ CliStarts \/ CliKilled \/ Starts
  \/ \E u \in Updaters : CopyBegins(u) \/ CopyEnds(u) \/ CopyFails(u)
  \/ \E t \in Tasks : IsRunning(t) \/ DumpTunnels(t) \/ StopDaemon(t) \/ Spawn(t)
  \/ \E c \in Children :
       PressRestart(c) \/ HandleRestart(c) \/ Boot(c) \/ Dies(c) \/ Quit(c)

Spec == Init /\ [][Next]_vars

-----------------------------------------------------------------------------
(* Properties. *)

LiveChildren == {c \in Children : child[c] \in {"boot", "live"}}
Settled == launcher = "up" /\ Calm /\ \A c \in Children : inbox[c] = 0 /\ child[c] # "boot"

\* The terminal has one program, and a launcher with nothing left to do has a
\* child to supervise: only a restart asked for during another one, or during
\* an update, breaks this.
OneChild ==
  ~mixed => /\ Cardinality(LiveChildren) <= 1
            /\ Settled => LiveChildren # {}

\* Tunnels that a restart found running are running again once it is over, by
\* way of dump.json and of the new child that starts the daemon for it.  When
\* something was interrupted half way, they are in dump.json at least, where
\* the next child to start finds them.
TunnelsSurvive ==
  ~mixed /\ had /\ Settled =>
    (daemon /\ open) \/ ((cut \/ killed) /\ ~daemon /\ dump)

\* The installed binary is whole at every step, also in the middle of a
\* download, of an update and of a restart.  It may be cut short when two of
\* these overlap, and when a process ended in the middle of its copy: what it
\* leaves is what the next restart installs.
BinaryWhole == ~mixed /\ ~cut => Whole(bin)
=============================================================================
