-------------------------- MODULE CommandLineProofs -------------------------
(***************************************************************************)
(* Theorems about the command line.                                        *)
(*                                                                         *)
(* Launcher, for any versions and any number of restarts: as long as       *)
(* restarts and updates do not overlap, there is one child; the tunnels    *)
(* survive and the installed binary is whole unless one is interrupted.    *)
(*                                                                         *)
(* Parser, for any tree of commands and any line: the passes of the levels *)
(* find together what one pass with the options of all of them finds.      *)
(***************************************************************************)
EXTENDS Launcher, Parser, SequenceTheorems, FiniteSetTheorems, WellFoundedInduction, TLAPS

\* What a step of Next is, by name.
LEMMA StepCases ==
  ASSUME [Next]_vars, NEW G,
         Release => G, CliSwaps => G, CliRestarts => G, CliStarts => G,
         CliKilled => G, Starts => G,
         \A u \in Updaters : CopyBegins(u) => G,
         \A u \in Updaters : CopyEnds(u) => G,
         \A u \in Updaters : CopyFails(u) => G,
         \A t \in Tasks : IsRunning(t) => G,
         \A t \in Tasks : DumpTunnels(t) => G,
         \A t \in Tasks : StopDaemon(t) => G,
         \A t \in Tasks : Spawn(t) => G,
         \A c \in Children : PressRestart(c) => G,
         \A c \in Children : HandleRestart(c) => G,
         \A c \in Children : Boot(c) => G,
         \A c \in Children : Dies(c) => G,
         \A c \in Children : Quit(c) => G,
         UNCHANGED vars => G
  PROVE  G
BY DEF Next

\* Min is the least element of a set of numbers that has one.
LEMMA MinIsLeast ==
  ASSUME NEW M \in SUBSET Nat, M # {}
  PROVE  Min(M) \in M /\ \A j \in M : Min(M) <= j
<1>. DEFINE R == {p \in Nat \X Nat : p[1] < p[2]}
<1>1. R = OpToRel(<, Nat)
  BY DEF OpToRel
<1>2. PICK m \in M : \A j \in M : ~(<<j, m>> \in R)
  <2>. HIDE DEF R
  <2>. QED BY <1>1, NatLessThanWellFounded, WFMin
<1>3. ASSUME NEW j \in M PROVE m <= j
  <2>1. <<j, m>> \in Nat \X Nat /\ <<j, m>>[1] = j /\ <<j, m>>[2] = m
    OBVIOUS
  <2>2. ~(j < m)
    BY <1>2, <2>1
  <2>. QED BY <2>2
<1>. QED BY <1>3 DEF Min

\* A binary that is whole is neither missing nor cut short.
LEMMA WholeIsThere ==
  ASSUME NEW v \in Versions PROVE v # NoFile /\ v # Part
<1>1. v \in Nat \X Nat \X Nat
  BY LauncherAssumption
<1>2. v = <<v[1], v[2], v[3]>>
  BY <1>1
<1>3. DOMAIN v = {1, 2, 3}
  BY <1>2, <1>1
<1>. QED BY <1>3 DEF NoFile, Part
-----------------------------------------------------------------------------
(* The inductive invariant                                                 *)

Steps == {"ask", "dump", "stop", "stopped"}

\* The types of what the proof speaks of.
Types ==
  /\ launcher \in {"up", "crashed", "exited"}
  /\ child \in [Children -> {"none", "boot", "live", "told", "dead"}]
  /\ presses \in 0..MaxRestarts /\ inbox \in [Children -> Nat]
  /\ task \in [Tasks -> Steps \cup {"none", "swap"}]
  /\ copy \in [Updaters -> {"idle", "next", "bin"}]
  /\ bin \in Versions \cup {Part, NoFile} /\ next \in Versions \cup {Part, NoFile}
  /\ latest \in Versions
  /\ daemon \in BOOLEAN /\ open \in BOOLEAN /\ dump \in BOOLEAN
  /\ had \in BOOLEAN /\ mixed \in BOOLEAN /\ cut \in BOOLEAN /\ killed \in BOOLEAN

TasksIdle  == \A t \in Tasks : task[t] = "none"
CopiesIdle == \A u \in Updaters : copy[u] = "idle"
InboxEmpty == \A c \in Children : inbox[c] = 0
AllBooted  == \A c \in Children : child[c] # "boot"
OnlyTask(t) ==
  /\ \A s \in Tasks \ {t} : task[s] = "none"
  /\ CopiesIdle /\ InboxEmpty /\ AllBooted

\* The launcher lives as long as the one child that is live.
Supervised ==
  /\ launcher \in {"up", "exited"}
  /\ \A c, d \in Children : child[c] = "live" /\ child[d] = "live" => c = d
  /\ launcher = "up" <=> \E c \in Children : child[c] = "live"

\* Unless a process ended in the middle of a copy, the update is not cut short
\* while nobody writes it, and the binary is whole.
NextWhole == ~cut => next # Part
BinWhole  == ~cut => Whole(bin)

\* What may be under way as long as restarts and updates do not overlap: nothing, ...
Idle == TasksIdle /\ CopiesIdle /\ InboxEmpty /\ AllBooted /\ Supervised /\ NextWhole

\* ... a download by the live child or by the other terminal, ...
Copying(u) ==
  /\ TasksIdle /\ InboxEmpty /\ AllBooted /\ Supervised
  /\ copy[u] = "next" /\ \A w \in Updaters \ {u} : copy[w] = "idle"
  /\ u # Cli => child[u] = "live"

\* ... what the other terminal does after its download, or its restart, ...
CliBusy ==
  /\ OnlyTask(Cli) /\ task[Cli] # "none" /\ Supervised /\ NextWhole
  /\ task[Cli] = "swap" => next \in Versions

\* ... a restart message, ...
Asked(c) ==
  /\ TasksIdle /\ CopiesIdle /\ AllBooted /\ Supervised /\ NextWhole
  /\ child[c] = "live" /\ inbox[c] = 1
  /\ \A d \in Children \ {c} : inbox[d] = 0
  /\ \A d \in Children : child[d] # "none" => d <= presses

\* ... the restart it starts, between the end of one child and the next, ...
Restarting(t) ==
  /\ OnlyTask(t) /\ task[t] \in Steps
  /\ launcher = "up" /\ NextWhole /\ (t \in swap => next # NoFile)
  /\ \A c \in Children : child[c] # "live" /\ (child[c] # "none" => c <= presses)

\* ... or the next child's start.
Booting(c) ==
  /\ TasksIdle /\ CopiesIdle /\ InboxEmpty /\ launcher = "up" /\ NextWhole
  /\ child[c] = "boot" /\ \A d \in Children \ {c} : child[d] \notin {"boot", "live"}

OneThing ==
  \/ Idle \/ CliBusy
  \/ \E u \in Updaters : Copying(u)
  \/ \E t \in Tasks \ {Cli} : Restarting(t)
  \/ \E c \in Children : Asked(c) \/ Booting(c)

\* Every child spawned answers a message or a new start.
Numbered == \A c \in Children : child[c] # "none" => c <= presses + 1

\* Where the tunnels are: with the daemon or, from the dump to the start of
\* the next daemon, in dump.json.
Tunnels ==
  /\ open => daemon
  /\ had => open \/ dump
  /\ had /\ daemon => open
  /\ \A t \in Tasks : task[t] \in {"dump", "stop"} => daemon
  /\ \A t \in Tasks : task[t] = "stop" => (open => dump)
  /\ dump /\ daemon => killed \/ \E t \in Tasks : task[t] = "stop"
  /\ dump => \/ cut \/ killed
             \/ \E t \in Tasks : task[t] \in {"stop", "stopped"}
             \/ \E c \in Children : child[c] = "boot"

IInv == Types /\ (~mixed => OneThing /\ Numbered /\ Tunnels /\ BinWhole)

-----------------------------------------------------------------------------
(* Types                                                                   *)

\* The launchers and their tasks are numbered, and the first is not a child.
LEMMA Domains ==
  /\ Cli \in Tasks /\ Cli \in Updaters /\ Children \subseteq Updaters
  /\ Children \subseteq Tasks \cup {MaxChild} /\ Cli \notin Children
  /\ Children \subseteq Nat \ {0} /\ Tasks \subseteq Nat
BY LauncherAssumption DEF Cli, Tasks, Updaters, Children, MaxChild

\* Every step keeps the types.
LEMMA TypesStep ==
  ASSUME Types, [Next]_vars
  PROVE  Types'
<1>. USE Domains DEF Types, Steps
<1>1. ASSUME Release PROVE Types'
  BY <1>1 DEF Release, world
<1>2. ASSUME CliSwaps PROVE Types'
  BY <1>2 DEF CliSwaps, Rename, world
<1>3. ASSUME CliRestarts PROVE Types'
  BY <1>3 DEF CliRestarts, files, world
<1>4. ASSUME CliStarts PROVE Types'
  <2>1. daemon' \in BOOLEAN /\ open' \in BOOLEAN /\ dump' \in BOOLEAN
    BY <1>4 DEF CliStarts, DaemonStarts, world
  <2>2. latest' = latest /\ task' \in [Tasks -> Steps \cup {"none", "swap"}]
    BY <1>4 DEF CliStarts, files
  <2>3. UNCHANGED <<launcher, child, presses, inbox, copy, bin, next, had, mixed, cut, killed>>
    BY <1>4 DEF CliStarts, files
  <2>. QED BY <2>1, <2>2, <2>3
<1>5. ASSUME NEW u \in Updaters, CopyBegins(u) PROVE Types'
  BY <1>5 DEF CopyBegins, world
<1>6. ASSUME NEW u \in Updaters, CopyEnds(u) PROVE Types'
  BY <1>6 DEF CopyEnds, Written, world
<1>7. ASSUME NEW u \in Updaters, CopyFails(u) PROVE Types'
  BY <1>7 DEF CopyFails, world
<1>8. ASSUME NEW t \in Tasks, IsRunning(t) PROVE Types'
  BY <1>8 DEF IsRunning, files, world
<1>9. ASSUME NEW t \in Tasks, DumpTunnels(t) PROVE Types'
  BY <1>9 DEF DumpTunnels, Throws, files
<1>10. ASSUME NEW t \in Tasks, StopDaemon(t) PROVE Types'
  <2>1. launcher' \in {"up", "crashed", "exited"} /\ task' \in [Tasks -> Steps \cup {"none", "swap"}]
    BY <1>10 DEF StopDaemon, Throws
  <2>2. daemon' \in BOOLEAN /\ open' \in BOOLEAN
    BY <1>10 DEF StopDaemon
  <2>3. UNCHANGED <<child, presses, inbox, copy, bin, next, latest, dump, had, mixed, cut, killed>>
    BY <1>10 DEF StopDaemon, files
  <2>. QED BY <2>1, <2>2, <2>3
<1>11. ASSUME NEW t \in Tasks, Spawn(t) PROVE Types'
  <2>1. launcher' \in {"up", "crashed", "exited"} /\ task' \in [Tasks -> Steps \cup {"none", "swap"}]
    BY <1>11 DEF Spawn, Throws
  <2>2. child' \in [Children -> {"none", "boot", "live", "told", "dead"}]
    BY <1>11 DEF Spawn
  <2>3. /\ bin' \in Versions \cup {Part, NoFile} /\ next' \in Versions \cup {Part, NoFile}
        /\ copy' \in [Updaters -> {"idle", "next", "bin"}]
    BY <1>11 DEF Spawn, Rename
  <2>4. UNCHANGED <<presses, inbox, latest, daemon, open, dump, had, mixed, cut, killed>>
    BY <1>11 DEF Spawn, world
  <2>. QED BY <2>1, <2>2, <2>3, <2>4
<1>12. ASSUME NEW c \in Children, PressRestart(c) PROVE Types'
  BY <1>12, LauncherAssumption DEF PressRestart, files, world
<1>13. ASSUME NEW c \in Children, HandleRestart(c) PROVE Types'
  <2>1. inbox' \in [Children -> Nat]
    BY <1>13 DEF HandleRestart
  <2>2. child' \in [Children -> {"none", "boot", "live", "told", "dead"}]
    BY <1>13 DEF HandleRestart
  <2>3. task' \in [Tasks -> Steps \cup {"none", "swap"}]
    BY <1>13 DEF HandleRestart
  <2>4. UNCHANGED <<launcher, presses, copy, bin, next, latest, daemon, open, dump, had, mixed,
                    cut, killed>>
    BY <1>13 DEF HandleRestart, files, world
  <2>. QED BY <2>1, <2>2, <2>3, <2>4
<1>14. ASSUME NEW c \in Children, Boot(c) PROVE Types'
  <2>1. daemon' \in BOOLEAN /\ open' \in BOOLEAN /\ dump' \in BOOLEAN
    BY <1>14 DEF Boot, DaemonStarts, world
  <2>2. child' \in [Children -> {"none", "boot", "live", "told", "dead"}]
    BY <1>14 DEF Boot
  <2>3. UNCHANGED <<launcher, presses, inbox, task, copy, bin, next, latest, had, mixed, cut, killed>>
    BY <1>14 DEF Boot, files
  <2>. QED BY <2>1, <2>2, <2>3
<1>15. ASSUME NEW c \in Children, Dies(c) PROVE Types'
  BY <1>15 DEF Dies, world
<1>16. ASSUME NEW c \in Children, Quit(c) PROVE Types'
  BY <1>16 DEF Quit, world
<1>17. ASSUME UNCHANGED vars PROVE Types'
  BY <1>17 DEF vars, files, world
<1>18. ASSUME CliKilled PROVE Types'
  BY <1>18 DEF CliKilled, Busy, world
<1>19. ASSUME Starts PROVE Types'
  <2>1. launcher' = "up" /\ presses' \in 0..MaxRestarts /\ inbox' \in [Children -> Nat]
    BY <1>19, LauncherAssumption DEF Starts
  <2>2. child' \in [Children -> {"none", "boot", "live", "told", "dead"}]
    BY <1>19 DEF Starts
  <2>3. task' \in [Tasks -> Steps \cup {"none", "swap"}]
    BY <1>19 DEF Starts
  <2>4. mixed' \in BOOLEAN
    BY <1>19 DEF Starts, UnderWay, Calm
  <2>5. UNCHANGED <<copy, bin, next, latest, daemon, open, dump, had, cut, killed>>
    BY <1>19 DEF Starts, world
  <2>. QED BY <2>1, <2>2, <2>3, <2>4, <2>5
<1>. HIDE DEF Types
<1>. QED BY <1>1, <1>2, <1>3, <1>4, <1>5, <1>6, <1>7, <1>8, <1>9, <1>10, <1>11,
            <1>12, <1>13, <1>14, <1>15, <1>16, <1>17, <1>18, <1>19, StepCases

-----------------------------------------------------------------------------
(* What is under way                                                       *)

\* What the guard of an action says is under way, as only one thing is.
LEMMA Phase ==
  ASSUME Types, OneThing
  PROVE  /\ \A u \in Updaters : copy[u] # "idle" => Copying(u)
         /\ task[Cli] # "none" => CliBusy
         /\ \A t \in Tasks \ {Cli} : task[t] # "none" => Restarting(t)
         /\ \A c \in Children : inbox[c] > 0 => Asked(c)
         /\ \A c \in Children : child[c] = "boot" => Booting(c)
         /\ ~UnderWay => Idle
<1>. USE Domains
<1>1. CASE Idle
  BY <1>1 DEF Idle, TasksIdle, CopiesIdle, InboxEmpty, AllBooted
<1>2. CASE CliBusy
  BY <1>2 DEF CliBusy, OnlyTask, CopiesIdle, InboxEmpty, AllBooted, UnderWay, Calm, Busy
<1>3. ASSUME NEW u \in Updaters, Copying(u)
      PROVE  /\ \A w \in Updaters : copy[w] # "idle" => Copying(w)
             /\ task[Cli] = "none" /\ \A t \in Tasks \ {Cli} : task[t] = "none"
             /\ \A c \in Children : ~(inbox[c] > 0) /\ child[c] # "boot"
             /\ UnderWay
  <2>1. \A w \in Updaters : copy[w] # "idle" => w = u
    BY <1>3 DEF Copying
  <2>. QED BY <1>3, <2>1 DEF Copying, TasksIdle, InboxEmpty, AllBooted, UnderWay
<1>4. ASSUME NEW t \in Tasks \ {Cli}, Restarting(t)
      PROVE  /\ \A w \in Updaters : copy[w] = "idle"
             /\ task[Cli] = "none" /\ \A s \in Tasks \ {Cli} : task[s] # "none" => Restarting(s)
             /\ \A c \in Children : ~(inbox[c] > 0) /\ child[c] # "boot"
             /\ UnderWay
  <2>1. \A s \in Tasks \ {Cli} : task[s] # "none" => s = t
    BY <1>4 DEF Restarting, OnlyTask
  <2>. QED BY <1>4, <2>1 DEF Restarting, OnlyTask, CopiesIdle, InboxEmpty, AllBooted,
                             UnderWay, Calm, Busy, Steps
<1>5. ASSUME NEW c \in Children, Asked(c)
      PROVE  /\ \A w \in Updaters : copy[w] = "idle"
             /\ task[Cli] = "none" /\ \A s \in Tasks \ {Cli} : task[s] = "none"
             /\ \A d \in Children : inbox[d] > 0 => Asked(d)
             /\ \A d \in Children : child[d] # "boot"
             /\ UnderWay
  <2>1. \A d \in Children : inbox[d] > 0 => d = c
    BY <1>5 DEF Asked
  <2>. QED BY <1>5, <2>1 DEF Asked, TasksIdle, CopiesIdle, AllBooted, UnderWay
<1>6. ASSUME NEW c \in Children, Booting(c)
      PROVE  /\ \A w \in Updaters : copy[w] = "idle"
             /\ task[Cli] = "none" /\ \A s \in Tasks \ {Cli} : task[s] = "none"
             /\ \A d \in Children : ~(inbox[d] > 0)
             /\ \A d \in Children : child[d] = "boot" => Booting(d)
             /\ UnderWay
  <2>1. \A d \in Children : child[d] = "boot" => d = c
    BY <1>6 DEF Booting
  <2>. QED BY <1>6, <2>1 DEF Booting, TasksIdle, CopiesIdle, InboxEmpty, UnderWay
<1>. QED BY <1>1, <1>2, <1>3, <1>4, <1>5, <1>6 DEF OneThing

\* A step that touches none of the variables that say what is under way.
LEMMA SameThing ==
  ASSUME OneThing, UNCHANGED <<launcher, child, presses, inbox, task, swap, next, copy, cut>>
  PROVE  OneThing'
<1>. USE DEF TasksIdle, CopiesIdle, InboxEmpty, AllBooted, Supervised, NextWhole, OnlyTask
<1>1. Idle => Idle'
  BY DEF Idle
<1>2. CliBusy => CliBusy'
  BY DEF CliBusy
<1>3. \A u \in Updaters : Copying(u) => Copying(u)'
  BY DEF Copying
<1>4. \A t \in Tasks \ {Cli} : Restarting(t) => Restarting(t)'
  BY DEF Restarting
<1>5. \A c \in Children : Asked(c) => Asked(c)'
  BY DEF Asked
<1>6. \A c \in Children : Booting(c) => Booting(c)'
  BY DEF Booting
<1>. QED BY <1>1, <1>2, <1>3, <1>4, <1>5, <1>6 DEF OneThing

-----------------------------------------------------------------------------
(* One thing at a time                                                     *)

\* The other terminal: what follows a download, and a restart of its own.
LEMMA CliThing ==
  ASSUME Types, OneThing, ~mixed', CliSwaps \/ CliRestarts \/ CliStarts \/ CliKilled
  PROVE  OneThing'
<1>. USE Domains
     DEF TasksIdle, OnlyTask, CopiesIdle, InboxEmpty, AllBooted, Supervised, NextWhole
<1>1. CASE CliSwaps
  <2>1. CliBusy /\ task[Cli] = "swap" /\ next \in Versions
    BY <1>1, Phase DEF CliSwaps, CliBusy
  <2>2. next # NoFile /\ next' = NoFile /\ NoFile # Part
    BY <1>1, <2>1, WholeIsThere DEF CliSwaps, Rename, NoFile, Part
  <2>3. copy' = [u \in Updaters |-> IF copy[u] = "next" THEN "bin" ELSE copy[u]]
    BY <1>1, <2>2 DEF CliSwaps, Rename
  <2>4. UNCHANGED <<launcher, child, inbox, cut>>
    BY <1>1 DEF CliSwaps
  <2>5. PICK after \in {"ask", "none"} : task' = [task EXCEPT ![Cli] = after]
    BY <1>1, <2>2 DEF CliSwaps
  <2>6. CopiesIdle'
    BY <2>1, <2>3 DEF CliBusy
  <2>7. \A s \in Tasks \ {Cli} : task'[s] = "none"
    BY <2>1, <2>5 DEF CliBusy, Types
  <2>8. task'[Cli] = after
    BY <2>5 DEF Types
  <2>9. CASE after = "ask"
    <3>1. CliBusy'
      BY <2>1, <2>2, <2>4, <2>6, <2>7, <2>8, <2>9 DEF CliBusy
    <3>. QED BY <3>1 DEF OneThing
  <2>10. CASE after = "none"
    <3>1. Idle'
      BY <2>1, <2>2, <2>4, <2>6, <2>7, <2>8, <2>10 DEF CliBusy, Idle, TasksIdle
    <3>. QED BY <3>1 DEF OneThing
  <2>. QED BY <2>9, <2>10
<1>2. CASE CliRestarts
  <2>1. Idle
    BY <1>2, Phase DEF CliRestarts
  <2>2. UNCHANGED <<launcher, child, inbox, next, copy, cut>> /\ task' = [task EXCEPT ![Cli] = "ask"]
    BY <1>2 DEF CliRestarts, files
  <2>3. task'[Cli] = "ask" /\ \A s \in Tasks \ {Cli} : task'[s] = "none"
    BY <2>1, <2>2 DEF Idle, TasksIdle, Types
  <2>4. CliBusy'
    BY <2>1, <2>2, <2>3 DEF CliBusy, Idle
  <2>. QED BY <2>4 DEF OneThing
<1>3. CASE CliStarts
  <2>1. CliBusy
    BY <1>3, Phase DEF CliStarts
  <2>2. UNCHANGED <<launcher, child, inbox, next, copy, cut>> /\ task' = [task EXCEPT ![Cli] = "none"]
    BY <1>3 DEF CliStarts, files
  <2>3. TasksIdle'
    BY <2>1, <2>2 DEF CliBusy, TasksIdle, Types
  <2>4. Idle'
    BY <2>1, <2>2, <2>3 DEF CliBusy, Idle
  <2>. QED BY <2>4 DEF OneThing
<1>4. CASE CliKilled
  <2>1. CliBusy \/ Copying(Cli)
    BY <1>4, Phase DEF CliKilled, Busy
  <2>2. /\ UNCHANGED <<launcher, child, inbox, next>> /\ cut' = (cut \/ copy[Cli] # "idle")
        /\ copy' = [copy EXCEPT ![Cli] = "idle"] /\ task' = [task EXCEPT ![Cli] = "none"]
    BY <1>4 DEF CliKilled
  <2>3. TasksIdle'
    BY <2>1, <2>2 DEF CliBusy, Copying, Types
  <2>4. CopiesIdle'
    BY <2>1, <2>2 DEF CliBusy, Copying, Types
  <2>5. NextWhole'
    BY <2>1, <2>2 DEF CliBusy, Copying
  <2>6. (InboxEmpty /\ AllBooted /\ Supervised)'
    BY <2>1, <2>2 DEF CliBusy, Copying
  <2>7. Idle'
    BY <2>3, <2>4, <2>5, <2>6 DEF Idle
  <2>. QED BY <2>7 DEF OneThing
<1>. QED BY <1>1, <1>2, <1>3, <1>4

\* Downloads.
LEMMA CopyThing ==
  ASSUME Types, OneThing, ~mixed', NEW u \in Updaters,
         CopyBegins(u) \/ CopyEnds(u) \/ CopyFails(u)
  PROVE  OneThing'
<1>. USE Domains DEF TasksIdle, OnlyTask, CopiesIdle, InboxEmpty, AllBooted, Supervised, NextWhole
<1>1. CASE CopyBegins(u)
  <2>1. Idle
    BY <1>1, Phase DEF CopyBegins
  <2>2. UNCHANGED <<launcher, child, inbox, task, cut>> /\ copy' = [copy EXCEPT ![u] = "next"]
    BY <1>1 DEF CopyBegins
  <2>3. copy'[u] = "next" /\ \A w \in Updaters \ {u} : copy'[w] = "idle"
    BY <2>1, <2>2 DEF Idle, Types
  <2>4. u # Cli => child[u] = "live"
    BY <1>1 DEF CopyBegins, Running
  <2>5. Copying(u)'
    BY <2>1, <2>2, <2>3, <2>4 DEF Copying, Idle
  <2>. QED BY <2>5 DEF OneThing
<1>2. CASE CopyEnds(u) \/ CopyFails(u)
  <2>1. Copying(u)
    BY <1>2, Phase DEF CopyEnds, CopyFails
  <2>2. UNCHANGED <<launcher, child, inbox, cut>> /\ copy' = [copy EXCEPT ![u] = "idle"]
    BY <1>2 DEF CopyEnds, CopyFails
  <2>3. CopiesIdle'
    BY <2>1, <2>2 DEF Copying, Types
  <2>4. Written(u) = latest /\ latest \in Versions /\ latest # Part /\ NoFile # Part
    BY <2>1, WholeIsThere DEF Copying, Written, Types, NoFile, Part
  <2>5. CASE CopyEnds(u) /\ u = Cli
    <3>1. next' = latest /\ task' = [task EXCEPT ![Cli] = "swap"]
      BY <2>1, <2>4, <2>5 DEF CopyEnds, Copying
    <3>2. task'[Cli] = "swap" /\ \A s \in Tasks \ {Cli} : task'[s] = "none"
      BY <2>1, <3>1 DEF Copying, Types
    <3>3. CliBusy'
      BY <2>1, <2>2, <2>3, <2>4, <3>1, <3>2 DEF CliBusy, Copying
    <3>. QED BY <3>3 DEF OneThing
  <2>6. CASE CopyEnds(u) /\ u # Cli
    <3>1. next' = latest /\ task' = task
      BY <2>1, <2>4, <2>6 DEF CopyEnds, Copying
    <3>2. Idle'
      BY <2>1, <2>2, <2>3, <2>4, <3>1 DEF Idle, Copying
    <3>. QED BY <3>2 DEF OneThing
  <2>7. CASE CopyFails(u)
    <3>1. next' = NoFile /\ task' = task
      BY <2>7 DEF CopyFails
    <3>2. Idle'
      BY <2>1, <2>2, <2>3, <2>4, <3>1 DEF Idle, Copying
    <3>. QED BY <3>2 DEF OneThing
  <2>. QED BY <1>2, <2>5, <2>6, <2>7
<1>. QED BY <1>1, <1>2

\* The daemon is asked, dumped and stopped: the task stays what is under way.
LEMMA DaemonThing ==
  ASSUME Types, OneThing, Tunnels, NEW t \in Tasks,
         IsRunning(t) \/ DumpTunnels(t) \/ StopDaemon(t)
  PROVE  OneThing'
<1>. USE Domains DEF OnlyTask, CopiesIdle, InboxEmpty, AllBooted, Supervised, NextWhole
<1>1. task[t] \in {"ask", "dump", "stop"} /\ (task[t] # "ask" => daemon)
  BY DEF IsRunning, DumpTunnels, StopDaemon, Tunnels
<1>2. UNCHANGED <<launcher, child, presses, inbox, swap, next, copy, cut>>
  BY <1>1 DEF IsRunning, DumpTunnels, StopDaemon, files
<1>3. PICK s \in {"dump", "stop", "stopped"} : task' = [task EXCEPT ![t] = s]
  BY <1>1 DEF IsRunning, DumpTunnels, StopDaemon
<1>4. task'[t] = s /\ \A r \in Tasks \ {t} : task'[r] = task[r]
  BY <1>3 DEF Types
<1>5. CASE t = Cli
  <2>1. CliBusy
    BY <1>1, <1>5, Phase
  <2>2. CliBusy'
    BY <1>2, <1>4, <1>5, <2>1 DEF CliBusy
  <2>. QED BY <2>2 DEF OneThing
<1>6. CASE t # Cli
  <2>1. Restarting(t)
    BY <1>1, <1>6, Phase
  <2>2. Restarting(t)'
    BY <1>2, <1>4, <1>6, <2>1 DEF Restarting, Steps
  <2>. QED BY <1>6, <2>2 DEF OneThing
<1>. QED BY <1>5, <1>6

\* A restart message is sent, and taken up.
LEMMA MessageThing ==
  ASSUME Types, OneThing, Numbered, ~mixed', NEW c \in Children,
         PressRestart(c) \/ HandleRestart(c)
  PROVE  OneThing' /\ Numbered'
<1>. USE Domains DEF TasksIdle, OnlyTask, CopiesIdle, InboxEmpty, AllBooted, Supervised, NextWhole
<1>1. CASE PressRestart(c)
  <2>1. Idle /\ child[c] = "live"
    BY <1>1, Phase DEF PressRestart
  <2>2. UNCHANGED <<launcher, child, task, swap, next, copy, cut>>
    BY <1>1 DEF PressRestart, files
  <2>3. presses' = presses + 1 /\ inbox' = [inbox EXCEPT ![c] = @ + 1]
    BY <1>1 DEF PressRestart
  <2>4. inbox'[c] = 1 /\ \A d \in Children \ {c} : inbox'[d] = 0
    BY <2>1, <2>3 DEF Idle, Types
  <2>5. \A d \in Children : child[d] # "none" => d <= presses'
    BY <2>3 DEF Numbered
  <2>6. Asked(c)'
    BY <2>1, <2>2, <2>4, <2>5 DEF Asked, Idle
  <2>7. Numbered'
    BY <2>2, <2>3, <2>5 DEF Numbered, Types
  <2>. QED BY <2>6, <2>7 DEF OneThing
<1>2. CASE HandleRestart(c)
  <2>1. Asked(c) /\ launcher = "up"
    BY <1>2, Phase DEF HandleRestart
  <2>. DEFINE free == {s \in Tasks \ {Cli} : ~Busy(s)}
  <2>2. Min(free) \in Tasks \ {Cli}
    <3>1. c <= presses /\ c \in Nat \ {0} /\ presses \in 0..MaxRestarts
      BY <2>1 DEF Asked, Types
    <3>2. c \in Tasks
      BY <3>1, LauncherAssumption DEF Tasks, Cli
    <3>3. c \in free
      BY <2>1, <3>1, <3>2 DEF Asked, Busy, Cli
    <3>4. free \in SUBSET Nat /\ free # {}
      BY <3>3
    <3>. QED BY <3>4, MinIsLeast
  <2>3. UNCHANGED <<launcher, presses, next, copy, cut>>
    BY <1>2 DEF HandleRestart, files
  <2>4. PICK t \in Tasks \ {Cli} :
           /\ task' = [task EXCEPT ![t] = IF next # NoFile THEN "ask" ELSE "stopped"]
           /\ swap' = IF next # NoFile THEN swap \cup {t} ELSE swap \ {t}
    BY <1>2, <2>2 DEF HandleRestart
  <2>5. task'[t] \in {"ask", "stopped"} /\ \A s \in Tasks \ {t} : task'[s] = "none"
    BY <2>1, <2>4 DEF Asked, Types
  <2>6. inbox' = [inbox EXCEPT ![c] = @ - 1]
    BY <1>2 DEF HandleRestart
  <2>7. InboxEmpty'
    BY <2>1, <2>6 DEF Asked, Types
  <2>8. child' = [child EXCEPT ![c] = "told"]
    BY <1>2, <2>1 DEF HandleRestart, Asked
  <2>9. \A d \in Children : child'[d] \notin {"live", "boot"} /\ (child'[d] # "none" => d <= presses)
    BY <2>1, <2>8 DEF Asked, Types
  <2>10. NextWhole' /\ (t \in swap' => next # NoFile)
    BY <2>1, <2>3, <2>4 DEF Asked
  <2>11. Restarting(t)'
    BY <2>1, <2>3, <2>5, <2>7, <2>9, <2>10 DEF Restarting, Asked, Steps
  <2>12. Numbered'
    BY <2>3, <2>9 DEF Numbered, Types
  <2>. QED BY <2>11, <2>12 DEF OneThing
<1>. QED BY <1>1, <1>2

\* The restart ends in one new child or, after a copy that was cut short, in
\* none: the launcher ends with it.
LEMMA SpawnThing ==
  ASSUME Types, OneThing, BinWhole, NEW t \in Tasks, Spawn(t)
  PROVE  /\ OneThing' /\ Numbered' /\ BinWhole' /\ task' = [task EXCEPT ![t] = "none"]
         /\ cut \/ \E c \in Children : child'[c] = "boot"
<1>. USE Domains
<1>1. Restarting(t) /\ t # Cli
  BY Phase DEF Spawn
<1>2. /\ IF t \in swap THEN Rename ELSE UNCHANGED <<bin, next, copy>>
      /\ task' = [task EXCEPT ![t] = "none"]
      /\ launcher' = IF bin' = Part THEN "exited" ELSE launcher
      /\ child' = [child EXCEPT ![Fresh] = IF bin' = Part THEN "dead" ELSE "boot"]
  BY <1>1 DEF Spawn, Restarting
<1>3. UNCHANGED <<presses, inbox, cut>> /\ launcher = "up"
  BY <1>1 DEF Spawn, Restarting
<1>4. NextWhole' /\ BinWhole' /\ (bin' = Part => cut)
  <2>1. CASE t \in swap
    <3>1. /\ next \in Versions \cup {Part} /\ (~cut => next \in Versions)
          /\ bin' = next /\ next' = NoFile
      BY <1>1, <1>2, <2>1 DEF Restarting, NextWhole, Types, Rename
    <3>. QED BY <1>3, <3>1, WholeIsThere DEF NextWhole, BinWhole, Whole, NoFile, Part
  <2>2. CASE t \notin swap
    BY <1>1, <1>2, <1>3, <2>2, WholeIsThere DEF Restarting, NextWhole, BinWhole, Whole
  <2>. QED BY <2>1, <2>2
<1>5. PICK f \in Children : f = Fresh /\ child[f] = "none" /\ f <= presses + 1
  <2>. DEFINE free == {c \in Children : child[c] = "none"}
  <2>1. presses + 1 \in Children /\ presses \in Nat
    BY LauncherAssumption DEF Types, Children, MaxChild
  <2>2. child[presses + 1] = "none"
    BY <1>1, <2>1 DEF Restarting
  <2>3. presses + 1 \in free /\ free \in SUBSET Nat /\ free # {}
    BY <2>1, <2>2
  <2>4. Min(free) \in free /\ Min(free) <= presses + 1
    BY <2>3, MinIsLeast
  <2>. QED BY <2>4 DEF Fresh
<1>6. CopiesIdle'
  BY <1>1, <1>2 DEF Restarting, OnlyTask, CopiesIdle, Rename
<1>7. TasksIdle'
  BY <1>1, <1>2 DEF Restarting, OnlyTask, TasksIdle, Types
<1>8. InboxEmpty'
  BY <1>1, <1>3 DEF Restarting, OnlyTask, InboxEmpty
<1>9. /\ child'[f] = IF bin' = Part THEN "dead" ELSE "boot"
      /\ \A d \in Children \ {f} : child'[d] = child[d]
  BY <1>2, <1>5 DEF Types
<1>10. \A d \in Children \ {f} : child'[d] \notin {"boot", "live"}
  BY <1>1, <1>9 DEF Restarting, OnlyTask, AllBooted
<1>11. Numbered'
  <2>1. \A d \in Children \ {f} : child'[d] # "none" => d <= presses + 1
    BY <1>1, <1>9 DEF Restarting, Types
  <2>. QED BY <1>3, <1>5, <2>1 DEF Numbered
<1>12. CASE bin' # Part
  <2>1. child'[f] = "boot" /\ launcher' = "up"
    BY <1>2, <1>3, <1>9, <1>12
  <2>2. Booting(f)'
    BY <1>4, <1>6, <1>7, <1>8, <1>10, <2>1 DEF Booting
  <2>. QED BY <1>2, <1>4, <1>11, <2>1, <2>2 DEF OneThing
<1>13. CASE bin' = Part
  <2>1. child'[f] = "dead" /\ launcher' = "exited"
    BY <1>2, <1>9, <1>13
  <2>2. Supervised' /\ AllBooted'
    BY <1>10, <2>1 DEF Supervised, AllBooted
  <2>3. Idle'
    BY <1>4, <1>6, <1>7, <1>8, <2>2 DEF Idle
  <2>. QED BY <1>2, <1>4, <1>11, <1>13, <2>3 DEF OneThing
<1>. QED BY <1>12, <1>13

\* The launcher is started again, when nothing is under way.
LEMMA StartThing ==
  ASSUME Types, OneThing, Numbered, ~mixed', Starts
  PROVE  OneThing' /\ Numbered' /\ task' = task /\ \A c \in Children : child[c] # "boot"
<1>. USE Domains
<1>1. Idle /\ \A c \in Children : child[c] \in {"none", "dead"}
  BY Phase DEF Starts
<1>2. /\ launcher' = "up" /\ presses' = presses + 1 /\ presses < MaxRestarts
      /\ child' = [child EXCEPT ![Fresh] = "boot"]
      /\ inbox' = [c \in Children |-> 0]
      /\ task' = [t \in Tasks |-> IF t = Cli THEN task[Cli] ELSE "none"]
      /\ UNCHANGED <<next, copy, cut>>
  BY DEF Starts
<1>3. PICK f \in Children : f = Fresh /\ child[f] = "none" /\ f <= presses + 2
  <2>. DEFINE free == {c \in Children : child[c] = "none"}
  <2>1. presses + 2 \in Children /\ presses \in Nat
    BY <1>2, LauncherAssumption DEF Types, Children, MaxChild
  <2>2. child[presses + 2] = "none"
    BY <2>1 DEF Numbered
  <2>3. presses + 2 \in free /\ free \in SUBSET Nat /\ free # {}
    BY <2>1, <2>2
  <2>4. Min(free) \in free /\ Min(free) <= presses + 2
    BY <2>3, MinIsLeast
  <2>. QED BY <2>4 DEF Fresh
<1>4. task' = task
  BY <1>1, <1>2 DEF Idle, TasksIdle, Types
<1>5. (TasksIdle /\ CopiesIdle /\ InboxEmpty /\ NextWhole)'
  BY <1>1, <1>2, <1>4 DEF Idle, TasksIdle, CopiesIdle, InboxEmpty, NextWhole
<1>6. child'[f] = "boot" /\ \A d \in Children \ {f} : child'[d] = child[d]
  BY <1>2, <1>3 DEF Types
<1>7. Booting(f)'
  BY <1>1, <1>2, <1>5, <1>6 DEF Booting
<1>8. Numbered'
  <2>1. \A d \in Children \ {f} : child'[d] # "none" => d <= presses + 2
    BY <1>6 DEF Numbered, Types
  <2>2. presses' + 1 = presses + 2
    BY <1>2 DEF Types
  <2>. QED BY <1>3, <2>1, <2>2 DEF Numbered
<1>. QED BY <1>1, <1>4, <1>7, <1>8 DEF OneThing

\* A child starts, and ends.
LEMMA ChildThing ==
  ASSUME Types, OneThing, NEW c \in Children, Boot(c) \/ Dies(c) \/ Quit(c)
  PROVE  OneThing'
<1>. USE Domains DEF TasksIdle, OnlyTask, CopiesIdle, InboxEmpty, AllBooted, Supervised, NextWhole
<1>1. CASE Boot(c)
  <2>1. Booting(c)
    BY <1>1, Phase DEF Boot
  <2>2. UNCHANGED <<launcher, inbox, task, next, copy, cut>> /\ child' = [child EXCEPT ![c] = "live"]
    BY <1>1 DEF Boot, files
  <2>3. child'[c] = "live" /\ \A d \in Children \ {c} : child'[d] \notin {"boot", "live"}
    BY <2>1, <2>2 DEF Booting, Types
  <2>4. Idle'
    BY <2>1, <2>2, <2>3 DEF Booting, Idle
  <2>. QED BY <2>4 DEF OneThing
<1>2. CASE Dies(c)
  <2>1. copy[c] = "idle"
    BY <1>2, Phase DEF Dies, Copying
  <2>2. copy' = copy /\ cut' = cut /\ UNCHANGED <<launcher, presses, inbox, task, swap, next>>
    BY <1>2, <2>1 DEF Dies, Types
  <2>3. /\ \A d \in Children : child'[d] = "live" <=> child[d] = "live"
        /\ \A d \in Children : child'[d] = "boot" <=> child[d] = "boot"
        /\ \A d \in Children : child'[d] # "none" <=> child[d] # "none"
    BY <1>2 DEF Dies, Types
  <2>4. Idle => Idle'
    BY <2>2, <2>3 DEF Idle
  <2>5. CliBusy => CliBusy'
    BY <2>2, <2>3 DEF CliBusy
  <2>6. \A u \in Updaters : Copying(u) => Copying(u)'
    BY <2>2, <2>3 DEF Copying, Updaters
  <2>7. \A t \in Tasks \ {Cli} : Restarting(t) => Restarting(t)'
    BY <2>2, <2>3 DEF Restarting
  <2>8. \A d \in Children : Asked(d) => Asked(d)'
    BY <2>2, <2>3 DEF Asked
  <2>9. \A d \in Children : Booting(d) => Booting(d)'
    BY <2>2, <2>3 DEF Booting
  <2>. QED BY <2>4, <2>5, <2>6, <2>7, <2>8, <2>9 DEF OneThing
<1>3. CASE Quit(c)
  <2>1. launcher = "up" /\ launcher' = "exited" /\ child[c] = "live" /\ inbox[c] = 0
    BY <1>3 DEF Quit
  <2>2. UNCHANGED <<inbox, task, next>> /\ cut' = (cut \/ copy[c] # "idle")
    BY <1>3 DEF Quit
  <2>3. child' = [child EXCEPT ![c] = "dead"] /\ copy' = [copy EXCEPT ![c] = "idle"]
    BY <1>3 DEF Quit
  <2>4. copy'[c] = "idle" /\ \A w \in Updaters \ {c} : copy'[w] = copy[w]
    BY <2>3 DEF Types
  <2>5. ASSUME Supervised
        PROVE  (\A d \in Children : child'[d] # "live") /\ Supervised'
    <3>1. \A d \in Children : child'[d] # "live"
      BY <2>1, <2>3, <2>5 DEF Types
    <3>. QED BY <2>1, <3>1
  <2>6. AllBooted => AllBooted'
    BY <2>3 DEF Types
  <2>7. CASE Idle
    <3>1. Idle'
      BY <2>1, <2>2, <2>4, <2>5, <2>6, <2>7 DEF Idle
    <3>. QED BY <3>1 DEF OneThing
  <2>8. CASE CliBusy
    <3>1. CliBusy'
      BY <2>1, <2>2, <2>4, <2>5, <2>6, <2>8 DEF CliBusy
    <3>. QED BY <3>1 DEF OneThing
  <2>9. ASSUME NEW u \in Updaters, Copying(u) PROVE OneThing'
    <3>1. CASE u = c
      <4>1. Idle'
        BY <2>1, <2>2, <2>4, <2>5, <2>6, <2>9, <3>1 DEF Idle, Copying
      <4>. QED BY <4>1 DEF OneThing
    <3>2. CASE u # c
      <4>1. u = Cli
        BY <2>1, <2>9, <3>2 DEF Copying, Updaters
      <4>2. Copying(u)'
        BY <2>1, <2>2, <2>4, <2>5, <2>6, <2>9, <4>1 DEF Copying
      <4>. QED BY <4>2 DEF OneThing
    <3>. QED BY <3>1, <3>2
  <2>10. \A t \in Tasks \ {Cli} : ~Restarting(t)
    BY <2>1 DEF Restarting
  <2>11. \A d \in Children : ~Asked(d) /\ ~Booting(d)
    <3>1. ASSUME NEW d \in Children, Asked(d) PROVE FALSE
      <4>1. c = d
        BY <2>1, <3>1 DEF Asked
      <4>. QED BY <2>1, <3>1, <4>1 DEF Asked
    <3>2. ASSUME NEW d \in Children, Booting(d) PROVE FALSE
      <4>1. c = d
        BY <2>1, <3>2 DEF Booting
      <4>. QED BY <2>1, <3>2, <4>1 DEF Booting
    <3>. QED BY <3>1, <3>2
  <2>. QED BY <2>7, <2>8, <2>9, <2>10, <2>11 DEF OneThing
<1>. QED BY <1>1, <1>2, <1>3

-----------------------------------------------------------------------------
(* Where the tunnels are                                                   *)

\* A step that leaves the daemon, the tasks that deal with it and the children
\* that start alone.
LEMMA SameTunnels ==
  ASSUME Tunnels, UNCHANGED <<daemon, open, dump, had>>, cut => cut', killed' = killed,
         \A t \in Tasks : task'[t] \in {"dump", "stop"} => task[t] = task'[t],
         \A t \in Tasks : task[t] \in {"stop", "stopped"} => task'[t] = task[t],
         \A c \in Children : child[c] = "boot" => child'[c] = "boot"
  PROVE  Tunnels'
BY DEF Tunnels

\* The actions that are such steps.
LEMMA AwayFromDaemon ==
  ASSUME Types, Tunnels,
         \/ Release \/ CliSwaps \/ CliRestarts
         \/ \E u \in Updaters : CopyBegins(u) \/ (CopyEnds(u) /\ Copying(u)) \/ CopyFails(u)
         \/ \E c \in Children : PressRestart(c) \/ Dies(c) \/ Quit(c)
  PROVE  Tunnels'
<1>. USE Domains
<1>1. UNCHANGED <<daemon, open, dump, had>> /\ killed' = killed
  BY DEF Release, CliSwaps, CliRestarts, CopyBegins, CopyEnds, CopyFails, PressRestart, Dies,
         Quit, world
<1>5. cut => cut'
  <2>1. ASSUME \E c \in Children : Dies(c) \/ Quit(c) PROVE cut => cut'
    BY <2>1 DEF Dies, Quit, Types
  <2>2. ASSUME ~ \E c \in Children : Dies(c) \/ Quit(c) PROVE cut => cut'
    BY <2>2 DEF Release, CliSwaps, CliRestarts, CopyBegins, CopyEnds, CopyFails, PressRestart
  <2>. QED BY <2>1, <2>2
<1>2. \A c \in Children : child[c] = "boot" => child'[c] = "boot"
  BY DEF Release, CliSwaps, CliRestarts, CopyBegins, CopyEnds, CopyFails, PressRestart, Dies,
         Quit, Types
<1>3. \/ task' = task
      \/ /\ task[Cli] \in {"none", "swap"}
         /\ \E s \in {"none", "ask", "swap"} : task' = [task EXCEPT ![Cli] = s]
  BY DEF Release, CliSwaps, CliRestarts, CopyBegins, CopyEnds, CopyFails, PressRestart, Dies,
         Quit, Copying, TasksIdle
<1>4. /\ \A t \in Tasks : task'[t] \in {"dump", "stop"} => task[t] = task'[t]
      /\ \A t \in Tasks : task[t] \in {"stop", "stopped"} => task'[t] = task[t]
  BY <1>3 DEF Types
<1>. QED BY <1>1, <1>2, <1>4, <1>5, SameTunnels

\* A restart begins: no task was at work, and no child started.
LEMMA HandleTunnels ==
  ASSUME Types, OneThing, Tunnels, NEW c \in Children, HandleRestart(c)
  PROVE  Tunnels'
<1>. USE Domains
<1>1. Asked(c)
  BY Phase DEF HandleRestart
<1>2. UNCHANGED <<daemon, open, dump, had, cut, killed>>
  BY DEF HandleRestart, world
<1>3. \A t \in Tasks : task'[t] \notin {"dump", "stop"}
  BY <1>1 DEF HandleRestart, Asked, TasksIdle, Types
<1>4. \A d \in Children : child[d] # "boot"
  BY <1>1 DEF Asked, AllBooted
<1>. QED BY <1>1, <1>2, <1>3, <1>4, SameTunnels DEF Asked, TasksIdle

\* isRunning, dump and stop, of the one task there is.
LEMMA DaemonTunnels ==
  ASSUME Types, OneThing, Tunnels, NEW t \in Tasks,
         IsRunning(t) \/ DumpTunnels(t) \/ StopDaemon(t)
  PROVE  Tunnels'
<1>. USE Domains
<1>1. OnlyTask(t) /\ task[t] \in {"ask", "dump", "stop"}
  BY Phase DEF IsRunning, DumpTunnels, StopDaemon, CliBusy, Restarting
<1>2. task[t] # "ask" => daemon
  BY <1>1 DEF Tunnels
<1>3. \A s \in Tasks \ {t} : task[s] = "none"
  BY <1>1 DEF OnlyTask
<1>4. CASE IsRunning(t)
  <2>1. UNCHANGED <<child, daemon, open, dump, had, cut, killed>>
    BY <1>4 DEF IsRunning, world
  <2>2. task' = [task EXCEPT ![t] = IF daemon THEN "dump" ELSE "stopped"] /\ task[t] = "ask"
    BY <1>4 DEF IsRunning
  <2>3. /\ task'[t] = IF daemon THEN "dump" ELSE "stopped"
        /\ \A s \in Tasks \ {t} : task'[s] = "none"
    BY <1>3, <2>2 DEF Types
  <2>. QED BY <1>3, <2>1, <2>2, <2>3 DEF Tunnels
<1>5. CASE DumpTunnels(t)
  <2>1. /\ UNCHANGED <<child, daemon, open, cut, killed>> /\ daemon
        /\ dump' = (dump \/ open) /\ had' = (had \/ open)
        /\ task' = [task EXCEPT ![t] = "stop"] /\ task[t] = "dump"
    BY <1>1, <1>2, <1>5 DEF DumpTunnels
  <2>2. task'[t] = "stop" /\ \A s \in Tasks \ {t} : task'[s] = "none"
    BY <1>3, <2>1 DEF Types
  <2>. QED BY <2>1, <2>2 DEF Tunnels, Types
<1>6. CASE StopDaemon(t)
  <2>1. /\ UNCHANGED <<child, dump, had, cut, killed>> /\ ~daemon' /\ ~open'
        /\ task' = [task EXCEPT ![t] = "stopped"] /\ task[t] = "stop"
    BY <1>1, <1>2, <1>6 DEF StopDaemon
  <2>2. task'[t] = "stopped" /\ \A s \in Tasks \ {t} : task'[s] = "none"
    BY <1>3, <2>1 DEF Types
  <2>. QED BY <2>1, <2>2 DEF Tunnels, Types
<1>. QED BY <1>4, <1>5, <1>6

\* The daemon starts again: by the other terminal, ...
LEMMA CliStartTunnels ==
  ASSUME Types, OneThing, Tunnels, CliStarts
  PROVE  Tunnels'
<1>. USE Domains
<1>1. CliBusy /\ task[Cli] = "stopped"
  BY Phase DEF CliStarts
<1>2. \A s \in Tasks : task[s] # "stop"
  BY <1>1 DEF CliBusy, OnlyTask
<1>3. task' = [task EXCEPT ![Cli] = "none"] /\ UNCHANGED <<child, had, cut, killed>>
  BY DEF CliStarts
<1>4. \A s \in Tasks : task'[s] = "none"
  BY <1>1, <1>3 DEF CliBusy, OnlyTask, Types
<1>5. (dump' => killed) /\ (open' => daemon') /\ (had => open')
  <2>1. CASE daemon
    BY <1>2, <2>1 DEF CliStarts, Tunnels, world
  <2>2. CASE ~daemon
    BY <2>2 DEF CliStarts, DaemonStarts, Tunnels
  <2>. QED BY <2>1, <2>2
<1>. QED BY <1>3, <1>4, <1>5 DEF Tunnels

\* ... or by the child that the launcher starts.
LEMMA BootTunnels ==
  ASSUME Types, OneThing, Tunnels, NEW c \in Children, Boot(c)
  PROVE  Tunnels'
<1>. USE Domains
<1>1. TasksIdle /\ UNCHANGED <<task, had, cut, killed>>
  BY Phase DEF Boot, Booting
<1>2. (dump' => killed) /\ (open' => daemon') /\ (had => open')
  <2>1. CASE dump /\ ~daemon
    BY <2>1 DEF Boot, DaemonStarts, Tunnels
  <2>2. CASE ~(dump /\ ~daemon)
    BY <1>1, <2>2 DEF Boot, Tunnels, world, TasksIdle
  <2>. QED BY <2>1, <2>2
<1>. QED BY <1>1, <1>2 DEF Tunnels, TasksIdle

\* The dump waits for the child that is spawned.
LEMMA SpawnTunnels ==
  ASSUME Types, OneThing, Tunnels, NEW t \in Tasks, Spawn(t),
         task' = [task EXCEPT ![t] = "none"],
         cut \/ \E c \in Children : child'[c] = "boot"
  PROVE  Tunnels'
<1>. USE Domains
<1>1. OnlyTask(t) /\ task[t] = "stopped"
  BY Phase DEF Spawn, Restarting
<1>2. \A s \in Tasks : task[s] # "stop" /\ task'[s] = "none"
  BY <1>1 DEF OnlyTask, Types
<1>3. UNCHANGED <<daemon, open, dump, had, cut, killed>>
  BY DEF Spawn, world
<1>. QED BY <1>2, <1>3 DEF Tunnels

\* A restart that is interrupted leaves the tunnels where they are.
LEMMA KilledTunnels ==
  ASSUME Types, Tunnels, CliKilled
  PROVE  Tunnels'
<1>. USE Domains
<1>1. /\ UNCHANGED <<child, daemon, open, dump, had>> /\ (cut => cut')
      /\ killed' = (killed \/ Busy(Cli)) /\ task' = [task EXCEPT ![Cli] = "none"]
  BY DEF CliKilled, world
<1>2. task'[Cli] = "none" /\ \A t \in Tasks \ {Cli} : task'[t] = task[t]
  BY <1>1 DEF Types
<1>3. task[Cli] # "none" => killed'
  BY <1>1 DEF Busy
<1>. QED BY <1>1, <1>2, <1>3 DEF Tunnels

-----------------------------------------------------------------------------
(* The theorems                                                            *)

\* The overlap of two restarts is not forgotten.
LEMMA MixedStays ==
  ASSUME Types, [Next]_vars, mixed PROVE mixed'
<1>. USE DEF Types
<1>1. ASSUME Release \/ CliSwaps \/ CliRestarts \/ CliStarts \/ CliKilled \/ Starts
             \/ UNCHANGED vars
      PROVE  mixed'
  BY <1>1 DEF Release, CliSwaps, CliRestarts, CliStarts, CliKilled, Starts, vars
<1>2. ASSUME NEW u \in Updaters, CopyBegins(u) \/ CopyEnds(u) \/ CopyFails(u) PROVE mixed'
  BY <1>2 DEF CopyBegins, CopyEnds, CopyFails
<1>3. ASSUME NEW t \in Tasks, IsRunning(t) \/ DumpTunnels(t) \/ StopDaemon(t) \/ Spawn(t)
      PROVE  mixed'
  BY <1>3 DEF IsRunning, DumpTunnels, StopDaemon, Spawn
<1>4. ASSUME NEW c \in Children,
             PressRestart(c) \/ HandleRestart(c) \/ Boot(c) \/ Dies(c) \/ Quit(c)
      PROVE  mixed'
  BY <1>4 DEF PressRestart, HandleRestart, Boot, Dies, Quit
<1>. HIDE DEF Types
<1>. QED BY <1>1, <1>2, <1>3, <1>4 DEF Next

\* A step that spawns no child and sends no message keeps the numbering.
LEMMA SameNumbers ==
  ASSUME Numbered, presses' = presses,
         \A c \in Children : child'[c] # "none" => child[c] # "none"
  PROVE  Numbered'
BY DEF Numbered

\* What holds while nothing overlaps is kept by every step.
LEMMA ThingsStep ==
  ASSUME Types, [Next]_vars, OneThing, Numbered, Tunnels, BinWhole, ~mixed'
  PROVE  OneThing' /\ Numbered' /\ Tunnels' /\ BinWhole'
<1>. DEFINE Goal == OneThing' /\ Numbered' /\ Tunnels' /\ BinWhole'
<1>. USE Domains
<1>. HIDE DEF OneThing, Numbered, Tunnels, Types
<1>1. ASSUME Release PROVE Goal
  <2>1. UNCHANGED <<launcher, child, presses, inbox, task, swap, next, copy, bin, cut>>
    BY <1>1 DEF Release
  <2>. QED BY <1>1, <2>1, SameThing, SameNumbers, AwayFromDaemon DEF BinWhole, Whole
<1>2. ASSUME CliSwaps PROVE Goal
  <2>1. next \in Versions
    BY <1>2, Phase DEF CliSwaps, CliBusy
  <2>2. bin' \in Versions
    BY <1>2, <2>1, WholeIsThere DEF CliSwaps, Rename
  <2>3. UNCHANGED <<child, presses>>
    BY <1>2 DEF CliSwaps
  <2>. QED BY <1>2, <2>2, <2>3, CliThing, SameNumbers, AwayFromDaemon DEF BinWhole, Whole
<1>3. ASSUME CliRestarts PROVE Goal
  <2>1. UNCHANGED <<child, presses, bin, cut>>
    BY <1>3 DEF CliRestarts, files
  <2>. QED BY <1>3, <2>1, CliThing, SameNumbers, AwayFromDaemon DEF BinWhole, Whole
<1>4. ASSUME CliStarts PROVE Goal
  <2>1. UNCHANGED <<child, presses, bin, cut>>
    BY <1>4 DEF CliStarts, files
  <2>. QED BY <1>4, <2>1, CliThing, SameNumbers, CliStartTunnels DEF BinWhole, Whole
<1>5. ASSUME NEW u \in Updaters, CopyBegins(u) PROVE Goal
  <2>1. UNCHANGED <<child, presses, bin, cut>>
    BY <1>5 DEF CopyBegins
  <2>. QED BY <1>5, <2>1, CopyThing, SameNumbers, AwayFromDaemon DEF BinWhole, Whole
<1>6. ASSUME NEW u \in Updaters, CopyEnds(u) PROVE Goal
  <2>1. Copying(u)
    BY <1>6, Phase DEF CopyEnds
  <2>2. UNCHANGED <<child, presses, bin, cut>>
    BY <1>6, <2>1 DEF CopyEnds, Copying
  <2>. QED BY <1>6, <2>1, <2>2, CopyThing, SameNumbers, AwayFromDaemon DEF BinWhole, Whole
<1>7. ASSUME NEW u \in Updaters, CopyFails(u) PROVE Goal
  <2>1. UNCHANGED <<child, presses, bin, cut>>
    BY <1>7 DEF CopyFails
  <2>. QED BY <1>7, <2>1, CopyThing, SameNumbers, AwayFromDaemon DEF BinWhole, Whole
<1>8. ASSUME NEW t \in Tasks, IsRunning(t) \/ DumpTunnels(t) \/ StopDaemon(t) PROVE Goal
  <2>1. UNCHANGED <<child, presses, bin, cut>>
    BY <1>8 DEF IsRunning, DumpTunnels, StopDaemon, files
  <2>. QED BY <1>8, <2>1, DaemonThing, SameNumbers, DaemonTunnels DEF BinWhole, Whole
<1>9. ASSUME NEW t \in Tasks, Spawn(t) PROVE Goal
  BY <1>9, SpawnThing, SpawnTunnels
<1>10. ASSUME NEW c \in Children, PressRestart(c) PROVE Goal
  <2>1. UNCHANGED <<bin, cut>>
    BY <1>10 DEF PressRestart, files
  <2>. QED BY <1>10, <2>1, MessageThing, AwayFromDaemon DEF BinWhole, Whole
<1>11. ASSUME NEW c \in Children, HandleRestart(c) PROVE Goal
  <2>1. UNCHANGED <<bin, cut>>
    BY <1>11 DEF HandleRestart, files
  <2>. QED BY <1>11, <2>1, MessageThing, HandleTunnels DEF BinWhole, Whole
<1>12. ASSUME NEW c \in Children, Boot(c) \/ Dies(c) \/ Quit(c) PROVE Goal
  <2>1. UNCHANGED <<presses, bin>>
    BY <1>12 DEF Boot, Dies, Quit, files
  <2>4. cut => cut'
    BY <1>12 DEF Boot, Dies, Quit, Types
  <2>2. \A d \in Children : child'[d] # "none" => child[d] # "none"
    BY <1>12 DEF Boot, Dies, Quit, Types
  <2>3. Tunnels'
    BY <1>12, BootTunnels, AwayFromDaemon
  <2>. QED BY <1>12, <2>1, <2>2, <2>3, <2>4, ChildThing, SameNumbers DEF BinWhole, Whole
<1>13. ASSUME UNCHANGED vars PROVE Goal
  <2>1. /\ UNCHANGED <<launcher, child, presses, inbox, task, swap, next, copy, bin, cut>>
        /\ UNCHANGED <<daemon, open, dump, had, killed>>
    BY <1>13 DEF vars, files, world
  <2>. QED BY <2>1, SameThing, SameNumbers, SameTunnels DEF BinWhole, Whole
<1>14. ASSUME CliKilled PROVE Goal
  <2>1. UNCHANGED <<child, presses, bin>> /\ (cut => cut')
    BY <1>14 DEF CliKilled
  <2>. QED BY <1>14, <2>1, CliThing, SameNumbers, KilledTunnels DEF BinWhole, Whole
<1>15. ASSUME Starts PROVE Goal
  <2>1. UNCHANGED <<bin, cut, killed, daemon, open, dump, had>>
    BY <1>15 DEF Starts, world
  <2>2. Tunnels'
    BY <1>15, <2>1, StartThing, SameTunnels
  <2>. QED BY <1>15, <2>1, <2>2, StartThing DEF BinWhole, Whole
<1>. HIDE DEF Goal
<1>16. Goal
  BY <1>1, <1>2, <1>3, <1>4, <1>5, <1>6, <1>7, <1>8, <1>9, <1>10, <1>11, <1>12, <1>13,
     <1>14, <1>15, StepCases
<1>. QED BY <1>16 DEF Goal

\* The invariant, at the start and after every step.
LEMMA InitIInv == Init => IInv
<1>. SUFFICES ASSUME Init PROVE IInv
  OBVIOUS
<1>. USE Domains, LauncherAssumption
<1>1. Types
  <2>1. child \in [Children -> {"none", "boot", "live", "told", "dead"}]
    BY DEF Init
  <2>2. presses \in 0..MaxRestarts /\ latest \in Versions
    BY DEF Init
  <2>3. bin \in Versions \cup {Part, NoFile} /\ next \in Versions \cup {Part, NoFile}
    BY DEF Init
  <2>4. launcher = "up" /\ daemon \in BOOLEAN /\ open \in BOOLEAN /\ dump \in BOOLEAN
    BY DEF Init
  <2>. QED BY <2>1, <2>2, <2>3, <2>4 DEF Init, Types
<1>2. 1 \in Children
  BY DEF Children, MaxChild
<1>3. TasksIdle /\ CopiesIdle /\ InboxEmpty /\ AllBooted
  BY DEF Init, TasksIdle, CopiesIdle, InboxEmpty, AllBooted
<1>4. Supervised /\ NextWhole
  BY <1>2 DEF Init, Supervised, NextWhole, NoFile, Part
<1>5. Numbered /\ Tunnels /\ BinWhole
  BY DEF Init, Numbered, Tunnels, BinWhole, Whole
<1>. QED BY <1>1, <1>3, <1>4, <1>5 DEF IInv, OneThing, Idle

\* No step breaks the invariant.
LEMMA StepIInv == IInv /\ [Next]_vars => IInv'
BY TypesStep, ThingsStep, MixedStays DEF IInv

\* While restarts and updates do not overlap, one thing is under way at a time.
THEOREM LauncherInvariant == Spec => []IInv
<1>. QED BY InitIInv, StepIInv, PTL DEF Spec

\* While restarts and updates do not overlap, there is at most one child, and
\* one whenever the launcher is up and nothing is left for it to do: the close
\* handler that proxyChildProcess takes away is always put back.
THEOREM LauncherOneChild == Spec => []OneChild
<1>1. ASSUME IInv PROVE OneChild
  <2>. SUFFICES ASSUME ~mixed
       PROVE  Cardinality(LiveChildren) <= 1 /\ (Settled => LiveChildren # {})
    BY DEF OneChild
  <2>1. OneThing
    BY <1>1 DEF IInv
  <2>2. \A c, d \in LiveChildren : c = d
    <3>. USE DEF LiveChildren, OnlyTask, AllBooted, Supervised
    <3>1. CASE Idle \/ CliBusy
      BY <3>1 DEF Idle, CliBusy
    <3>2. CASE \E u \in Updaters : Copying(u)
      BY <3>2 DEF Copying
    <3>3. CASE \E t \in Tasks \ {Cli} : Restarting(t)
      BY <3>3 DEF Restarting
    <3>4. CASE \E c \in Children : Asked(c)
      BY <3>4 DEF Asked
    <3>5. CASE \E c \in Children : Booting(c)
      BY <3>5 DEF Booting
    <3>. QED BY <2>1, <3>1, <3>2, <3>3, <3>4, <3>5 DEF OneThing
  <2>3. Cardinality(LiveChildren) <= 1
    <3>1. CASE LiveChildren = {}
      BY <3>1, FS_EmptySet
    <3>2. CASE LiveChildren # {}
      <4>1. PICK c \in LiveChildren : LiveChildren = {c}
        BY <2>2, <3>2
      <4>. QED BY <4>1, FS_Singleton
    <3>. QED BY <3>1, <3>2
  <2>4. ASSUME Settled PROVE LiveChildren # {}
    <3>. USE DEF Settled
    <3>1. Supervised
      BY <2>1, <2>4, Domains DEF OneThing, Idle, CliBusy, Copying, Restarting, Asked, Booting,
                                 Calm, Busy, Steps
    <3>. QED BY <2>4, <3>1 DEF Supervised, LiveChildren
  <2>. QED BY <2>3, <2>4
<1>. QED BY <1>1, LauncherInvariant, PTL

\* Tunnels that a restart found running are running again once it is over, or
\* in dump.json where something was interrupted.
THEOREM LauncherTunnelsSurvive == Spec => []TunnelsSurvive
<1>1. ASSUME IInv PROVE TunnelsSurvive
  BY <1>1 DEF IInv, Tunnels, TunnelsSurvive, Settled, Calm, Busy
<1>. QED BY <1>1, LauncherInvariant, PTL

\* The installed binary is whole at every step of a download, an update and a
\* restart that nothing else overlaps, unless a copy was interrupted.
THEOREM LauncherBinaryWhole == Spec => []BinaryWhole
<1>1. ASSUME IInv PROVE BinaryWhole
  BY <1>1 DEF IInv, BinWhole, BinaryWhole
<1>. QED BY <1>1, LauncherInvariant, PTL

-----------------------------------------------------------------------------
(* Walking a line                                                          *)

\* What holds of 0 and, with a number below N, of the next one, holds up to N.
LEMMA UpTo ==
  ASSUME NEW N \in Nat, NEW G, 0 \in G, \A n \in 0 .. N : n < N /\ n \in G => n + 1 \in G
  PROVE  0 .. N \subseteq G
<1>. DEFINE Bad == {n \in 0 .. N : n \notin G}
<1>1. SUFFICES ASSUME Bad # {} PROVE FALSE
  OBVIOUS
<1>2. Min(Bad) \in Bad /\ \A n \in Bad : Min(Bad) <= n
  BY <1>1, MinIsLeast
<1>3. PICK m \in Bad : \A n \in Bad : m <= n
  BY <1>2
<1>4. m # 0 /\ m - 1 \in 0 .. N /\ m - 1 < N
  BY <1>3
<1>5. m - 1 \in G
  BY <1>3, <1>4
<1>. QED BY <1>3, <1>4, <1>5

\* g carries b along the functions h[1], h[2], ...
Carries(N, S, b, h, g) ==
  g \in [0 .. N -> S] /\ g[0] = b /\ \A n \in 1 .. N : g[n] = h[n][g[n - 1]]

\* Functions from a set to itself can be followed one after the other.
LEMMA Carried ==
  ASSUME NEW N \in Nat, NEW S, NEW b \in S, NEW h \in [1 .. N -> [S -> S]]
  PROVE  \E g : Carries(N, S, b, h, g)
<1>. DEFINE Goes(n, g) == g[0] = b /\ \A m \in 1 .. n : g[m] = h[m][g[m - 1]]
            G == {n \in 0 .. N : \E g \in [0 .. n -> S] : Goes(n, g)}
<1>1. 0 \in G
  <2>1. [m \in 0 .. 0 |-> b] \in [0 .. 0 -> S] /\ Goes(0, [m \in 0 .. 0 |-> b])
    OBVIOUS
  <2>2. \E g \in [0 .. 0 -> S] : Goes(0, g)
    <3>. HIDE DEF Goes
    <3>. QED BY <2>1
  <2>. QED BY <2>2
<1>2. ASSUME NEW n \in 0 .. N, n < N, n \in G PROVE n + 1 \in G
  <2>1. PICK g \in [0 .. n -> S] : Goes(n, g)
    BY <1>2
  <2>. DEFINE f == [m \in 0 .. n + 1 |-> IF m <= n THEN g[m] ELSE h[n + 1][g[n]]]
  <2>2. f \in [0 .. n + 1 -> S]
    BY <1>2
  <2>3. Goes(n + 1, f)
    BY <2>1, <1>2
  <2>4. \E e \in [0 .. n + 1 -> S] : Goes(n + 1, e)
    <3>. HIDE DEF Goes, f
    <3>. QED BY <2>2, <2>3
  <2>. HIDE DEF Goes
  <2>. QED BY <2>4, <1>2
<1>. HIDE DEF G
<1>3. 0 .. N \subseteq G
  BY <1>1, <1>2, UpTo
<1>4. PICK g \in [0 .. N -> S] : Goes(N, g)
  BY <1>3 DEF G
<1>5. Carries(N, S, b, h, g)
  BY <1>4 DEF Carries
<1>. QED BY <1>5

-----------------------------------------------------------------------------
(* Reading the line                                                        *)

Opts == UNION {[K -> Seq(Token)] : K \in SUBSET Text}

\* What a scan may know.
Known(map) == [pos : Seq(Token), opts : Opts, want : 0 .. Len(map), err : BOOLEAN]

\* A lookup finds the first option a token names, if there is one.
LEMMA LookupFinds ==
  ASSUME NEW map \in Seq(OptionDef), NEW t
  PROVE  /\ Lookup(map, t) \in 0 .. Len(map)
         /\ Lookup(map, t) # 0 => /\ Names(t, map[Lookup(map, t)])
                                  /\ \A i \in 1 .. Len(map) : i < Lookup(map, t) => ~Names(t, map[i])
         /\ Lookup(map, t) = 0 => \A i \in 1 .. Len(map) : ~Names(t, map[i])
<1>. DEFINE I == {i \in 1 .. Len(map) : Names(t, map[i])}
<1>1. Lookup(map, t) = IF I # {} THEN Min(I) ELSE 0
  BY DEF Lookup, SelectInSeq
<1>2. I # {} => Min(I) \in I /\ \A i \in I : Min(I) <= i
  <2>. I \in SUBSET Nat
    OBVIOUS
  <2>. HIDE DEF I
  <2>. QED BY MinIsLeast
<1>3. \A i \in 1 .. Len(map) : i \in I <=> Names(t, map[i])
  OBVIOUS
<1>4. I \subseteq 1 .. Len(map) /\ Len(map) \in Nat
  OBVIOUS
<1>. HIDE DEF I
<1>5. CASE I = {}
  BY <1>1, <1>3, <1>5
<1>6. CASE I # {}
  <2>1. Lookup(map, t) \in I /\ \A i \in I : Lookup(map, t) <= i
    BY <1>1, <1>2, <1>6
  <2>2. Lookup(map, t) \in 1 .. Len(map) /\ Names(t, map[Lookup(map, t)])
    BY <2>1, <1>3, <1>4
  <2>3. ASSUME NEW i \in 1 .. Len(map), i < Lookup(map, t) PROVE i \notin I
    BY <2>1, <2>2, <2>3
  <2>. QED BY <2>2, <2>3, <1>3
<1>. QED BY <1>5, <1>6

\* Storing a value keeps the options a table of values.
LEMMA StoreType ==
  ASSUME NEW o \in Opts, NEW def \in OptionDef, NEW value \in Seq(Token)
  PROVE  /\ Store(o, def, value) \in Opts
         /\ DOMAIN Store(o, def, value) = DOMAIN o \cup {def.key}
<1>1. PICK K \in SUBSET Text : o \in [K -> Seq(Token)]
  BY DEF Opts
<1>2. def.key \in Text
  BY DEF OptionDef
<1>. DEFINE old == IF def.many /\ def.key \in DOMAIN o THEN o[def.key] ELSE <<>>
<1>3. old \in Seq(Token)
  <2>1. CASE def.many /\ def.key \in DOMAIN o
    BY <2>1, <1>1
  <2>2. CASE ~(def.many /\ def.key \in DOMAIN o)
    BY <2>2
  <2>. QED BY <2>1, <2>2
<1>4. old \o value \in Seq(Token)
  BY <1>3
<1>5. Store(o, def, value) = [k \in K \cup {def.key} |-> IF k = def.key THEN old \o value ELSE o[k]]
  BY <1>1 DEF Store
<1>6. Store(o, def, value) \in [K \cup {def.key} -> Seq(Token)]
  BY <1>1, <1>4, <1>5
<1>. QED BY <1>1, <1>2, <1>6 DEF Opts

\* A token keeps what is known well-formed.
LEMMA TakeType ==
  ASSUME NEW map \in Seq(OptionDef), NEW acc \in Known(map), NEW t \in Token
  PROVE  Take(map, acc, t) \in Known(map)
<1>. DEFINE i == Lookup(map, t)
<1>1. i \in 0 .. Len(map)
  BY LookupFinds
<1>2. acc.want # 0 => map[acc.want] \in OptionDef
  BY DEF Known
<1>3. i # 0 => map[i] \in OptionDef
  BY <1>1
<1>4. acc.opts \in Opts /\ acc.pos \in Seq(Token) /\ acc.want \in 0 .. Len(map) /\ acc.err \in BOOLEAN
  BY DEF Known
<1>5. acc = [pos |-> acc.pos, opts |-> acc.opts, want |-> acc.want, err |-> acc.err]
  BY DEF Known
<1>6. <<t>> \in Seq(Token) /\ <<>> \in Seq(Token) /\ Append(acc.pos, t) \in Seq(Token)
  BY <1>4
<1>. HIDE DEF i
<1>7. CASE acc.err
  BY <1>7 DEF Take
<1>8. CASE ~acc.err /\ acc.want # 0
  <2>1. Store(acc.opts, map[acc.want], <<t>>) \in Opts
    BY <1>2, <1>4, <1>6, <1>8, StoreType
  <2>2. CASE Accepts(map[acc.want].parse, t)
    <3>1. Take(map, acc, t) = [acc EXCEPT !.opts = Store(@, map[acc.want], <<t>>), !.want = 0]
      BY <1>8, <2>2 DEF Take
    <3>2. Take(map, acc, t) = [pos |-> acc.pos, opts |-> Store(acc.opts, map[acc.want], <<t>>),
                               want |-> 0, err |-> acc.err]
      BY <3>1, <1>5
    <3>3. 0 \in 0 .. Len(map)
      BY <1>1
    <3>. QED BY <3>2, <3>3, <2>1, <1>4 DEF Known
  <2>3. CASE ~Accepts(map[acc.want].parse, t)
    <3>1. Take(map, acc, t) = [acc EXCEPT !.err = TRUE]
      BY <1>8, <2>3 DEF Take
    <3>. QED BY <3>1, <1>4, <1>5 DEF Known
  <2>. QED BY <2>2, <2>3
<1>9. CASE ~acc.err /\ acc.want = 0 /\ i = 0
  <2>1. Take(map, acc, t) = [acc EXCEPT !.pos = Append(@, t)]
    BY <1>9 DEF Take, i
  <2>. QED BY <2>1, <1>4, <1>5, <1>6 DEF Known
<1>10. CASE ~acc.err /\ acc.want = 0 /\ i # 0
  <2>1. Store(acc.opts, map[i], <<>>) \in Opts
    BY <1>3, <1>4, <1>6, <1>10, StoreType
  <2>2. CASE map[i].valued
    <3>1. Take(map, acc, t) = [acc EXCEPT !.want = i]
      BY <1>10, <2>2 DEF Take, i
    <3>. QED BY <3>1, <1>1, <1>4, <1>5 DEF Known
  <2>3. CASE ~map[i].valued
    <3>1. Take(map, acc, t) = [acc EXCEPT !.opts = Store(@, map[i], <<>>)]
      BY <1>10, <2>3 DEF Take, i
    <3>. QED BY <3>1, <2>1, <1>4, <1>5 DEF Known
  <2>. QED BY <2>2, <2>3
<1>. QED BY <1>4, <1>7, <1>8, <1>9, <1>10

\* A scan begins with nothing and takes one token after the other.
LEMMA ScanSteps ==
  ASSUME NEW line \in Seq(Token), NEW map \in Seq(OptionDef)
  PROVE  /\ Scan(line, map) \in [0 .. Len(line) -> Known(map)]
         /\ Scan(line, map)[0] = NothingTaken
         /\ \A n \in 1 .. Len(line) : Scan(line, map)[n] = Take(map, Scan(line, map)[n - 1], line[n])
<1>. DEFINE N == Len(line)
            S == Known(map)
            Step(s) == [n \in 0 .. N |-> IF n = 0 THEN NothingTaken ELSE Take(map, s[n - 1], line[n])]
            h == [n \in 1 .. N |-> [a \in S |-> Take(map, a, line[n])]]
<1>1. N \in Nat /\ NothingTaken \in S
  <2>1. <<>> \in [{} -> Seq(Token)]
    OBVIOUS
  <2>2. <<>> \in Opts
    BY <2>1 DEF Opts
  <2>. QED BY <2>2 DEF NothingTaken, Known
<1>2. h \in [1 .. N -> [S -> S]]
  <2>1. ASSUME NEW n \in 1 .. N, NEW a \in S PROVE Take(map, a, line[n]) \in S
    BY TakeType
  <2>. QED BY <2>1
<1>. HIDE DEF S
<1>3. PICK g \in [0 .. N -> S] : g[0] = NothingTaken /\ \A n \in 1 .. N : g[n] = h[n][g[n - 1]]
  <2>. HIDE DEF h, N
  <2>1. \E g : Carries(N, S, NothingTaken, h, g)
    BY <1>1, <1>2, Carried
  <2>. QED BY <2>1 DEF Carries
<1>4. g = Step(g)
  <2>1. ASSUME NEW n \in 1 .. N PROVE g[n] = Take(map, g[n - 1], line[n])
    <3>1. g[n - 1] \in S
      BY <1>1
    <3>. QED BY <1>3, <3>1
  <2>. QED BY <1>3, <2>1
<1>5. Scan(line, map) = CHOOSE s : s = Step(s)
  BY DEF Scan
<1>6. Scan(line, map) = Step(Scan(line, map))
  BY <1>4, <1>5
<1>. DEFINE f == Scan(line, map)
            G == {n \in 0 .. N : f[n] \in S}
<1>. HIDE DEF f
<1>7. f[0] = NothingTaken /\ \A n \in 1 .. N : f[n] = Take(map, f[n - 1], line[n])
  BY <1>6 DEF f
<1>8. 0 \in G
  BY <1>1, <1>7
<1>9. ASSUME NEW n \in 0 .. N, n < N, n \in G PROVE n + 1 \in G
  <2>1. f[n + 1] = Take(map, f[n], line[n + 1]) /\ line[n + 1] \in Token
    BY <1>7, <1>9
  <2>2. f[n] \in Known(map)
    BY <1>9 DEF S
  <2>. QED BY <2>1, <2>2, <1>9, TakeType DEF S
<1>10. 0 .. N \subseteq G
  <2>. HIDE DEF G, N
  <2>. QED BY <1>1, <1>8, <1>9, UpTo
<1>11. f \in [0 .. N -> S]
  BY <1>6, <1>10 DEF f
<1>. QED BY <1>7, <1>11 DEF f, S

-----------------------------------------------------------------------------
(* The options of a command                                                *)

\* The options a command declares, with the names and keys it declares.
OwnOptions(c) == {d \in OptionDef : d.name \in OptionNames(c) /\ d.key \in OptionNames(c)}

\* An option and its aliases carry names the command declares.
LEMMA AliasesOwn ==
  ASSUME NEW c \in Commands, NEW n \in 1 .. Len(Cmd(c).options)
  PROVE  WithAliases(Cmd(c).options[n]) \in Seq(OwnOptions(c))
<1>. DEFINE o == Cmd(c).options[n]
<1>1. Cmd(c).options \in Seq(Option)
  BY ParserAssumption
<1>2. o \in Option
  BY <1>1
<1>3. o \in ToSet(Cmd(c).options)
  BY <1>1 DEF ToSet
<1>. HIDE DEF o
<1>4. o.name \in OptionNames(c) /\ ToSet(o.aliases) \subseteq OptionNames(c)
  BY <1>3 DEF OptionNames
<1>. DEFINE named(name, short) == [name |-> name, key |-> o.name, short |-> short,
                                       valued |-> o.valued, many |-> o.many, parse |-> o.parse]
            als == [i \in DOMAIN o.aliases |-> named(o.aliases[i], {})]
<1>5. named(o.name, o.short) \in OwnOptions(c)
  BY <1>2, <1>4 DEF OwnOptions, Option, OptionDef
<1>6. o.aliases \in Seq(Text) /\ DOMAIN o.aliases = 1 .. Len(o.aliases) /\ Len(o.aliases) \in Nat
  BY <1>2 DEF Option
<1>7. ASSUME NEW i \in 1 .. Len(o.aliases) PROVE named(o.aliases[i], {}) \in OwnOptions(c)
  <2>1. o.aliases[i] \in Text /\ o.aliases[i] \in ToSet(o.aliases)
    BY <1>6 DEF ToSet
  <2>. QED BY <2>1, <1>2, <1>4 DEF OwnOptions, Option, OptionDef
<1>10. WithAliases(o) = <<named(o.name, o.short)>> \o als
  BY DEF WithAliases
<1>. HIDE DEF named
<1>8. als \in Seq(OwnOptions(c))
  <2>1. als \in [1 .. Len(o.aliases) -> OwnOptions(c)]
    BY <1>6, <1>7
  <2>. HIDE DEF als
  <2>. QED BY <2>1, <1>6
<1>9. <<named(o.name, o.short)>> \in Seq(OwnOptions(c))
  BY <1>5
<1>11. WithAliases(o) \in Seq(OwnOptions(c))
  <2>. HIDE DEF als
  <2>. QED BY <1>8, <1>9, <1>10
<1>. QED BY <1>11 DEF o

\* So do all that it declares.
LEMMA DeclaredOwn ==
  ASSUME NEW c \in Commands
  PROVE  Declared(c) \in Seq(OwnOptions(c))
<1>. DEFINE opts == Cmd(c).options
            N == Len(opts)
            S == Seq(OwnOptions(c))
            Add(a, n) == a \o WithAliases(opts[n])
            Step(s) == [n \in 0 .. N |-> IF n = 0 THEN <<>> ELSE Add(s[n - 1], n)]
            h == [n \in 1 .. N |-> [a \in S |-> Add(a, n)]]
<1>1. N \in Nat /\ <<>> \in S
  BY ParserAssumption
<1>11. \A n \in 1 .. N, a \in S : Add(a, n) \in S
  BY AliasesOwn
<1>12. Declared(c) = (CHOOSE s : s = Step(s))[N]
  BY DEF Declared
<1>. HIDE DEF S, Add, N
<1>2. h \in [1 .. N -> [S -> S]]
  BY <1>11
<1>3. PICK g \in [0 .. N -> S] : g[0] = <<>> /\ \A n \in 1 .. N : g[n] = h[n][g[n - 1]]
  <2>. HIDE DEF h
  <2>1. \E g : Carries(N, S, <<>>, h, g)
    BY <1>1, <1>2, Carried
  <2>. QED BY <2>1 DEF Carries
<1>4. g = Step(g)
  <2>1. ASSUME NEW n \in 1 .. N PROVE g[n] = Add(g[n - 1], n)
    <3>1. g[n - 1] \in S
      BY <1>1
    <3>. QED BY <1>3, <3>1
  <2>. QED BY <1>3, <2>1
<1>. DEFINE f == CHOOSE s : s = Step(s)
<1>5. Declared(c) = f[N]
  BY <1>12
<1>6. f = Step(f)
  BY <1>4
<1>. HIDE DEF f
<1>. DEFINE G == {n \in 0 .. N : f[n] \in S}
<1>7. f[0] = <<>> /\ \A n \in 1 .. N : f[n] = Add(f[n - 1], n)
  BY <1>1, <1>6
<1>8. 0 \in G
  BY <1>1, <1>7
<1>9. ASSUME NEW n \in 0 .. N, n < N, n \in G PROVE n + 1 \in G
  <2>1. n + 1 \in 1 .. N /\ f[n + 1] = Add(f[n], n + 1)
    BY <1>1, <1>7, <1>9
  <2>. QED BY <1>1, <1>9, <1>11, <2>1
<1>10. 0 .. N \subseteq G
  <2>. HIDE DEF G
  <2>. QED BY <1>1, <1>8, <1>9, UpTo
<1>. QED BY <1>1, <1>5, <1>10 DEF S

\* An option is put in the place of the one of its name, or at the end.
LEMMA PutType ==
  ASSUME NEW map \in Seq(OptionDef), NEW def \in OptionDef
  PROVE  /\ Put(map, def) \in Seq(OptionDef)
         /\ (\A i \in 1 .. Len(map) : map[i].name # def.name) => Put(map, def) = Append(map, def)
<1>. DEFINE I == {i \in 1 .. Len(map) : map[i].name = def.name}
            j == IF I # {} THEN Min(I) ELSE 0
<1>1. Put(map, def) = IF j = 0 THEN Append(map, def) ELSE [map EXCEPT ![j] = def]
  BY DEF Put, SelectInSeq
<1>2. I # {} => Min(I) \in I /\ \A i \in I : Min(I) <= i
  <2>. I \in SUBSET Nat
    OBVIOUS
  <2>. HIDE DEF I
  <2>. QED BY MinIsLeast
<1>3. j = 0 \/ j \in 1 .. Len(map)
  BY <1>2
<1>4. (\A i \in 1 .. Len(map) : map[i].name # def.name) => j = 0
  OBVIOUS
<1>. HIDE DEF j, I
<1>5. Append(map, def) \in Seq(OptionDef)
  OBVIOUS
<1>6. ASSUME j \in 1 .. Len(map) PROVE [map EXCEPT ![j] = def] \in Seq(OptionDef)
  BY <1>6
<1>. QED BY <1>1, <1>3, <1>4, <1>5, <1>6

\* The maps that grow out of one by options of D.
Grown(map, D) ==
  {m \in Seq(OptionDef) : /\ Len(map) <= Len(m)
                          /\ \A i \in 1 .. Len(map) : m[i] = map[i]
                          /\ \A i \in 1 .. Len(m) : i > Len(map) => m[i] \in D}

\* Options of other names leave a map as it is and come after it.
LEMMA PutGrows ==
  ASSUME NEW map \in Seq(OptionDef), NEW D \in SUBSET OptionDef,
         \A i \in 1 .. Len(map), d \in D : map[i].name # d.name,
         NEW m \in Grown(map, D), NEW def \in D
  PROVE  Put(m, def) \in Grown(map, D)
<1>1. m \in Seq(OptionDef) /\ def \in OptionDef /\ Len(m) \in Nat /\ Len(map) \in Nat
  BY DEF Grown
<1>2. Put(m, def) \in Seq(OptionDef)
  BY <1>1, PutType
<1>. DEFINE I == {i \in 1 .. Len(m) : m[i].name = def.name}
            j == IF I # {} THEN Min(I) ELSE 0
<1>3. Put(m, def) = IF j = 0 THEN Append(m, def) ELSE [m EXCEPT ![j] = def]
  BY DEF Put, SelectInSeq
<1>4. I # {} => Min(I) \in I /\ \A i \in I : Min(I) <= i
  <2>. I \in SUBSET Nat
    OBVIOUS
  <2>. HIDE DEF I
  <2>. QED BY MinIsLeast
<1>5. j = 0 \/ (j \in 1 .. Len(m) /\ m[j].name = def.name)
  BY <1>4
<1>. HIDE DEF j, I
<1>6. CASE j = 0
  <2>1. Put(m, def) = Append(m, def)
    BY <1>3, <1>6
  <2>2. Len(Append(m, def)) = Len(m) + 1
    BY <1>1
  <2>3. \A i \in 1 .. Len(m) : Append(m, def)[i] = m[i]
    BY <1>1
  <2>4. Append(m, def)[Len(m) + 1] = def
    BY <1>1
  <2>5. \A i \in 1 .. Len(map) : Append(m, def)[i] = map[i]
    BY <1>1, <2>3 DEF Grown
  <2>6. ASSUME NEW i \in 1 .. Len(m) + 1, i > Len(map) PROVE Append(m, def)[i] \in D
    <3>1. CASE i \in 1 .. Len(m)
      BY <2>3, <2>6, <3>1 DEF Grown
    <3>2. CASE i = Len(m) + 1
      BY <2>4, <3>2
    <3>. QED BY <3>1, <3>2, <1>1
  <2>7. Len(map) <= Len(m) + 1
    BY <1>1 DEF Grown
  <2>. HIDE DEF Grown
  <2>. QED BY <1>2, <2>1, <2>2, <2>5, <2>6, <2>7 DEF Grown
<1>7. CASE j # 0
  <2>1. Put(m, def) = [m EXCEPT ![j] = def] /\ j \in 1 .. Len(m) /\ m[j].name = def.name
    BY <1>3, <1>5, <1>7
  <2>2. j > Len(map)
    <3>1. SUFFICES ASSUME j <= Len(map) PROVE FALSE
      BY <2>1, <1>1
    <3>2. j \in 1 .. Len(map) /\ m[j] = map[j]
      BY <3>1, <2>1, <1>1 DEF Grown
    <3>. QED BY <3>2, <2>1
  <2>3. Len(Put(m, def)) = Len(m) /\ \A i \in 1 .. Len(m) : Put(m, def)[i] = IF i = j THEN def ELSE m[i]
    BY <2>1, <1>1
  <2>. QED BY <1>1, <1>2, <2>2, <2>3 DEF Grown
<1>. QED BY <1>6, <1>7

\* The map of a command: that of the commands above it, and then its own options.
LEMMA PutAllGrows ==
  ASSUME NEW map \in Seq(OptionDef), NEW D \in SUBSET OptionDef, NEW defs \in Seq(D)
  PROVE  /\ PutAll(map, defs) \in Seq(OptionDef)
         /\ (\A i \in 1 .. Len(map), d \in D : map[i].name # d.name) => PutAll(map, defs) \in Grown(map, D)
<1>. DEFINE N == Len(defs)
            S == Seq(OptionDef)
            Step(s) == [n \in 0 .. N |-> IF n = 0 THEN map ELSE Put(s[n - 1], defs[n])]
            h == [n \in 1 .. N |-> [a \in S |-> Put(a, defs[n])]]
<1>1. N \in Nat /\ map \in S /\ \A n \in 1 .. N : defs[n] \in D /\ defs[n] \in OptionDef
  OBVIOUS
<1>2. h \in [1 .. N -> [S -> S]]
  <2>1. ASSUME NEW n \in 1 .. N, NEW a \in S PROVE Put(a, defs[n]) \in S
    BY <1>1, PutType
  <2>. QED BY <2>1
<1>. HIDE DEF S
<1>3. PICK g \in [0 .. N -> S] : g[0] = map /\ \A n \in 1 .. N : g[n] = h[n][g[n - 1]]
  <2>. HIDE DEF h, N
  <2>1. \E g : Carries(N, S, map, h, g)
    BY <1>1, <1>2, Carried
  <2>. QED BY <2>1 DEF Carries
<1>4. g = Step(g)
  <2>1. ASSUME NEW n \in 1 .. N PROVE g[n] = Put(g[n - 1], defs[n])
    <3>1. g[n - 1] \in S
      BY <1>1
    <3>. QED BY <1>3, <3>1
  <2>. QED BY <1>3, <2>1
<1>. DEFINE f == CHOOSE s : s = Step(s)
<1>5. PutAll(map, defs) = f[N]
  BY DEF PutAll
<1>6. f = Step(f)
  BY <1>4
<1>. HIDE DEF f
<1>7. f[0] = map /\ \A n \in 1 .. N : f[n] = Put(f[n - 1], defs[n])
  BY <1>6
<1>8. PutAll(map, defs) \in S
  <2>. DEFINE G == {n \in 0 .. N : f[n] \in S}
  <2>1. 0 \in G
    BY <1>1, <1>7
  <2>2. ASSUME NEW n \in 0 .. N, n < N, n \in G PROVE n + 1 \in G
    <3>1. n + 1 \in 1 .. N /\ f[n + 1] = Put(f[n], defs[n + 1])
      BY <1>7, <2>2
    <3>2. Put(f[n], defs[n + 1]) \in S
      BY <1>1, <2>2, <3>1, PutType DEF S
    <3>. QED BY <3>1, <3>2
  <2>3. 0 .. N \subseteq G
    <3>. HIDE DEF G, N
    <3>. QED BY <1>1, <2>1, <2>2, UpTo
  <2>. QED BY <1>1, <1>5, <2>3
<1>9. ASSUME \A i \in 1 .. Len(map), d \in D : map[i].name # d.name
      PROVE  PutAll(map, defs) \in Grown(map, D)
  <2>. DEFINE G == {n \in 0 .. N : f[n] \in Grown(map, D)}
  <2>1. 0 \in G
    BY <1>1, <1>7 DEF Grown
  <2>2. ASSUME NEW n \in 0 .. N, n < N, n \in G PROVE n + 1 \in G
    <3>1. n + 1 \in 1 .. N /\ f[n + 1] = Put(f[n], defs[n + 1])
      BY <1>7, <2>2
    <3>2. Put(f[n], defs[n + 1]) \in Grown(map, D)
      BY <1>1, <1>9, <2>2, <3>1, PutGrows
    <3>. QED BY <3>1, <3>2
  <2>3. 0 .. N \subseteq G
    <3>. HIDE DEF G, N
    <3>. QED BY <1>1, <2>1, <2>2, UpTo
  <2>. QED BY <1>1, <1>5, <2>3
<1>. QED BY <1>8, <1>9 DEF S

-----------------------------------------------------------------------------
(* One token                                                               *)

\* What a token does, case by case.
LEMMA TakeCases ==
  ASSUME NEW map \in Seq(OptionDef), NEW acc \in Known(map), NEW t \in Token, ~acc.err
  PROVE  /\ acc.want # 0 /\ Accepts(map[acc.want].parse, t) =>
              Take(map, acc, t) = [pos |-> acc.pos, opts |-> Store(acc.opts, map[acc.want], <<t>>),
                                   want |-> 0, err |-> FALSE]
         /\ acc.want # 0 /\ ~Accepts(map[acc.want].parse, t) => Take(map, acc, t).err
         /\ acc.want = 0 /\ Lookup(map, t) = 0 =>
              Take(map, acc, t) = [pos |-> Append(acc.pos, t), opts |-> acc.opts, want |-> 0, err |-> FALSE]
         /\ acc.want = 0 /\ TakesValue(map, t) =>
              Take(map, acc, t) = [pos |-> acc.pos, opts |-> acc.opts, want |-> Lookup(map, t), err |-> FALSE]
         /\ acc.want = 0 /\ Lookup(map, t) # 0 /\ ~TakesValue(map, t) =>
              Take(map, acc, t) = [pos |-> acc.pos, opts |-> Store(acc.opts, map[Lookup(map, t)], <<>>),
                                   want |-> 0, err |-> FALSE]
<1>1. acc = [pos |-> acc.pos, opts |-> acc.opts, want |-> acc.want, err |-> acc.err]
  BY DEF Known
<1>7. acc.err = FALSE
  BY DEF Known
<1>2. ASSUME acc.want # 0, Accepts(map[acc.want].parse, t)
      PROVE  Take(map, acc, t) = [pos |-> acc.pos, opts |-> Store(acc.opts, map[acc.want], <<t>>),
                                  want |-> 0, err |-> FALSE]
  <2>1. Take(map, acc, t) = [acc EXCEPT !.opts = Store(@, map[acc.want], <<t>>), !.want = 0]
    BY <1>2 DEF Take
  <2>2. Take(map, acc, t) =
          [pos |-> acc.pos, opts |-> Store(acc.opts, map[acc.want], <<t>>), want |-> 0, err |-> acc.err]
    BY <2>1, <1>1
  <2>. QED BY <2>2, <1>7
<1>3. ASSUME acc.want # 0, ~Accepts(map[acc.want].parse, t) PROVE Take(map, acc, t).err
  <2>1. Take(map, acc, t) = [acc EXCEPT !.err = TRUE]
    BY <1>3 DEF Take
  <2>. QED BY <2>1, <1>1
<1>4. ASSUME acc.want = 0, Lookup(map, t) = 0
      PROVE  Take(map, acc, t) = [pos |-> Append(acc.pos, t), opts |-> acc.opts, want |-> 0, err |-> FALSE]
  <2>1. Take(map, acc, t) = [acc EXCEPT !.pos = Append(@, t)]
    BY <1>4 DEF Take
  <2>2. Take(map, acc, t) =
          [pos |-> Append(acc.pos, t), opts |-> acc.opts, want |-> acc.want, err |-> acc.err]
    BY <2>1, <1>1
  <2>. QED BY <2>2, <1>7, <1>4
<1>5. ASSUME acc.want = 0, TakesValue(map, t)
      PROVE  Take(map, acc, t) = [pos |-> acc.pos, opts |-> acc.opts, want |-> Lookup(map, t), err |-> FALSE]
  <2>1. Take(map, acc, t) = [acc EXCEPT !.want = Lookup(map, t)]
    BY <1>5 DEF Take, TakesValue
  <2>2. Take(map, acc, t) =
          [pos |-> acc.pos, opts |-> acc.opts, want |-> Lookup(map, t), err |-> acc.err]
    BY <2>1, <1>1
  <2>. QED BY <2>2, <1>7
<1>6. ASSUME acc.want = 0, Lookup(map, t) # 0, ~TakesValue(map, t)
      PROVE  Take(map, acc, t) = [pos |-> acc.pos, opts |-> Store(acc.opts, map[Lookup(map, t)], <<>>),
                                  want |-> 0, err |-> FALSE]
  <2>1. Take(map, acc, t) = [acc EXCEPT !.opts = Store(@, map[Lookup(map, t)], <<>>)]
    BY <1>6 DEF Take, TakesValue
  <2>2. Take(map, acc, t) =
          [pos |-> acc.pos, opts |-> Store(acc.opts, map[Lookup(map, t)], <<>>), want |-> acc.want, err |-> acc.err]
    BY <2>1, <1>1
  <2>. QED BY <2>2, <1>7, <1>6
<1>. QED BY <1>2, <1>3, <1>4, <1>5, <1>6

\* A token after which a value is awaited is an option that takes one.
LEMMA WantsOwn ==
  ASSUME NEW map \in Seq(OptionDef), NEW acc \in Known(map), NEW t \in Token,
         Take(map, acc, t).want # 0, ~Take(map, acc, t).err
  PROVE  TakesValue(map, t)
<1>1. ~acc.err
  BY DEF Take
<1>2. ASSUME acc.want # 0, Accepts(map[acc.want].parse, t) PROVE FALSE
  <2>1. Take(map, acc, t) = [pos |-> acc.pos, opts |-> Store(acc.opts, map[acc.want], <<t>>),
                             want |-> 0, err |-> FALSE]
    BY <1>1, <1>2, TakeCases
  <2>. QED BY <2>1
<1>3. ASSUME acc.want # 0, ~Accepts(map[acc.want].parse, t) PROVE FALSE
  BY <1>1, <1>3, TakeCases
<1>4. ASSUME acc.want = 0, Lookup(map, t) = 0 PROVE FALSE
  <2>1. Take(map, acc, t) = [pos |-> Append(acc.pos, t), opts |-> acc.opts, want |-> 0, err |-> FALSE]
    BY <1>1, <1>4, TakeCases
  <2>. QED BY <2>1
<1>5. ASSUME acc.want = 0, Lookup(map, t) # 0, ~TakesValue(map, t) PROVE FALSE
  <2>1. Take(map, acc, t) = [pos |-> acc.pos, opts |-> Store(acc.opts, map[Lookup(map, t)], <<>>),
                             want |-> 0, err |-> FALSE]
    BY <1>1, <1>5, TakeCases
  <2>. QED BY <2>1
<1>. QED BY <1>2, <1>3, <1>4, <1>5

\* A value is awaited only after an option that takes one.
LEMMA WantsAfter ==
  ASSUME NEW line \in Seq(Token), NEW map \in Seq(OptionDef), NEW n \in 0 .. Len(line),
         Scan(line, map)[n].want # 0, ~Scan(line, map)[n].err
  PROVE  n \in 1 .. Len(line) /\ TakesValue(map, line[n])
<1>1. n # 0
  BY ScanSteps DEF NothingTaken
<1>2. n \in 1 .. Len(line) /\ n - 1 \in 0 .. Len(line) /\ line[n] \in Token
  BY <1>1
<1>. DEFINE acc == Scan(line, map)[n - 1]
<1>3. acc \in Known(map) /\ Scan(line, map)[n] = Take(map, acc, line[n])
  BY <1>2, ScanSteps
<1>. HIDE DEF acc
<1>4. Take(map, acc, line[n]).want # 0 /\ ~Take(map, acc, line[n]).err
  BY <1>3
<1>. QED BY <1>2, <1>3, <1>4, WantsOwn

\* b comes after a in a scan.
Later(a, b) ==
  /\ Len(a.pos) <= Len(b.pos)
  /\ \A i \in 1 .. Len(a.pos) : b.pos[i] = a.pos[i]
  /\ a.err => b.err
  /\ DOMAIN a.opts \subseteq DOMAIN b.opts

\* Later is transitive.
LEMMA LaterStill ==
  ASSUME NEW a, NEW b, NEW c, Len(a.pos) \in Nat, Len(b.pos) \in Nat, Len(c.pos) \in Nat,
         Later(a, b), Later(b, c)
  PROVE  Later(a, c)
<1>. DEFINE la == Len(a.pos)
            lb == Len(b.pos)
            lc == Len(c.pos)
<1>1. la \in Nat /\ lb \in Nat /\ lc \in Nat /\ la <= lb /\ lb <= lc
  BY DEF Later
<1>2. (\A i \in 1 .. la : b.pos[i] = a.pos[i]) /\ (\A i \in 1 .. lb : c.pos[i] = b.pos[i])
  BY DEF Later
<1>3. (a.err => c.err) /\ DOMAIN a.opts \subseteq DOMAIN c.opts
  BY DEF Later
<1>4. Later(a, c) <=> la <= lc /\ (\A i \in 1 .. la : c.pos[i] = a.pos[i]) /\ (a.err => c.err)
                     /\ DOMAIN a.opts \subseteq DOMAIN c.opts
  BY DEF Later
<1>. HIDE DEF la, lb, lc
<1>5. la <= lc /\ \A i \in 1 .. la : i \in 1 .. lb
  BY <1>1
<1>. QED BY <1>2, <1>3, <1>4, <1>5

\* A token adds to what is known and takes nothing back.
LEMMA TakeLater ==
  ASSUME NEW map \in Seq(OptionDef), NEW acc \in Known(map), NEW t \in Token
  PROVE  Later(acc, Take(map, acc, t))
<1>1. acc.pos \in Seq(Token) /\ acc.opts \in Opts /\ acc.want \in 0 .. Len(map)
  BY DEF Known
<1>2. Later(acc, acc)
  BY <1>1 DEF Later
<1>3. CASE acc.err
  BY <1>2, <1>3 DEF Take
<1>4. CASE ~acc.err /\ acc.want # 0
  <2>1. CASE Accepts(map[acc.want].parse, t)
    <3>1. DOMAIN acc.opts \subseteq DOMAIN Store(acc.opts, map[acc.want], <<t>>)
      BY DEF Store
    <3>. QED BY <1>1, <1>4, <2>1, <3>1, TakeCases DEF Later
  <2>2. CASE ~Accepts(map[acc.want].parse, t)
    <3>1. Take(map, acc, t) = [acc EXCEPT !.err = TRUE]
      BY <1>4, <2>2 DEF Take
    <3>2. Take(map, acc, t).err /\ Take(map, acc, t).pos = acc.pos /\ Take(map, acc, t).opts = acc.opts
      BY <3>1 DEF Known
    <3>. QED BY <3>2, <1>1 DEF Later
  <2>. QED BY <2>1, <2>2
<1>5. CASE ~acc.err /\ acc.want = 0 /\ Lookup(map, t) = 0
  <2>1. Take(map, acc, t) = [pos |-> Append(acc.pos, t), opts |-> acc.opts, want |-> 0, err |-> FALSE]
    BY <1>5, TakeCases
  <2>2. Len(Append(acc.pos, t)) = Len(acc.pos) + 1 /\ \A i \in 1 .. Len(acc.pos) : Append(acc.pos, t)[i] = acc.pos[i]
    BY <1>1
  <2>. QED BY <1>1, <1>5, <2>1, <2>2 DEF Later
<1>6. CASE ~acc.err /\ acc.want = 0 /\ TakesValue(map, t)
  <2>1. Take(map, acc, t) = [pos |-> acc.pos, opts |-> acc.opts, want |-> Lookup(map, t), err |-> FALSE]
    BY <1>6, TakeCases
  <2>2. Take(map, acc, t).pos = acc.pos /\ Take(map, acc, t).opts = acc.opts
    BY <2>1
  <2>. QED BY <1>1, <1>6, <2>2 DEF Later
<1>7. CASE ~acc.err /\ acc.want = 0 /\ Lookup(map, t) # 0 /\ ~TakesValue(map, t)
  <2>1. DOMAIN acc.opts \subseteq DOMAIN Store(acc.opts, map[Lookup(map, t)], <<>>)
    BY DEF Store
  <2>2. Take(map, acc, t) = [pos |-> acc.pos, opts |-> Store(acc.opts, map[Lookup(map, t)], <<>>),
                             want |-> 0, err |-> FALSE]
    BY <1>7, TakeCases
  <2>. DEFINE o == Store(acc.opts, map[Lookup(map, t)], <<>>)
  <2>. HIDE DEF o
  <2>3. Take(map, acc, t).pos = acc.pos /\ Take(map, acc, t).opts = o
    BY <2>2 DEF o
  <2>. QED BY <1>1, <1>7, <2>1, <2>3 DEF Later, o
<1>. QED BY <1>3, <1>4, <1>5, <1>6, <1>7 DEF TakesValue

\* Nothing found on the way is lost at the end.
LEMMA ScanLater ==
  ASSUME NEW line \in Seq(Token), NEW map \in Seq(OptionDef),
         NEW n \in 0 .. Len(line), NEW m \in 0 .. n
  PROVE  Later(Scan(line, map)[m], Scan(line, map)[n])
<1>. DEFINE N == Len(line)
            f == Scan(line, map)
            G == {k \in 0 .. N : \A l \in 0 .. k : Later(f[l], f[k])}
<1>1. f \in [0 .. N -> Known(map)] /\ \A k \in 1 .. N : f[k] = Take(map, f[k - 1], line[k])
  BY ScanSteps
<1>2. N \in Nat
  OBVIOUS
<1>3. \A k \in 0 .. N : f[k] \in Known(map)
  BY <1>1
<1>. HIDE DEF f
<1>4. \A k \in 0 .. N : Len(f[k].pos) \in Nat
  BY <1>3 DEF Known
<1>5. 0 \in G
  BY <1>2, <1>4 DEF Later
<1>6. ASSUME NEW k \in 0 .. N, k < N, k \in G PROVE k + 1 \in G
  <2>1. k + 1 \in 1 .. N /\ line[k + 1] \in Token
    BY <1>6
  <2>2. Later(f[k], f[k + 1])
    BY <1>1, <1>3, <2>1, TakeLater
  <2>3. Later(f[k + 1], f[k + 1])
    BY <1>4, <2>1 DEF Later
  <2>4. ASSUME NEW l \in 0 .. k PROVE Later(f[l], f[k + 1])
    <3>1. Later(f[l], f[k])
      BY <1>6
    <3>2. Len(f[l].pos) \in Nat /\ Len(f[k].pos) \in Nat /\ Len(f[k + 1].pos) \in Nat
      BY <1>4, <1>6
    <3>. QED BY <3>1, <3>2, <2>2, LaterStill
  <2>. QED BY <2>1, <2>3, <2>4
<1>7. 0 .. N \subseteq G
  <2>. HIDE DEF G, N
  <2>. QED BY <1>2, <1>5, <1>6, UpTo
<1>. QED BY <1>7 DEF f

-----------------------------------------------------------------------------
(* One level more                                                          *)

LowKeys(X) == {X[i].key : i \in 1 .. Len(X)}
HighKeys(X, M) == {M[i].key : i \in Len(X) + 1 .. Len(M)}

\* M is X with options of keys of their own.
Extends(M, X) ==
  /\ X \in Seq(OptionDef) /\ M \in Seq(OptionDef) /\ Len(X) <= Len(M)
  /\ \A i \in 1 .. Len(X) : M[i] = X[i]
  /\ LowKeys(X) \cap HighKeys(X, M) = {}

\* What a token names is looked for above first.
LEMMA LookupGrows ==
  ASSUME NEW X, NEW M, Extends(M, X), NEW t \in Token
  PROVE  /\ Lookup(X, t) # 0 => Lookup(M, t) = Lookup(X, t)
         /\ Lookup(X, t) # 0 => M[Lookup(X, t)] = X[Lookup(X, t)]
         /\ Lookup(X, t) = 0 /\ Lookup(M, t) # 0 => Lookup(M, t) \in Len(X) + 1 .. Len(M)
<1>. DEFINE i == Lookup(X, t)
            j == Lookup(M, t)
<1>1. X \in Seq(OptionDef) /\ M \in Seq(OptionDef) /\ Len(X) <= Len(M) /\ Len(X) \in Nat /\ Len(M) \in Nat
  BY DEF Extends
<1>2. /\ i \in 0 .. Len(X)
      /\ i # 0 => Names(t, X[i]) /\ \A k \in 1 .. Len(X) : k < i => ~Names(t, X[k])
      /\ i = 0 => \A k \in 1 .. Len(X) : ~Names(t, X[k])
  BY <1>1, LookupFinds
<1>3. /\ j \in 0 .. Len(M)
      /\ j # 0 => Names(t, M[j]) /\ \A k \in 1 .. Len(M) : k < j => ~Names(t, M[k])
      /\ j = 0 => \A k \in 1 .. Len(M) : ~Names(t, M[k])
  BY <1>1, LookupFinds
<1>4. \A k \in 1 .. Len(X) : M[k] = X[k] /\ k \in 1 .. Len(M)
  BY <1>1 DEF Extends
<1>. HIDE DEF i, j
<1>5. ASSUME i # 0 PROVE j = i /\ M[i] = X[i]
  <2>1. i \in 1 .. Len(X) /\ Names(t, M[i]) /\ i \in 1 .. Len(M)
    BY <1>2, <1>4, <1>5
  <2>2. j # 0 /\ ~(i < j)
    BY <1>3, <2>1
  <2>3. ~(j < i)
    <3>1. SUFFICES ASSUME j < i PROVE FALSE
      OBVIOUS
    <3>2. j \in 1 .. Len(X)
      BY <3>1, <2>1, <2>2, <1>3, <1>1
    <3>. QED BY <3>1, <3>2, <2>2, <1>2, <1>3, <1>4, <1>5
  <2>. QED BY <2>1, <2>2, <2>3, <1>2, <1>3, <1>4
<1>6. ASSUME i = 0, j # 0 PROVE j \in Len(X) + 1 .. Len(M)
  <2>1. j \notin 1 .. Len(X)
    BY <1>2, <1>3, <1>4, <1>6
  <2>. QED BY <2>1, <1>1, <1>3, <1>6
<1>. QED BY <1>5, <1>6 DEF i, j

\* Options of different keys can be stored in either part of a merge.
LEMMA MergeStore ==
  ASSUME NEW o \in Opts, NEW u \in Opts, NEW def \in OptionDef, NEW v \in Seq(Token)
  PROVE  /\ def.key \notin DOMAIN u => Merge(Store(o, def, v), u) = Store(Merge(o, u), def, v)
         /\ def.key \notin DOMAIN o => Merge(o, Store(u, def, v)) = Store(Merge(o, u), def, v)
<1>. DEFINE d == def.key
            K == DOMAIN o \cup DOMAIN u \cup {d}
            both == Merge(o, u)
            old(w) == IF def.many /\ d \in DOMAIN w THEN w[d] ELSE <<>>
            put(w) == [k \in DOMAIN w \cup {d} |-> IF k = d THEN old(w) \o v ELSE w[k]]
<1>1. both = [k \in DOMAIN o \cup DOMAIN u |-> IF k \in DOMAIN u THEN u[k] ELSE o[k]]
  BY DEF Merge
<1>2. \A w : Store(w, def, v) = put(w)
  BY DEF Store
<1>3. DOMAIN both = DOMAIN o \cup DOMAIN u
  BY <1>1
<1>4. put(both) = [k \in K |-> IF k = d THEN old(both) \o v ELSE both[k]]
  BY <1>3
<1>5. ASSUME d \notin DOMAIN u PROVE Merge(put(o), u) = put(both)
  <2>1. old(both) = old(o)
    BY <1>1, <1>3, <1>5
  <2>2. DOMAIN put(o) = DOMAIN o \cup {d}
    OBVIOUS
  <2>3. Merge(put(o), u) = [k \in K |-> IF k \in DOMAIN u THEN u[k] ELSE put(o)[k]]
    BY <2>2 DEF Merge
  <2>4. ASSUME NEW k \in K
        PROVE  (IF k \in DOMAIN u THEN u[k] ELSE put(o)[k]) = (IF k = d THEN old(both) \o v ELSE both[k])
    <3>1. CASE k = d
      <4>1. put(o)[k] = old(o) \o v
        BY <3>1
      <4>. QED BY <4>1, <3>1, <2>1, <1>5
    <3>2. CASE k # d
      <4>1. k \notin DOMAIN u => put(o)[k] = o[k]
        BY <3>2
      <4>2. both[k] = IF k \in DOMAIN u THEN u[k] ELSE o[k]
        BY <3>2, <1>1
      <4>. HIDE DEF put
      <4>. QED BY <4>1, <4>2, <3>2
    <3>. QED BY <3>1, <3>2
  <2>. HIDE DEF put, old, K, both
  <2>. QED BY <2>3, <2>4, <1>4
<1>6. ASSUME d \notin DOMAIN o PROVE Merge(o, put(u)) = put(both)
  <2>1. old(both) = old(u)
    BY <1>1, <1>3, <1>6
  <2>2. DOMAIN put(u) = DOMAIN u \cup {d}
    OBVIOUS
  <2>3. Merge(o, put(u)) = [k \in K |-> IF k \in DOMAIN u \cup {d} THEN put(u)[k] ELSE o[k]]
    BY <2>2 DEF Merge
  <2>4. ASSUME NEW k \in K
        PROVE  (IF k \in DOMAIN u \cup {d} THEN put(u)[k] ELSE o[k]) = (IF k = d THEN old(both) \o v ELSE both[k])
    <3>1. CASE k = d
      <4>1. put(u)[k] = old(u) \o v
        BY <3>1
      <4>. QED BY <4>1, <3>1, <2>1
    <3>2. CASE k # d
      <4>1. k \in DOMAIN u => put(u)[k] = u[k]
        BY <3>2
      <4>2. both[k] = IF k \in DOMAIN u THEN u[k] ELSE o[k]
        BY <3>2, <1>1
      <4>. HIDE DEF put
      <4>. QED BY <4>1, <4>2, <3>2
    <3>. QED BY <3>1, <3>2
  <2>. HIDE DEF put, old, K, both
  <2>. QED BY <2>3, <2>4, <1>4
<1>. QED BY <1>2, <1>5, <1>6

\* What a scan with M knows (f) is what one with X knows (f0), with what a scan
\* with M of what that one left behind (a) adds.
Agree(X, M, f, f0, a) ==
  /\ f \in Known(M) /\ f0 \in Known(X) /\ a \in Known(M)
  /\ ~f.err /\ ~f0.err /\ ~a.err
  /\ f0.want # 0 => f.want = f0.want /\ a.want = 0
  /\ f0.want = 0 => f.want = a.want
  /\ a.want # 0 => a.want \in Len(X) + 1 .. Len(M)
  /\ f.opts = Merge(f0.opts, a.opts)
  /\ DOMAIN f0.opts \subseteq LowKeys(X)
  /\ DOMAIN a.opts \subseteq HighKeys(X, M)

\* The parts of what a scan knows.
LEMMA KnownParts ==
  ASSUME NEW map \in Seq(OptionDef), NEW acc \in Known(map)
  PROVE  /\ acc.pos \in Seq(Token) /\ acc.opts \in Opts
         /\ acc.want \in 0 .. Len(map) /\ acc.err \in BOOLEAN
         /\ acc.want # 0 => map[acc.want] \in OptionDef
BY DEF Known

\* What X takes from the line, M takes too.
LEMMA LowerTakes ==
  ASSUME NEW X, NEW M, Extends(M, X), NEW f, NEW f0, NEW a, Agree(X, M, f, f0, a), NEW t \in Token,
         f.want # 0 => Lookup(M, t) = 0 \/ f0.want # 0,
         f0.want # 0 \/ Lookup(X, t) # 0,
         ~Take(X, f0, t).err
  PROVE  /\ Agree(X, M, Take(M, f, t), Take(X, f0, t), a)
         /\ Take(M, f, t).pos = f.pos
         /\ Take(X, f0, t).pos = f0.pos
<1>. DEFINE g == Take(M, f, t)
            g0 == Take(X, f0, t)
<1>1. /\ X \in Seq(OptionDef) /\ M \in Seq(OptionDef) /\ Len(X) <= Len(M) /\ Len(X) \in Nat /\ Len(M) \in Nat
      /\ \A i \in 1 .. Len(X) : M[i] = X[i]
      /\ LowKeys(X) \cap HighKeys(X, M) = {}
  BY DEF Extends
<1>2. /\ f \in Known(M) /\ f0 \in Known(X) /\ a \in Known(M)
      /\ ~f.err /\ ~f0.err /\ ~a.err
      /\ f0.want # 0 => f.want = f0.want /\ a.want = 0
      /\ f0.want = 0 => f.want = a.want
      /\ a.want # 0 => a.want \in Len(X) + 1 .. Len(M)
      /\ f.opts = Merge(f0.opts, a.opts)
      /\ DOMAIN f0.opts \subseteq LowKeys(X)
      /\ DOMAIN a.opts \subseteq HighKeys(X, M)
  BY DEF Agree
<1>3. f0.opts \in Opts /\ a.opts \in Opts /\ f0.want \in 0 .. Len(X) /\ f.want \in 0 .. Len(M)
  BY <1>1, <1>2, KnownParts
<1>4. g \in Known(M) /\ g0 \in Known(X)
  BY <1>1, <1>2, TakeType
<1>5. <<t>> \in Seq(Token) /\ <<>> \in Seq(Token)
  OBVIOUS
\* An option of X stores its value in the lower part.
<1>6. ASSUME NEW i \in 1 .. Len(X), NEW v \in Seq(Token)
      PROVE  /\ M[i] = X[i] /\ X[i] \in OptionDef
             /\ Store(f.opts, X[i], v) = Merge(Store(f0.opts, X[i], v), a.opts)
             /\ DOMAIN Store(f0.opts, X[i], v) \subseteq LowKeys(X)
  <2>1. M[i] = X[i] /\ X[i] \in OptionDef /\ X[i].key \in LowKeys(X)
    BY <1>1 DEF LowKeys
  <2>2. X[i].key \notin DOMAIN a.opts
    BY <2>1, <1>1, <1>2
  <2>3. Merge(Store(f0.opts, X[i], v), a.opts) = Store(Merge(f0.opts, a.opts), X[i], v)
    BY <2>1, <2>2, <1>3, MergeStore
  <2>4. DOMAIN Store(f0.opts, X[i], v) = DOMAIN f0.opts \cup {X[i].key}
    BY <2>1, <1>3, StoreType
  <2>. QED BY <2>1, <2>3, <2>4, <1>2
<1>7. CASE f0.want # 0
  <2>. DEFINE w == f0.want
  <2>1. w \in 1 .. Len(X) /\ f.want = w /\ a.want = 0 /\ M[w] = X[w]
    BY <1>1, <1>2, <1>3, <1>7
  <2>2. Accepts(X[w].parse, t)
    BY <1>1, <1>2, <1>7, TakeCases
  <2>. DEFINE o0 == Store(f0.opts, X[w], <<t>>)
              o == Store(f.opts, X[w], <<t>>)
  <2>3. g0 = [pos |-> f0.pos, opts |-> o0, want |-> 0, err |-> FALSE]
    BY <1>1, <1>2, <1>7, <2>2, TakeCases
  <2>4. g = [pos |-> f.pos, opts |-> o, want |-> 0, err |-> FALSE]
    BY <1>1, <1>2, <1>7, <2>1, <2>2, TakeCases
  <2>5. o = Merge(o0, a.opts) /\ DOMAIN o0 \subseteq LowKeys(X)
    BY <1>5, <1>6, <2>1
  <2>. HIDE DEF o, o0, w, g, g0
  <2>. QED BY <1>2, <1>4, <2>1, <2>3, <2>4, <2>5 DEF Agree, g, g0
<1>8. CASE f0.want = 0
  <2>. DEFINE i == Lookup(X, t)
  <2>1. i # 0 /\ Lookup(M, t) = i /\ M[i] = X[i]
    BY <1>8, LookupGrows
  <2>2. i \in 1 .. Len(X)
    BY <1>1, <2>1, LookupFinds
  <2>3. f.want = 0 /\ a.want = 0
    BY <1>2, <1>8, <2>1
  <2>4. TakesValue(M, t) <=> TakesValue(X, t)
    BY <2>1 DEF TakesValue
  <2>5. CASE TakesValue(X, t)
    <3>1. g0 = [pos |-> f0.pos, opts |-> f0.opts, want |-> i, err |-> FALSE]
      BY <1>1, <1>2, <1>8, <2>5, TakeCases
    <3>2. g = [pos |-> f.pos, opts |-> f.opts, want |-> i, err |-> FALSE]
      <4>1. TakesValue(M, t) /\ Lookup(M, t) = i
        BY <2>1, <2>4, <2>5
      <4>2. M \in Seq(OptionDef) /\ f \in Known(M) /\ ~f.err /\ f.want = 0
        BY <1>1, <1>2, <2>3
      <4>. HIDE DEF i
      <4>. QED BY <4>1, <4>2, TakeCases
    <3>. HIDE DEF i, g, g0
    <3>. QED BY <1>2, <1>4, <2>1, <2>3, <3>1, <3>2 DEF Agree, g, g0
  <2>6. CASE ~TakesValue(X, t)
    <3>. DEFINE o0 == Store(f0.opts, X[i], <<>>)
                o == Store(f.opts, X[i], <<>>)
    <3>1. g0 = [pos |-> f0.pos, opts |-> o0, want |-> 0, err |-> FALSE]
      BY <1>1, <1>2, <1>8, <2>1, <2>6, TakeCases
    <3>2. g = [pos |-> f.pos, opts |-> o, want |-> 0, err |-> FALSE]
      <4>1. ~TakesValue(M, t) /\ Lookup(M, t) = i /\ i # 0 /\ M[i] = X[i]
        BY <2>1, <2>4, <2>6
      <4>2. M \in Seq(OptionDef) /\ f \in Known(M) /\ ~f.err /\ f.want = 0
        BY <1>1, <1>2, <2>3
      <4>. HIDE DEF i
      <4>. QED BY <4>1, <4>2, TakeCases
    <3>3. o = Merge(o0, a.opts) /\ DOMAIN o0 \subseteq LowKeys(X)
      BY <1>5, <1>6, <2>2
    <3>. HIDE DEF o, o0, i, g, g0
    <3>. QED BY <1>2, <1>4, <2>3, <3>1, <3>2, <3>3 DEF Agree, g, g0
  <2>. QED BY <2>5, <2>6
<1>. QED BY <1>3, <1>7, <1>8

\* What X leaves behind, M takes or leaves behind alike.
LEMMA UpperTakes ==
  ASSUME NEW X, NEW M, Extends(M, X), NEW f, NEW f0, NEW a, Agree(X, M, f, f0, a), NEW t \in Token,
         f0.want = 0, Lookup(X, t) = 0,
         ~Take(M, a, t).err
  PROVE  /\ Agree(X, M, Take(M, f, t), Take(X, f0, t), Take(M, a, t))
         /\ Take(X, f0, t).pos = Append(f0.pos, t)
         /\ \/ Take(M, f, t).pos = f.pos /\ Take(M, a, t).pos = a.pos
            \/ Take(M, f, t).pos = Append(f.pos, t) /\ Take(M, a, t).pos = Append(a.pos, t)
<1>. DEFINE g == Take(M, f, t)
            g0 == Take(X, f0, t)
            b == Take(M, a, t)
<1>1. /\ X \in Seq(OptionDef) /\ M \in Seq(OptionDef) /\ Len(X) <= Len(M) /\ Len(X) \in Nat /\ Len(M) \in Nat
      /\ LowKeys(X) \cap HighKeys(X, M) = {}
  BY DEF Extends
<1>2. /\ f \in Known(M) /\ f0 \in Known(X) /\ a \in Known(M)
      /\ ~f.err /\ ~f0.err /\ ~a.err
      /\ f.want = a.want
      /\ a.want # 0 => a.want \in Len(X) + 1 .. Len(M)
      /\ f.opts = Merge(f0.opts, a.opts)
      /\ DOMAIN f0.opts \subseteq LowKeys(X)
      /\ DOMAIN a.opts \subseteq HighKeys(X, M)
  BY DEF Agree
<1>3. f0.opts \in Opts /\ a.opts \in Opts /\ f.want \in 0 .. Len(M)
  BY <1>1, <1>2, KnownParts
<1>4. g \in Known(M) /\ g0 \in Known(X) /\ b \in Known(M)
  BY <1>1, <1>2, TakeType
<1>5. <<t>> \in Seq(Token) /\ <<>> \in Seq(Token)
  OBVIOUS
<1>6. g0 = [pos |-> Append(f0.pos, t), opts |-> f0.opts, want |-> 0, err |-> FALSE]
  BY <1>1, <1>2, TakeCases
\* An option that X does not know stores its value in the upper part.
<1>7. ASSUME NEW i \in Len(X) + 1 .. Len(M), NEW v \in Seq(Token)
      PROVE  /\ Store(f.opts, M[i], v) = Merge(f0.opts, Store(a.opts, M[i], v))
             /\ DOMAIN Store(a.opts, M[i], v) \subseteq HighKeys(X, M)
  <2>1. M[i] \in OptionDef /\ M[i].key \in HighKeys(X, M)
    BY <1>1 DEF HighKeys
  <2>2. M[i].key \notin DOMAIN f0.opts
    BY <2>1, <1>1, <1>2
  <2>3. Merge(f0.opts, Store(a.opts, M[i], v)) = Store(Merge(f0.opts, a.opts), M[i], v)
    BY <2>1, <2>2, <1>3, MergeStore
  <2>4. DOMAIN Store(a.opts, M[i], v) = DOMAIN a.opts \cup {M[i].key}
    BY <2>1, <1>3, StoreType
  <2>. QED BY <2>1, <2>3, <2>4, <1>2
<1>8. CASE a.want # 0
  <2>. DEFINE w == a.want
              o == Store(f.opts, M[w], <<t>>)
              u == Store(a.opts, M[w], <<t>>)
  <2>1. w \in Len(X) + 1 .. Len(M) /\ f.want = w
    BY <1>2, <1>8
  <2>2. Accepts(M[w].parse, t)
    BY <1>1, <1>2, <1>8, TakeCases
  <2>3. b = [pos |-> a.pos, opts |-> u, want |-> 0, err |-> FALSE]
    BY <1>1, <1>2, <1>8, <2>2, TakeCases
  <2>4. g = [pos |-> f.pos, opts |-> o, want |-> 0, err |-> FALSE]
    BY <1>1, <1>2, <1>8, <2>1, <2>2, TakeCases
  <2>5. o = Merge(f0.opts, u) /\ DOMAIN u \subseteq HighKeys(X, M)
    BY <1>5, <1>7, <2>1
  <2>. HIDE DEF o, u, w, g, g0, b
  <2>. QED BY <1>2, <1>4, <1>6, <2>3, <2>4, <2>5 DEF Agree, g, g0, b
<1>9. CASE a.want = 0 /\ Lookup(M, t) = 0
  <2>1. b = [pos |-> Append(a.pos, t), opts |-> a.opts, want |-> 0, err |-> FALSE]
    BY <1>1, <1>2, <1>9, TakeCases
  <2>2. g = [pos |-> Append(f.pos, t), opts |-> f.opts, want |-> 0, err |-> FALSE]
    BY <1>1, <1>2, <1>9, TakeCases
  <2>. HIDE DEF g, g0, b
  <2>3. /\ b.pos = Append(a.pos, t) /\ b.opts = a.opts /\ b.want = 0 /\ ~b.err
        /\ g.pos = Append(f.pos, t) /\ g.opts = f.opts /\ g.want = 0 /\ ~g.err
    BY <2>1, <2>2
  <2>4. g0.pos = Append(f0.pos, t) /\ g0.opts = f0.opts /\ g0.want = 0 /\ ~g0.err
    BY <1>6
  <2>5. Agree(X, M, g, g0, b)
    BY <1>2, <1>4, <2>3, <2>4 DEF Agree
  <2>. QED BY <2>3, <2>4, <2>5 DEF g, g0, b
<1>10. CASE a.want = 0 /\ Lookup(M, t) # 0
  <2>. DEFINE i == Lookup(M, t)
  <2>1. i \in Len(X) + 1 .. Len(M)
    BY <1>10, LookupGrows
  <2>2. M \in Seq(OptionDef) /\ f \in Known(M) /\ a \in Known(M) /\ ~f.err /\ ~a.err /\ f.want = 0 /\ a.want = 0
    BY <1>1, <1>2, <1>10
  <2>3. CASE TakesValue(M, t)
    <3>1. b = [pos |-> a.pos, opts |-> a.opts, want |-> i, err |-> FALSE]
      BY <2>2, <2>3, TakeCases
    <3>2. g = [pos |-> f.pos, opts |-> f.opts, want |-> i, err |-> FALSE]
      BY <2>2, <2>3, TakeCases
    <3>. HIDE DEF i, g, g0, b
    <3>. QED BY <1>2, <1>4, <1>6, <2>1, <3>1, <3>2 DEF Agree, g, g0, b
  <2>4. CASE ~TakesValue(M, t)
    <3>. DEFINE o == Store(f.opts, M[i], <<>>)
                u == Store(a.opts, M[i], <<>>)
    <3>1. b = [pos |-> a.pos, opts |-> u, want |-> 0, err |-> FALSE]
      BY <2>2, <2>4, <1>10, TakeCases
    <3>2. g = [pos |-> f.pos, opts |-> o, want |-> 0, err |-> FALSE]
      BY <2>2, <2>4, <1>10, TakeCases
    <3>3. o = Merge(f0.opts, u) /\ DOMAIN u \subseteq HighKeys(X, M)
      BY <1>5, <1>7, <2>1
    <3>. HIDE DEF o, u, i, g, g0, b
    <3>. QED BY <1>2, <1>4, <1>6, <3>1, <3>2, <3>3 DEF Agree, g, g0, b
  <2>. QED BY <2>3, <2>4
<1>. QED BY <1>8, <1>9, <1>10

\* A word that is no value is left behind by both.
LEMMA WordPasses ==
  ASSUME NEW X, NEW M, Extends(M, X), NEW f, NEW f0, NEW a, Agree(X, M, f, f0, a),
         NEW t \in Token, t.k = "word", f0.want = 0, a.want = 0
  PROVE  /\ Agree(X, M, Take(M, f, t), Take(X, f0, t), a)
         /\ Take(X, f0, t).pos = Append(f0.pos, t)
         /\ Take(M, f, t).pos = Append(f.pos, t)
<1>1. X \in Seq(OptionDef) /\ M \in Seq(OptionDef)
  BY DEF Extends
<1>2. Lookup(X, t) = 0 /\ Lookup(M, t) = 0
  BY <1>1, LookupFinds DEF Names
<1>3. f \in Known(M) /\ f0 \in Known(X) /\ ~f.err /\ ~f0.err /\ f.want = 0
  BY DEF Agree
<1>. DEFINE g == Take(M, f, t)
            g0 == Take(X, f0, t)
<1>4. g0 = [pos |-> Append(f0.pos, t), opts |-> f0.opts, want |-> 0, err |-> FALSE]
  BY <1>1, <1>2, <1>3, TakeCases
<1>5. g = [pos |-> Append(f.pos, t), opts |-> f.opts, want |-> 0, err |-> FALSE]
  BY <1>1, <1>2, <1>3, TakeCases
<1>6. g \in Known(M) /\ g0 \in Known(X)
  BY <1>1, <1>3, TakeType
<1>. HIDE DEF g, g0
<1>. QED BY <1>4, <1>5, <1>6 DEF Agree, g, g0

\* Two sequences of the same tokens are the same.
LEMMA SameSequence ==
  ASSUME NEW s \in Seq(Token), NEW u \in Seq(Token), Len(s) = Len(u), \A i \in 1 .. Len(u) : s[i] = u[i]
  PROVE  s = u
OBVIOUS

\* A token can be appended before or after another sequence is put in front.
LEMMA AppendLast ==
  ASSUME NEW s \in Seq(Token), NEW u \in Seq(Token), NEW t \in Token
  PROVE  Append(s \o u, t) = s \o Append(u, t)
<1>. DEFINE a == Append(s \o u, t)
            b == s \o Append(u, t)
<1>1. a \in Seq(Token) /\ b \in Seq(Token) /\ Len(a) = Len(s) + Len(u) + 1 /\ Len(b) = Len(s) + (Len(u) + 1)
  OBVIOUS
<1>2. ASSUME NEW i \in 1 .. Len(b) PROVE a[i] = b[i]
  OBVIOUS
<1>. HIDE DEF a, b
<1>3. Len(a) = Len(b)
  <2>1. Len(s) \in Nat /\ Len(u) \in Nat
    OBVIOUS
  <2>. QED BY <1>1, <2>1
<1>4. a = b
  BY <1>1, <1>2, <1>3, SameSequence
<1>. QED BY <1>4 DEF a, b

\* Every option that takes a value is followed by one, which names no option.
Given(line, map) ==
  \A i \in 1 .. Len(line) : TakesValue(map, line[i]) =>
                              i < Len(line) /\ Lookup(map, line[i + 1]) = 0

AllWords(tokens) == \A i \in 1 .. Len(tokens) : tokens[i].k = "word"

\* A scan of L with X drops some words and leaves the rest, which M scans
\* without an error, whatever follows it.
TwoScans(X, M, L, dropped, rest, tail) ==
  /\ L \in Seq(Token) /\ dropped \in Seq(Token) /\ rest \in Seq(Token) /\ tail \in Seq(Token)
  /\ AllWords(dropped) /\ Given(L, M)
  /\ Scan(L, X)[Len(L)].pos = dropped \o rest
  /\ ~Scan(L, X)[Len(L)].err /\ Scan(L, X)[Len(L)].want = 0
  /\ ~Scan(rest \o tail, M)[Len(rest)].err

\* A line scanned with X, what is left of it then scanned with M: together they
\* know what one scan with M knows, if every value is given and names no option.
LEMMA OneLevelMore ==
  ASSUME NEW X, NEW M, Extends(M, X), NEW L, NEW dropped, NEW rest, NEW tail,
         TwoScans(X, M, L, dropped, rest, tail)
  PROVE  /\ Agree(X, M, Scan(L, M)[Len(L)], Scan(L, X)[Len(L)], Scan(rest \o tail, M)[Len(rest)])
         /\ Scan(L, M)[Len(L)].want = 0
         /\ Scan(rest \o tail, M)[Len(rest)].want = 0
         /\ Scan(L, M)[Len(L)].pos = dropped \o Scan(rest \o tail, M)[Len(rest)].pos
<1>0. /\ L \in Seq(Token) /\ dropped \in Seq(Token) /\ rest \in Seq(Token) /\ tail \in Seq(Token)
      /\ AllWords(dropped) /\ Given(L, M)
      /\ Scan(L, X)[Len(L)].pos = dropped \o rest
      /\ ~Scan(L, X)[Len(L)].err /\ Scan(L, X)[Len(L)].want = 0
      /\ ~Scan(rest \o tail, M)[Len(rest)].err
  BY DEF TwoScans
<1>. DEFINE N == Len(L)
            line == rest \o tail
            F == Scan(L, M)
            F0 == Scan(L, X)
            A == Scan(line, M)
            d == Len(dropped)
            r == Len(rest)
            p(j) == Len(F0[j].pos)
            q(j) == IF p(j) <= d THEN 0 ELSE p(j) - d
            R(j) == /\ Agree(X, M, F[j], F0[j], A[q(j)])
                    /\ p(j) < d => F[j].pos = F0[j].pos
                    /\ p(j) >= d => F[j].pos = dropped \o A[q(j)].pos
            G == {j \in 0 .. N : R(j)}
<1>1. /\ X \in Seq(OptionDef) /\ M \in Seq(OptionDef)
      /\ N \in Nat /\ d \in Nat /\ r \in Nat
      /\ line \in Seq(Token) /\ Len(line) \in Nat /\ r <= Len(line)
      /\ \A i \in 1 .. r : line[i] = rest[i]
  BY <1>0 DEF Extends
<1>2. /\ F[0] = NothingTaken /\ F0[0] = NothingTaken /\ A[0] = NothingTaken
      /\ \A j \in 0 .. N : F[j] \in Known(M)
      /\ \A j \in 0 .. N : F0[j] \in Known(X)
      /\ \A j \in 0 .. Len(line) : A[j] \in Known(M)
  BY <1>0, <1>1, ScanSteps
<1>3. /\ \A j \in 1 .. N : F[j] = Take(M, F[j - 1], L[j])
      /\ \A j \in 1 .. N : F0[j] = Take(X, F0[j - 1], L[j])
      /\ \A j \in 1 .. Len(line) : A[j] = Take(M, A[j - 1], line[j])
  BY <1>0, <1>1, ScanSteps
<1>4. \A j \in 0 .. N : Later(F0[j], F0[N])
  <2>1. N \in 0 .. Len(L) /\ X \in Seq(OptionDef) /\ L \in Seq(Token)
    BY <1>0, <1>1
  <2>. HIDE DEF N
  <2>. QED BY <2>1, ScanLater
<1>5. \A j \in 0 .. r : Later(A[j], A[r])
  <2>1. r \in 0 .. Len(line)
    BY <1>1
  <2>. HIDE DEF line, r
  <2>. QED BY <1>1, <2>1, ScanLater
<1>6. \A j \in 0 .. N : F[j].want # 0 /\ ~F[j].err => j \in 1 .. N /\ TakesValue(M, L[j])
  BY <1>0, <1>1, WantsAfter
<1>7. F0[N].pos = dropped \o rest /\ ~F0[N].err /\ F0[N].want = 0 /\ ~A[r].err
  BY <1>0
<1>8. /\ Len(dropped \o rest) = d + r
      /\ \A i \in 1 .. d : (dropped \o rest)[i] = dropped[i]
      /\ \A i \in d + 1 .. d + r : (dropped \o rest)[i] = rest[i - d]
  BY <1>0, <1>1
<1>9. \A j \in 0 .. N : F0[j].pos \in Seq(Token) /\ p(j) \in Nat /\ F[j].pos \in Seq(Token)
  BY <1>2 DEF Known
<1>10. \A j \in 0 .. Len(line) : A[j].pos \in Seq(Token)
  BY <1>2 DEF Known
<1>. HIDE DEF F, F0, A, line, N, r, d
<1>11. ASSUME NEW j \in 0 .. N
       PROVE  /\ p(j) <= d + r
              /\ \A i \in 1 .. p(j) : F0[j].pos[i] = (dropped \o rest)[i]
              /\ ~F0[j].err /\ q(j) \in 0 .. r /\ ~A[q(j)].err
  <2>1. p(j) <= d + r /\ (\A i \in 1 .. p(j) : F0[j].pos[i] = (dropped \o rest)[i]) /\ ~F0[j].err
    BY <1>4, <1>7, <1>8 DEF Later
  <2>2. q(j) \in 0 .. r
    BY <2>1, <1>1, <1>9
  <2>3. ~A[q(j)].err
    BY <2>2, <1>5, <1>7 DEF Later
  <2>. QED BY <2>1, <2>2, <2>3
<1>12. 0 \in G
  <2>1. p(0) = 0 /\ q(0) = 0
    BY <1>1, <1>2 DEF NothingTaken
  <2>2. F[0].pos = <<>> /\ F0[0].pos = <<>> /\ A[0].pos = <<>>
    BY <1>2 DEF NothingTaken
  <2>3. d = 0 => dropped \o <<>> = <<>>
    BY <1>0 DEF d
  <2>4. Merge(<<>>, <<>>) = <<>>
    BY DEF Merge
  <2>5. Agree(X, M, NothingTaken, NothingTaken, NothingTaken)
    <3>1. NothingTaken.want = 0 /\ ~NothingTaken.err /\ NothingTaken.opts = <<>>
      BY DEF NothingTaken
    <3>2. NothingTaken \in Known(M) /\ NothingTaken \in Known(X)
      BY <1>1, <1>2
    <3>3. DOMAIN NothingTaken.opts = {}
      BY <3>1
    <3>. HIDE DEF NothingTaken
    <3>. QED BY <2>4, <3>1, <3>2, <3>3 DEF Agree
  <2>6. R(0)
    <3>1. Agree(X, M, F[0], F0[0], A[q(0)])
      BY <1>2, <2>1, <2>5
    <3>2. p(0) < d => F[0].pos = F0[0].pos
      BY <2>2
    <3>3. p(0) >= d => F[0].pos = dropped \o A[q(0)].pos
      BY <1>1, <2>1, <2>2, <2>3
    <3>. QED BY <3>1, <3>2, <3>3
  <2>. QED BY <1>1, <2>6
<1>13. ASSUME NEW j \in 0 .. N, j < N, j \in G PROVE j + 1 \in G
  <2>. DEFINE t == L[j + 1]
  <2>1. j + 1 \in 1 .. N /\ j + 1 \in 0 .. N /\ t \in Token
    BY <1>0, <1>1, <1>13 DEF N
  <2>2. F[j + 1] = Take(M, F[j], t) /\ F0[j + 1] = Take(X, F0[j], t)
    BY <1>1, <1>3, <2>1
  <2>3. /\ Agree(X, M, F[j], F0[j], A[q(j)])
        /\ p(j) < d => F[j].pos = F0[j].pos
        /\ p(j) >= d => F[j].pos = dropped \o A[q(j)].pos
    BY <1>13
  <2>4. F[j].want # 0 => Lookup(M, t) = 0
    <3>1. ~F[j].err
      BY <2>3 DEF Agree
    <3>. QED BY <3>1, <1>0, <1>6, <1>13 DEF N, Given
  <2>5. ~F0[j + 1].err /\ q(j + 1) \in 0 .. r /\ ~A[q(j + 1)].err
    BY <2>1, <1>11
  <2>. HIDE DEF t, p, q
  <2>6. CASE F0[j].want # 0 \/ Lookup(X, t) # 0
    <3>1. /\ Agree(X, M, F[j + 1], F0[j + 1], A[q(j)])
          /\ F[j + 1].pos = F[j].pos /\ F0[j + 1].pos = F0[j].pos
      BY <2>1, <2>2, <2>3, <2>4, <2>5, <2>6, LowerTakes
    <3>2. p(j + 1) = p(j) /\ q(j + 1) = q(j)
      BY <3>1 DEF p, q
    <3>. QED BY <2>1, <2>3, <3>1, <3>2
  <2>7. CASE F0[j].want = 0 /\ Lookup(X, t) = 0
    <3>1. F0[j + 1].pos = Append(F0[j].pos, t)
      <4>1. F0[j] \in Known(X) /\ X \in Seq(OptionDef) /\ ~F0[j].err
        BY <1>1, <1>2, <1>11
      <4>2. Take(X, F0[j], t) = [pos |-> Append(F0[j].pos, t), opts |-> F0[j].opts, want |-> 0, err |-> FALSE]
        BY <2>1, <2>7, <4>1, TakeCases
      <4>. QED BY <2>2, <4>2
    <3>2. p(j + 1) = p(j) + 1 /\ F0[j + 1].pos[p(j) + 1] = t /\ p(j) \in Nat
      BY <1>9, <3>1 DEF p
    <3>3. p(j) + 1 <= d + r /\ t = (dropped \o rest)[p(j) + 1]
      <4>1. p(j + 1) <= d + r /\ \A i \in 1 .. p(j + 1) : F0[j + 1].pos[i] = (dropped \o rest)[i]
        BY <2>1, <1>11
      <4>2. p(j) + 1 \in 1 .. p(j + 1)
        BY <3>2
      <4>. QED BY <3>2, <4>1, <4>2
    <3>4. CASE p(j) < d
      <4>1. q(j) = 0 /\ q(j + 1) = 0
        BY <1>1, <3>2, <3>4 DEF q
      <4>2. p(j) + 1 \in 1 .. d
        BY <1>1, <3>2, <3>4
      <4>3. t = dropped[p(j) + 1] /\ t.k = "word"
        BY <3>3, <4>2, <1>0, <1>8 DEF d, AllWords
      <4>4. A[0].want = 0 /\ A[0].pos = <<>>
        BY <1>2 DEF NothingTaken
      <4>5. /\ Agree(X, M, F[j + 1], F0[j + 1], A[0])
            /\ F[j + 1].pos = Append(F[j].pos, t)
        <5>1. Agree(X, M, F[j], F0[j], A[0])
          BY <2>3, <4>1
        <5>. DEFINE f == F[j]
                    f0 == F0[j]
                    a == A[0]
        <5>2. t \in Token /\ t.k = "word" /\ Agree(X, M, f, f0, a) /\ f0.want = 0 /\ a.want = 0
          BY <2>1, <2>7, <4>3, <4>4, <5>1
        <5>. HIDE DEF f, f0, a
        <5>3. /\ Agree(X, M, Take(M, f, t), Take(X, f0, t), a)
              /\ Take(M, f, t).pos = Append(f.pos, t)
          BY <5>2, WordPasses
        <5>. QED BY <2>2, <5>3 DEF f, f0, a
      <4>6. F[j + 1].pos = F0[j + 1].pos
        BY <2>3, <3>1, <3>4, <4>5
      <4>7. ASSUME p(j + 1) >= d PROVE F0[j + 1].pos = dropped \o <<>>
        <5>1. p(j + 1) = d
          BY <1>1, <3>2, <3>4, <4>7
        <5>2. \A i \in 1 .. d : F0[j + 1].pos[i] = dropped[i]
          BY <2>1, <5>1, <1>8, <1>11
        <5>3. F0[j + 1].pos \in Seq(Token) /\ Len(F0[j + 1].pos) = Len(dropped)
          BY <2>1, <5>1, <1>9 DEF p, d
        <5>4. F0[j + 1].pos = dropped
          BY <1>0, <5>2, <5>3, SameSequence DEF d
        <5>. QED BY <1>0, <5>4
      <4>. QED BY <2>1, <4>1, <4>4, <4>5, <4>6, <4>7
    <3>5. CASE p(j) >= d
      <4>1. q(j) = p(j) - d /\ q(j + 1) = q(j) + 1
        BY <1>1, <3>2, <3>5 DEF q
      <4>2. q(j) + 1 \in 1 .. r /\ q(j) + 1 \in 1 .. Len(line) /\ q(j) \in 0 .. Len(line)
        <5>. DEFINE pj == p(j)
                    qj == q(j)
                    len == Len(line)
        <5>1. pj \in Nat /\ d \in Nat /\ r \in Nat /\ len \in Nat /\ r <= len
          BY <1>1, <3>2
        <5>2. pj + 1 <= d + r /\ pj >= d /\ qj = pj - d
          BY <3>3, <3>5, <4>1
        <5>. HIDE DEF pj, qj, len
        <5>3. qj \in Nat /\ qj + 1 <= r
          BY <5>1, <5>2
        <5>4. qj + 1 \in 1 .. r /\ qj + 1 \in 1 .. len /\ qj \in 0 .. len
          BY <5>1, <5>3
        <5>. QED BY <5>4 DEF qj, len
      <4>3. (dropped \o rest)[p(j) + 1] = rest[q(j) + 1]
        <5>1. p(j) + 1 \in d + 1 .. d + r /\ (p(j) + 1) - d = q(j) + 1
          <6>. DEFINE pj == p(j)
                      qj == q(j)
          <6>1. pj \in Nat /\ d \in Nat /\ r \in Nat /\ pj + 1 <= d + r /\ pj >= d /\ qj = pj - d
            BY <1>1, <3>2, <3>3, <3>5, <4>1
          <6>. HIDE DEF pj, qj
          <6>2. pj + 1 \in d + 1 .. d + r /\ (pj + 1) - d = qj + 1
            BY <6>1
          <6>. QED BY <6>2 DEF pj, qj
        <5>. DEFINE k == p(j) + 1
        <5>2. k \in d + 1 .. d + r /\ k - d = q(j) + 1
          BY <5>1
        <5>. HIDE DEF k
        <5>3. (dropped \o rest)[k] = rest[k - d]
          BY <5>2, <1>8
        <5>. QED BY <5>2, <5>3 DEF k
      <4>4. line[q(j) + 1] = t
        BY <1>1, <3>3, <4>2, <4>3
      <4>5. A[q(j) + 1] = Take(M, A[q(j)], t)
        BY <1>3, <4>2, <4>4
      <4>6. /\ Agree(X, M, F[j + 1], F0[j + 1], A[q(j + 1)])
            /\ \/ F[j + 1].pos = F[j].pos /\ A[q(j + 1)].pos = A[q(j)].pos
               \/ F[j + 1].pos = Append(F[j].pos, t) /\ A[q(j + 1)].pos = Append(A[q(j)].pos, t)
        <5>1. Agree(X, M, F[j], F0[j], A[q(j)]) /\ ~Take(M, A[q(j)], t).err
          BY <2>3, <2>5, <4>1, <4>5
        <5>2. A[q(j + 1)] = Take(M, A[q(j)], t)
          BY <4>1, <4>5
        <5>. HIDE DEF Agree
        <5>3. /\ Agree(X, M, Take(M, F[j], t), Take(X, F0[j], t), Take(M, A[q(j)], t))
              /\ \/ Take(M, F[j], t).pos = F[j].pos /\ Take(M, A[q(j)], t).pos = A[q(j)].pos
                 \/ Take(M, F[j], t).pos = Append(F[j].pos, t) /\ Take(M, A[q(j)], t).pos = Append(A[q(j)].pos, t)
          <6>. DEFINE f == F[j]
                      f0 == F0[j]
                      a == A[q(j)]
          <6>1. t \in Token /\ Agree(X, M, f, f0, a) /\ f0.want = 0 /\ Lookup(X, t) = 0 /\ ~Take(M, a, t).err
            BY <2>1, <2>7, <5>1
          <6>. HIDE DEF f, f0, a
          <6>2. /\ Agree(X, M, Take(M, f, t), Take(X, f0, t), Take(M, a, t))
                /\ \/ Take(M, f, t).pos = f.pos /\ Take(M, a, t).pos = a.pos
                   \/ Take(M, f, t).pos = Append(f.pos, t) /\ Take(M, a, t).pos = Append(a.pos, t)
            BY <6>1, UpperTakes
          <6>. QED BY <6>2 DEF f, f0, a
        <5>. QED BY <2>2, <5>2, <5>3
      <4>7. A[q(j)].pos \in Seq(Token)
        BY <1>10, <4>2
      <4>8. Append(dropped \o A[q(j)].pos, t) = dropped \o Append(A[q(j)].pos, t)
        BY <1>0, <2>1, <4>7, AppendLast
      <4>9. F[j + 1].pos = dropped \o A[q(j + 1)].pos
        BY <2>3, <3>5, <4>6, <4>8
      <4>10. p(j + 1) >= d
        BY <1>1, <3>2, <3>5
      <4>11. ~(p(j + 1) < d)
        BY <1>1, <3>2, <4>10
      <4>. QED BY <2>1, <4>6, <4>9, <4>11
    <3>. QED BY <1>1, <3>2, <3>4, <3>5
  <2>. QED BY <2>6, <2>7
<1>14. N \in G
  <2>1. 0 .. N \subseteq G
    <3>. HIDE DEF G
    <3>. QED BY <1>1, <1>12, <1>13, UpTo
  <2>. QED BY <2>1, <1>1
<1>15. p(N) = d + r /\ q(N) = r
  <2>1. p(N) = d + r
    BY <1>7, <1>8
  <2>2. q(N) = IF d + r <= d THEN 0 ELSE (d + r) - d
    BY <2>1
  <2>. HIDE DEF p, q
  <2>. QED BY <1>1, <2>1, <2>2
<1>16. Agree(X, M, F[N], F0[N], A[r]) /\ F[N].pos = dropped \o A[r].pos
  <2>1. R(N)
    BY <1>14
  <2>2. Agree(X, M, F[N], F0[N], A[q(N)]) /\ (p(N) >= d => F[N].pos = dropped \o A[q(N)].pos)
    BY <2>1
  <2>. HIDE DEF p, q
  <2>. QED BY <1>1, <1>15, <2>2
<1>17. F[N].want = 0 /\ ~F[N].err
  <2>1. ~F[N].err
    BY <1>16 DEF Agree
  <2>2. ASSUME F[N].want # 0 PROVE FALSE
    <3>1. N \in 1 .. N /\ TakesValue(M, L[N])
      BY <1>1, <1>6, <2>1, <2>2
    <3>2. N < N
      BY <1>0, <3>1 DEF N, Given
    <3>. QED BY <1>1, <3>2
  <2>. QED BY <2>1, <2>2
<1>18. A[r].want = 0
  BY <1>7, <1>16, <1>17 DEF Agree
<1>. QED BY <1>16, <1>17, <1>18 DEF F, F0, A, line, N, r

-----------------------------------------------------------------------------
(* Extracting the options                                                  *)

\* What extracting the options returns.
LEMMA ExtractParts ==
  ASSUME NEW line \in Seq(Token), NEW map \in Seq(OptionDef)
  PROVE  /\ Extract(line, map).pos = Scan(line, map)[Len(line)].pos
         /\ Extract(line, map).opts = Scan(line, map)[Len(line)].opts
         /\ Extract(line, map).err <=>
              Scan(line, map)[Len(line)].err \/ Scan(line, map)[Len(line)].want # 0
         /\ Extract(line, map).pos \in Seq(Token)
         /\ Extract(line, map).opts \in Opts
<1>. DEFINE end == Scan(line, map)[Len(line)]
<1>1. end \in Known(map)
  <2>1. Len(line) \in 0 .. Len(line)
    OBVIOUS
  <2>. QED BY <2>1, ScanSteps
<1>. DEFINE bad == end.err \/ end.want # 0
<1>2. Extract(line, map) = [pos |-> end.pos, opts |-> end.opts, err |-> bad]
  BY DEF Extract
<1>. HIDE DEF end, bad
<1>3. end.pos \in Seq(Token) /\ end.opts \in Opts
  BY <1>1 DEF Known
<1>4. /\ Extract(line, map).pos = end.pos /\ Extract(line, map).opts = end.opts
      /\ Extract(line, map).err = bad
  BY <1>2
<1>. QED BY <1>3, <1>4 DEF end, bad

\* --help is the first option of every map and takes no value.
LEMMA HelpFirst ==
  ASSUME NEW map \in Seq(OptionDef), map # <<>>, map[1] = HelpOption, NEW t \in Token, IsHelp(t)
  PROVE  Lookup(map, t) = 1 /\ ~TakesValue(map, t)
<1>1. 1 \in 1 .. Len(map)
  OBVIOUS
<1>2. Names(t, map[1])
  BY DEF Names, IsHelp, HelpToken, HelpOption
<1>3. Lookup(map, t) = 1
  BY <1>1, <1>2, LookupFinds
<1>. QED BY <1>3 DEF TakesValue, HelpOption

\* A request for help that is no value is known from then on.
LEMMA HelpStored ==
  ASSUME NEW line \in Seq(Token), NEW map \in Seq(OptionDef), map # <<>>, map[1] = HelpOption,
         NEW n \in 1 .. Len(line), IsHelp(line[n]),
         Scan(line, map)[n - 1].want = 0, ~Scan(line, map)[n - 1].err
  PROVE  /\ "help" \in DOMAIN Scan(line, map)[Len(line)].opts
         /\ Scan(line, map)[n].pos = Scan(line, map)[n - 1].pos
<1>. DEFINE acc == Scan(line, map)[n - 1]
            nxt == Scan(line, map)[n]
<1>1. n - 1 \in 0 .. Len(line) /\ n \in 0 .. Len(line) /\ Len(line) \in 0 .. Len(line) /\ n \in 0 .. Len(line)
  OBVIOUS
<1>2. line[n] \in Token
  OBVIOUS
<1>3. acc \in Known(map) /\ nxt = Take(map, acc, line[n])
  BY <1>1, ScanSteps
<1>4. Lookup(map, line[n]) = 1 /\ ~TakesValue(map, line[n])
  BY <1>2, HelpFirst
<1>5. acc.want = 0 /\ ~acc.err
  OBVIOUS
<1>. HIDE DEF acc, nxt
<1>6. nxt = [pos |-> acc.pos, opts |-> Store(acc.opts, map[1], <<>>), want |-> 0, err |-> FALSE]
  <2>. DEFINE t == line[n]
  <2>1. t \in Token /\ Lookup(map, t) # 0 /\ ~TakesValue(map, t)
    BY <1>2, <1>4
  <2>2. nxt = Take(map, acc, t) /\ Lookup(map, t) = 1
    BY <1>3, <1>4
  <2>. HIDE DEF t
  <2>3. Take(map, acc, t) = [pos |-> acc.pos, opts |-> Store(acc.opts, map[Lookup(map, t)], <<>>),
                             want |-> 0, err |-> FALSE]
    BY <1>3, <1>5, <2>1, TakeCases
  <2>. QED BY <2>2, <2>3
<1>7. "help" \in DOMAIN Store(acc.opts, map[1], <<>>)
  BY DEF Store, HelpOption
<1>8. Later(nxt, Scan(line, map)[Len(line)])
  BY <1>1, ScanLater DEF nxt
<1>9. nxt.pos = acc.pos /\ nxt.opts = Store(acc.opts, map[1], <<>>)
  BY <1>6
<1>. QED BY <1>7, <1>8, <1>9 DEF Later, acc, nxt

\* Then a request for help is never taken for a value.
LEMMA HelpFound ==
  ASSUME NEW line \in Seq(Token), NEW map \in Seq(OptionDef), map # <<>>, map[1] = HelpOption,
         Given(line, map), ~Extract(line, map).err,
         NEW n \in 1 .. Len(line), IsHelp(line[n])
  PROVE  "help" \in DOMAIN Extract(line, map).opts
<1>1. n - 1 \in 0 .. Len(line) /\ Len(line) \in 0 .. Len(line) /\ n - 1 \in 0 .. Len(line) /\ line[n] \in Token
  OBVIOUS
<1>2. ~Scan(line, map)[n - 1].err
  <2>1. ~Scan(line, map)[Len(line)].err
    BY ExtractParts
  <2>2. Later(Scan(line, map)[n - 1], Scan(line, map)[Len(line)])
    BY <1>1, ScanLater
  <2>. QED BY <2>1, <2>2 DEF Later
<1>3. Scan(line, map)[n - 1].want = 0
  <2>1. SUFFICES ASSUME Scan(line, map)[n - 1].want # 0 PROVE FALSE
    OBVIOUS
  <2>2. n - 1 \in 1 .. Len(line) /\ TakesValue(map, line[n - 1])
    BY <1>1, <1>2, <2>1, WantsAfter
  <2>3. Lookup(map, line[(n - 1) + 1]) = 0
    BY <2>2 DEF Given
  <2>. QED BY <1>1, <2>3, HelpFirst
<1>. QED BY <1>2, <1>3, HelpStored, ExtractParts

\* What is given for more options is given for fewer.
LEMMA GivenBelow ==
  ASSUME NEW X, NEW M, Extends(M, X), NEW line \in Seq(Token), Given(line, M)
  PROVE  Given(line, X)
<1>1. ASSUME NEW i \in 1 .. Len(line), TakesValue(X, line[i])
      PROVE  i < Len(line) /\ Lookup(X, line[i + 1]) = 0
  <2>1. line[i] \in Token
    OBVIOUS
  <2>2. TakesValue(M, line[i])
    BY <1>1, <2>1, LookupGrows DEF TakesValue
  <2>3. i < Len(line) /\ Lookup(M, line[i + 1]) = 0
    BY <2>2 DEF Given
  <2>4. line[i + 1] \in Token
    BY <2>3
  <2>. QED BY <2>3, <2>4, LookupGrows
<1>. QED BY <1>1 DEF Given

\* --help is a token of the line.
LEMMA HelpIsToken == HelpToken \in Token /\ IsHelp(HelpToken)
<1>3. HelpToken \in Token
  BY ParserAssumption DEF HelpToken, Token
<1>2. IsHelp(HelpToken)
  BY DEF IsHelp
<1>. QED BY <1>2, <1>3

\* What is put again at the end of the line: --help or nothing.
AgainHelp(tail) == tail = <<>> \/ tail = <<HelpToken>>

\* The options X of a parent take from L all but the words that are dropped and
\* the rest, from which, with the tail, its child takes its own options M.
Leaves(X, M, L, dropped, rest, tail) ==
  /\ Extends(M, X) /\ X # <<>> /\ X[1] = HelpOption
  /\ L \in Seq(Token) /\ Given(L, M)
  /\ dropped \in Seq(Token) /\ AllWords(dropped)
  /\ rest \in Seq(Token) /\ tail \in Seq(Token) /\ AgainHelp(tail)
  /\ ~Extract(L, X).err /\ Extract(L, X).pos = dropped \o rest
  /\ ~Extract(rest \o tail, M).err

\* A command finds in what its parent left of the line, with --help put again if
\* it was asked for, what one pass with all its options finds beyond its parent.
LEMMA ChildAgrees ==
  ASSUME NEW X, NEW M, NEW L, NEW dropped, NEW rest, NEW tail,
         Leaves(X, M, L, dropped, rest, tail)
  PROVE  /\ ~Extract(L, M).err
         /\ Extract(L, M).pos = dropped \o Extract(rest \o tail, M).pos
         /\ tail = <<>> => Extract(L, M).opts = Merge(Extract(L, X).opts, Extract(rest \o tail, M).opts)
         /\ tail # <<>> => "help" \in DOMAIN Extract(rest \o tail, M).opts
<1>. SUFFICES ASSUME Extends(M, X), X # <<>>, X[1] = HelpOption,
                     L \in Seq(Token), Given(L, M),
                     dropped \in Seq(Token), AllWords(dropped),
                     rest \in Seq(Token), tail \in Seq(Token), AgainHelp(tail),
                     ~Extract(L, X).err, Extract(L, X).pos = dropped \o rest,
                     ~Extract(rest \o tail, M).err
              PROVE  /\ ~Extract(L, M).err
                     /\ Extract(L, M).pos = dropped \o Extract(rest \o tail, M).pos
                     /\ tail = <<>> => Extract(L, M).opts = Merge(Extract(L, X).opts, Extract(rest \o tail, M).opts)
                     /\ tail # <<>> => "help" \in DOMAIN Extract(rest \o tail, M).opts
  BY DEF Leaves
<1>. DEFINE line == rest \o tail
            r == Len(rest)
            A == Scan(line, M)
<1>1. /\ X \in Seq(OptionDef) /\ M \in Seq(OptionDef) /\ M # <<>> /\ M[1] = HelpOption
  <2>1. X \in Seq(OptionDef) /\ M \in Seq(OptionDef) /\ Len(X) <= Len(M)
        /\ \A i \in 1 .. Len(X) : M[i] = X[i]
    BY DEF Extends
  <2>2. 1 \in 1 .. Len(X) /\ Len(M) \in Nat /\ Len(X) \in Nat /\ 1 <= Len(X)
    BY <2>1
  <2>3. M[1] = HelpOption /\ Len(M) # 0
    BY <2>1, <2>2
  <2>4. M # <<>>
    BY <2>1, <2>3
  <2>. QED BY <2>1, <2>3, <2>4
<1>2. HelpToken \in Token /\ IsHelp(HelpToken)
  BY HelpIsToken
<1>3. tail \in Seq(Token) /\ line \in Seq(Token) /\ r \in Nat /\ Len(line) \in Nat /\ r <= Len(line)
  <2>1. tail \in Seq(Token)
    OBVIOUS
  <2>. QED BY <2>1
<1>4. r \in 0 .. Len(line) /\ Len(line) \in 0 .. Len(line)
  BY <1>3
<1>5. ~A[Len(line)].err /\ A[Len(line)].want = 0
  BY <1>1, <1>3, ExtractParts
<1>6. ~A[r].err
  <2>1. Later(A[r], A[Len(line)])
    <3>. HIDE DEF line, r
    <3>. QED BY <1>1, <1>3, <1>4, ScanLater
  <2>. QED BY <2>1, <1>5 DEF Later
<1>7. /\ Scan(L, X)[Len(L)].pos = dropped \o rest /\ ~Scan(L, X)[Len(L)].err /\ Scan(L, X)[Len(L)].want = 0
      /\ Extract(L, X).opts = Scan(L, X)[Len(L)].opts
  BY <1>1, ExtractParts
<1>9. /\ Agree(X, M, Scan(L, M)[Len(L)], Scan(L, X)[Len(L)], A[r])
      /\ Scan(L, M)[Len(L)].want = 0 /\ A[r].want = 0
      /\ Scan(L, M)[Len(L)].pos = dropped \o A[r].pos
  <2>2. tail \in Seq(Token) /\ Extends(M, X)
    BY <1>3
  <2>3. ~Scan(rest \o tail, M)[Len(rest)].err
    BY <1>6
  <2>4. /\ Agree(X, M, Scan(L, M)[Len(L)], Scan(L, X)[Len(L)], Scan(rest \o tail, M)[Len(rest)])
        /\ Scan(L, M)[Len(L)].want = 0
        /\ Scan(rest \o tail, M)[Len(rest)].want = 0
        /\ Scan(L, M)[Len(L)].pos = dropped \o Scan(rest \o tail, M)[Len(rest)].pos
    <3>1. /\ Scan(L, X)[Len(L)].pos = dropped \o rest
          /\ ~Scan(L, X)[Len(L)].err /\ Scan(L, X)[Len(L)].want = 0
      BY <1>7
    <3>2. TwoScans(X, M, L, dropped, rest, tail)
      BY <2>2, <2>3, <3>1 DEF TwoScans
    <3>. HIDE DEF A, line, r
    <3>. QED BY <2>2, <3>2, OneLevelMore
  <2>. QED BY <2>4
<1>10. ~Extract(L, M).err /\ Extract(L, M).pos = dropped \o A[r].pos
       /\ Extract(L, M).opts = Merge(Extract(L, X).opts, A[r].opts)
  <2>1. ~Scan(L, M)[Len(L)].err /\ Scan(L, M)[Len(L)].opts = Merge(Scan(L, X)[Len(L)].opts, A[r].opts)
    BY <1>9 DEF Agree
  <2>. QED BY <1>1, <1>7, <1>9, <2>1, ExtractParts
<1>11. Extract(line, M).pos = A[Len(line)].pos /\ Extract(line, M).opts = A[Len(line)].opts
  BY <1>1, <1>3, ExtractParts
<1>12. CASE tail = <<>>
  <2>1. line = rest
    BY <1>12
  <2>. QED BY <1>10, <1>11, <1>12, <2>1
<1>13. CASE tail = <<HelpToken>>
  <2>1. Len(line) = r + 1 /\ line[r + 1] = HelpToken
    BY <1>2, <1>13
  <2>2. r + 1 \in 1 .. Len(line) /\ (r + 1) - 1 = r /\ IsHelp(line[r + 1])
    BY <1>2, <1>3, <2>1
  <2>3. "help" \in DOMAIN A[Len(line)].opts /\ A[r + 1].pos = A[r].pos
    <3>. DEFINE n == r + 1
    <3>1. line \in Seq(Token) /\ n \in 1 .. Len(line) /\ IsHelp(line[n])
      BY <1>3, <2>2
    <3>2. n - 1 = r
      BY <2>2
    <3>. HIDE DEF r, line, n
    <3>3. Scan(line, M)[n - 1].want = 0 /\ ~Scan(line, M)[n - 1].err
      BY <1>6, <1>9, <3>2
    <3>4. "help" \in DOMAIN Scan(line, M)[Len(line)].opts /\ Scan(line, M)[n].pos = Scan(line, M)[n - 1].pos
      BY <1>1, <3>1, <3>3, HelpStored
    <3>. QED BY <3>2, <3>4 DEF n
  <2>4. A[Len(line)].pos = A[r].pos
    BY <2>1, <2>3
  <2>5. tail # <<>>
    BY <1>13
  <2>. HIDE DEF A, line
  <2>. QED BY <1>10, <1>11, <2>3, <2>4, <2>5 DEF A, line
<1>. QED BY <1>12, <1>13 DEF AgainHelp
-----------------------------------------------------------------------------
(* The commands of the path                                                *)

\* No command of pth declares an option of one above it, or --help, again.
Unshadowed(pth) ==
  \A j \in DOMAIN pth :
    /\ HelpOption.name \notin OptionNames(pth[j])
    /\ \A i \in 1 .. j - 1 : OptionNames(pth[i]) \cap OptionNames(pth[j]) = {}

\* The names of the options known above the last command of pth.
NamedAbove(inh, pth) ==
  /\ inh # <<>> /\ inh[1] = HelpOption
  /\ \A i \in 1 .. Len(inh) : i # 1 =>
       \E j \in 1 .. Len(pth) - 1 : inh[i].name \in OptionNames(pth[j]) /\ inh[i].key \in OptionNames(pth[j])

\* The options of the last command of pth come after those known above it.
LEMMA MapGrows ==
  ASSUME NEW pth \in Seq(Commands), pth # <<>>, Unshadowed(pth),
         NEW inh \in Seq(OptionDef), NamedAbove(inh, pth)
  PROVE  /\ Extends(BuildOptionMap(pth[Len(pth)], inh), inh)
         /\ \A c \in Commands : NamedAbove(BuildOptionMap(pth[Len(pth)], inh), Append(pth, c))
<1>. DEFINE n == Len(pth)
            c == pth[n]
            D == OwnOptions(c)
            M == BuildOptionMap(c, inh)
<1>1. n \in Nat /\ n \in 1 .. n /\ n \in DOMAIN pth /\ c \in Commands
  OBVIOUS
<1>2. Declared(c) \in Seq(D) /\ D \in SUBSET OptionDef
  BY <1>1, DeclaredOwn DEF OwnOptions
<1>3. /\ HelpOption.name \notin OptionNames(c)
      /\ \A j \in 1 .. n - 1 : OptionNames(pth[j]) \cap OptionNames(c) = {}
  BY <1>1 DEF Unshadowed
<1>4. ASSUME NEW i \in 1 .. Len(inh)
      PROVE  inh[i].name \notin OptionNames(c) /\ inh[i].key \notin OptionNames(c)
  <2>1. CASE i = 1
    <3>1. inh[i] = HelpOption /\ HelpOption.key = HelpOption.name
      BY <2>1 DEF NamedAbove, HelpOption
    <3>. QED BY <3>1, <1>3
  <2>2. CASE i # 1
    <3>1. PICK j \in 1 .. n - 1 : inh[i].name \in OptionNames(pth[j]) /\ inh[i].key \in OptionNames(pth[j])
      BY <2>2 DEF NamedAbove
    <3>. QED BY <3>1, <1>3
  <2>. QED BY <2>1, <2>2
<1>5. \A d \in D : d.name \in OptionNames(c) /\ d.key \in OptionNames(c)
  BY DEF OwnOptions
<1>. HIDE DEF D, c, n
<1>6. M \in Grown(inh, D)
  <2>1. \A i \in 1 .. Len(inh), d \in D : inh[i].name # d.name
    BY <1>4, <1>5
  <2>. QED BY <1>2, <2>1, PutAllGrows DEF BuildOptionMap
<1>. HIDE DEF M
<1>7. /\ M \in Seq(OptionDef) /\ Len(inh) <= Len(M) /\ Len(inh) \in Nat /\ Len(M) \in Nat
      /\ \A i \in 1 .. Len(inh) : M[i] = inh[i]
      /\ \A i \in 1 .. Len(M) : i > Len(inh) => M[i] \in D
  BY <1>6 DEF Grown
<1>8. Extends(M, inh)
  <2>1. ASSUME NEW k \in LowKeys(inh), k \in HighKeys(inh, M) PROVE FALSE
    <3>1. PICK i \in 1 .. Len(inh) : k = inh[i].key
      BY DEF LowKeys
    <3>2. PICK j \in Len(inh) + 1 .. Len(M) : k = M[j].key
      BY <2>1 DEF HighKeys
    <3>3. M[j] \in D
      BY <1>7
    <3>. QED BY <3>1, <3>2, <3>3, <1>4, <1>5
  <2>. QED BY <2>1, <1>7 DEF Extends
<1>9. ASSUME NEW b \in Commands PROVE NamedAbove(M, Append(pth, b))
  <2>. DEFINE q == Append(pth, b)
  <2>1. Len(q) - 1 = n /\ \A j \in 1 .. n : q[j] = pth[j]
    BY DEF n
  <2>2. 1 \in 1 .. Len(inh) /\ M[1] = HelpOption /\ M # <<>>
    <3>1. inh # <<>> /\ inh[1] = HelpOption
      BY DEF NamedAbove
    <3>2. 1 \in 1 .. Len(inh)
      BY <3>1
    <3>3. Len(M) # 0
      BY <3>2, <1>7
    <3>. QED BY <3>1, <3>2, <3>3, <1>7
  <2>. HIDE DEF q
  <2>3. ASSUME NEW i \in 1 .. Len(M), i # 1
        PROVE  \E j \in 1 .. n : M[i].name \in OptionNames(q[j]) /\ M[i].key \in OptionNames(q[j])
    <3>1. CASE i \in 1 .. Len(inh)
      <4>1. PICK j \in 1 .. Len(pth) - 1 : inh[i].name \in OptionNames(pth[j]) /\ inh[i].key \in OptionNames(pth[j])
        BY <2>3, <3>1 DEF NamedAbove
      <4>2. j \in 1 .. n
        BY <1>1, <4>1 DEF n
      <4>3. M[i] = inh[i] /\ q[j] = pth[j]
        BY <3>1, <1>7, <2>1, <4>2
      <4>. QED BY <4>1, <4>2, <4>3
    <3>2. CASE i > Len(inh)
      <4>1. M[i].name \in OptionNames(c) /\ M[i].key \in OptionNames(c)
        BY <3>2, <1>5, <1>7
      <4>2. c = q[n]
        BY <1>1, <2>1 DEF c
      <4>. QED BY <1>1, <4>1, <4>2
    <3>. QED BY <3>1, <3>2, <1>7
  <2>. QED BY <2>1, <2>2, <2>3 DEF NamedAbove, q
<1>. QED BY <1>8, <1>9 DEF M, c, n

\* What preProcess makes of a command line is one.
LEMMA PreProcessed ==
  ASSUME NEW line \in Argvs
  PROVE  PreProcess(line) \in Seq(Token)
<1>1. line \in Seq(Token) /\ \A i \in DOMAIN line : UrlParts(line[i]) \in Seq(Token)
  BY ParserAssumption
<1>2. \A w \in Text : Word(w) \in Token
  BY DEF Word, Token
<1>3. Word("start") \in Token
  BY <1>2, ParserAssumption
<1>. DEFINE I == {i \in 1 .. Len(line) : line[i].k = "at"}
            at == SelectInSeq(line, LAMBDA t : t.k = "at")
<1>4. at = IF I # {} THEN Min(I) ELSE 0
  BY DEF SelectInSeq
<1>5. at = 0 \/ at \in 1 .. Len(line)
  <2>1. I \in SUBSET Nat /\ I \subseteq 1 .. Len(line)
    OBVIOUS
  <2>. HIDE DEF I
  <2>. QED BY <1>4, <2>1, MinIsLeast
<1>6. PreProcess(line) =
        CASE line = <<>>          -> <<Word("start")>>
          [] at # 0               -> ReplaceAt(InsertAt(line, at, Word("start")), at + 1, Word(line[at].v))
          [] at = 0 /\ line # <<>> /\ line[1].k = "url" -> UrlParts(line[1]) \o Tail(line)
          [] OTHER                -> line
  BY DEF PreProcess
<1>. HIDE DEF at
<1>7. CASE line = <<>>
  <2>1. PreProcess(line) = <<Word("start")>>
    BY <1>1, <1>4, <1>5, <1>6, <1>7
  <2>. QED BY <2>1, <1>3
<1>8. CASE line # <<>> /\ at # 0
  <2>1. PreProcess(line) = ReplaceAt(InsertAt(line, at, Word("start")), at + 1, Word(line[at].v))
    BY <1>6, <1>8
  <2>2. Word(line[at].v) \in Token
    <3>1. line[at] \in Token
      BY <1>1, <1>5, <1>8
    <3>2. line[at].v \in Text
      BY <3>1 DEF Token
    <3>. QED BY <3>2, <1>2
  <2>. DEFINE w == Word("start")
              v == Word(line[at].v)
              a == SubSeq(line, 1, at - 1)
              b == SubSeq(line, at, Len(line))
              m == a \o <<w>> \o b
  <2>3. a \in Seq(Token) /\ b \in Seq(Token) /\ <<w>> \in Seq(Token)
    BY <1>1, <1>3, <1>5, <1>8
  <2>6. Len(a) = at - 1 /\ Len(b) = Len(line) - at + 1
    BY <1>1, <1>5, <1>8
  <2>. HIDE DEF a, b, w, v
  <2>4. m \in Seq(Token)
    BY <2>3
  <2>5. ReplaceAt(m, at + 1, v) \in Seq(Token)
    <3>. HIDE DEF m
    <3>1. v \in Token
      BY <2>2 DEF v
    <3>2. ReplaceAt(m, at + 1, v) = [m EXCEPT ![at + 1] = v]
      BY DEF ReplaceAt
    <3>3. at + 1 \in 1 .. Len(m)
      <4>1. Len(m) = Len(a) + 1 + Len(b)
        BY <2>3 DEF m
      <4>2. Len(line) \in Nat /\ at \in 1 .. Len(line)
        BY <1>1, <1>5, <1>8
      <4>. QED BY <2>6, <4>1, <4>2
    <3>. QED BY <2>4, <3>1, <3>2, <3>3
  <2>. QED BY <2>1, <2>5 DEF InsertAt, a, b, w, v
<1>9. CASE line # <<>> /\ at = 0 /\ line[1].k = "url"
  <2>1. PreProcess(line) = UrlParts(line[1]) \o Tail(line)
    BY <1>6, <1>9
  <2>2. UrlParts(line[1]) \in Seq(Token) /\ Tail(line) \in Seq(Token)
    BY <1>1, <1>9
  <2>. QED BY <2>1, <2>2
<1>10. CASE line # <<>> /\ at = 0 /\ line[1].k # "url"
  BY <1>1, <1>6, <1>10
<1>. QED BY <1>7, <1>8, <1>9, <1>10
-----------------------------------------------------------------------------
(* One pass against the passes of all levels                               *)

\* The words that led down pth.
AnsweredBy(words, pth) == \A i \in 1 .. Len(words) : \E j \in 1 .. Len(pth) : Answers(pth[j], words[i])

\* One pass over the line with M finds what the levels of pth found: their
\* options (low) with those of the last (here), and its words after theirs.
SameAsOnce(line, M, here, low, pth) ==
  /\ ~Extract(line, M).err
  /\ "help" \notin DOMAIN here.opts => Extract(line, M).opts = Merge(low, here.opts)
  /\ \E words \in Seq(Token) : AnsweredBy(words, pth) /\ Extract(line, M).pos = words \o here.pos
  /\ (\E i \in 1 .. Len(line) : IsHelp(line[i])) => "help" \in DOMAIN here.opts

\* Words that lead down a path are no options.
LEMMA AnsweredWords ==
  ASSUME NEW words, NEW pth, AnsweredBy(words, pth)
  PROVE  AllWords(words)
BY DEF AnsweredBy, AllWords, Answers

\* So it is for the root.
LEMMA SameAtRoot ==
  ASSUME NEW line \in Seq(Token), NEW M \in Seq(OptionDef), M # <<>>, M[1] = HelpOption,
         Given(line, M), ~Extract(line, M).err, NEW pth
  PROVE  SameAsOnce(line, M, Extract(line, M), <<>>, pth)
<1>. DEFINE e == Extract(line, M)
<1>1. e.pos \in Seq(Token) /\ e.opts \in Opts
  BY ExtractParts
<1>2. (\E i \in 1 .. Len(line) : IsHelp(line[i])) => "help" \in DOMAIN e.opts
  BY HelpFound
<1>. HIDE DEF e
<1>3. e.opts = Merge(<<>>, e.opts)
  <2>1. PICK K \in SUBSET Text : e.opts \in [K -> Seq(Token)]
    BY <1>1 DEF Opts
  <2>2. Merge(<<>>, e.opts) = [k \in K |-> e.opts[k]]
    BY <2>1 DEF Merge
  <2>. QED BY <2>1, <2>2
<1>4. <<>> \in Seq(Token) /\ AnsweredBy(<<>>, pth) /\ e.pos = <<>> \o e.pos
  BY <1>1 DEF AnsweredBy
<1>5. \E words \in Seq(Token) : AnsweredBy(words, pth) /\ e.pos = words \o e.pos
  BY <1>4
<1>6. ~e.err
  BY DEF e
<1>. QED BY <1>2, <1>3, <1>5, <1>6 DEF SameAsOnce, e

\* Three sequences can be joined in either order.
LEMMA JoinThree ==
  ASSUME NEW a \in Seq(Token), NEW b \in Seq(Token), NEW c \in Seq(Token)
  PROVE  a \o (b \o c) = (a \o b) \o c
<1>. DEFINE s == a \o (b \o c)
            u == (a \o b) \o c
<1>1. s \in Seq(Token) /\ u \in Seq(Token)
  OBVIOUS
<1>2. Len(s) = Len(u)
  <2>1. Len(a) \in Nat /\ Len(b) \in Nat /\ Len(c) \in Nat
    OBVIOUS
  <2>2. Len(s) = Len(a) + (Len(b) + Len(c)) /\ Len(u) = (Len(a) + Len(b)) + Len(c)
    OBVIOUS
  <2>. HIDE DEF s, u
  <2>. QED BY <2>1, <2>2
<1>3. ASSUME NEW i \in 1 .. Len(u) PROVE s[i] = u[i]
  OBVIOUS
<1>. HIDE DEF s, u
<1>4. s = u
  BY <1>1, <1>2, <1>3, SameSequence
<1>. QED BY <1>4 DEF s, u

\* And for a command if it is for its parent.
LEMMA SameBelow ==
  ASSUME NEW line \in Seq(Token), NEW X, NEW M, Extends(M, X), X # <<>>, X[1] = HelpOption, Given(line, M),
         NEW here, here.pos \in Seq(Token), NEW low, NEW pth \in Seq(Commands), NEW c \in Commands,
         SameAsOnce(line, X, here, low, pth),
         NEW w \in Seq(Token), NEW rest \in Seq(Token), here.pos = w \o rest, AnsweredBy(w, Append(pth, c)),
         NEW tail \in Seq(Token), AgainHelp(tail), tail = <<>> <=> "help" \notin DOMAIN here.opts,
         ~Extract(rest \o tail, M).err
  PROVE  SameAsOnce(line, M, Extract(rest \o tail, M), Merge(low, here.opts), Append(pth, c))
<1>. DEFINE e == Extract(rest \o tail, M)
<1>1. PICK words \in Seq(Token) : AnsweredBy(words, pth) /\ Extract(line, X).pos = words \o here.pos
  BY DEF SameAsOnce
<1>. DEFINE dropped == words \o w
<1>2. dropped \in Seq(Token) /\ Len(dropped) = Len(words) + Len(w) /\ Len(words) \in Nat /\ Len(w) \in Nat
      /\ (\A i \in 1 .. Len(words) : dropped[i] = words[i])
      /\ (\A i \in Len(words) + 1 .. Len(words) + Len(w) : dropped[i] = w[i - Len(words)])
  OBVIOUS
<1>3. AnsweredBy(dropped, Append(pth, c))
  <2>. DEFINE q == Append(pth, c)
  <2>1. Len(pth) \in Nat /\ Len(q) = Len(pth) + 1 /\ \A j \in 1 .. Len(pth) : q[j] = pth[j]
    OBVIOUS
  <2>. HIDE DEF dropped, q
  <2>2. ASSUME NEW i \in 1 .. Len(dropped) PROVE \E j \in 1 .. Len(q) : Answers(q[j], dropped[i])
    <3>1. CASE i <= Len(words)
      <4>1. i \in 1 .. Len(words) /\ dropped[i] = words[i]
        BY <1>2, <3>1
      <4>2. PICK j \in 1 .. Len(pth) : Answers(pth[j], words[i])
        BY <1>1, <4>1 DEF AnsweredBy
      <4>. QED BY <2>1, <4>1, <4>2
    <3>2. CASE i > Len(words)
      <4>1. i \in Len(words) + 1 .. Len(words) + Len(w) /\ i - Len(words) \in 1 .. Len(w)
        BY <1>2, <3>2
      <4>2. dropped[i] = w[i - Len(words)]
        BY <1>2, <4>1
      <4>3. AnsweredBy(w, q)
        BY DEF q
      <4>. QED BY <4>1, <4>2, <4>3 DEF AnsweredBy
    <3>. QED BY <3>1, <3>2, <1>2
  <2>3. AnsweredBy(dropped, q)
    BY <2>2 DEF AnsweredBy
  <2>. QED BY <2>3 DEF q
<1>4. AllWords(dropped)
  BY <1>3, AnsweredWords
<1>5. Extract(line, X).pos = dropped \o rest
  <2>1. words \o (w \o rest) = (words \o w) \o rest
    BY <1>1, JoinThree
  <2>2. Extract(line, X).pos = words \o (w \o rest)
    BY <1>1
  <2>. QED BY <2>1, <2>2
<1>6. ~Extract(line, X).err
  BY DEF SameAsOnce
<1>7. /\ ~Extract(line, M).err
      /\ Extract(line, M).pos = dropped \o e.pos
      /\ tail = <<>> => Extract(line, M).opts = Merge(Extract(line, X).opts, e.opts)
      /\ tail # <<>> => "help" \in DOMAIN e.opts
  <2>. HIDE DEF dropped
  <2>1. Leaves(X, M, line, dropped, rest, tail)
    BY <1>2, <1>4, <1>5, <1>6 DEF Leaves
  <2>. QED BY <2>1, ChildAgrees
<1>. HIDE DEF e, dropped
<1>8. ASSUME "help" \notin DOMAIN e.opts
      PROVE  Extract(line, M).opts = Merge(Merge(low, here.opts), e.opts)
  <2>1. tail = <<>> /\ "help" \notin DOMAIN here.opts
    BY <1>7, <1>8
  <2>2. Extract(line, X).opts = Merge(low, here.opts)
    BY <2>1 DEF SameAsOnce
  <2>. QED BY <1>7, <2>1, <2>2
<1>9. ASSUME \E i \in 1 .. Len(line) : IsHelp(line[i]) PROVE "help" \in DOMAIN e.opts
  <2>1. "help" \in DOMAIN here.opts
    BY <1>9 DEF SameAsOnce
  <2>. QED BY <1>7, <2>1
<1>10. \E v \in Seq(Token) : AnsweredBy(v, Append(pth, c)) /\ Extract(line, M).pos = v \o e.pos
  BY <1>2, <1>3, <1>7
<1>. QED BY <1>7, <1>8, <1>9, <1>10 DEF SameAsOnce, e
-----------------------------------------------------------------------------
(* The invariant                                                           *)

\* What is left of the line, the commands entered and what is known of them.
ParserTypes ==
  /\ argv \in Argvs /\ args \in Seq(Token)
  /\ path \in Seq(Commands) /\ path # <<>> /\ node = path[Len(path)]
  /\ inherited \in Seq(OptionDef) /\ options \in Opts

\* The options known above are --help and those of the commands above.
NamesKnown == NoShadowing => NamedAbove(inherited, path)

\* The levels so far and this one find what one pass finds.
LevelsAgree ==
  NoShadowing /\ ValuesGiven /\ ~Ext.err =>
    SameAsOnce(PreProcess(argv), Map, Ext, options, path)

\* What runs is this command, with the options of all levels.
RunsHere ==
  outcome.kind = "run" => ~Ext.err /\ ~HelpAsked /\ ~Stray /\ outcome.opts = Merge(options, Ext.opts)

ParserInv == ParserTypes /\ NamesKnown /\ LevelsAgree /\ RunsHere

\* Merging two tables of values gives one.
LEMMA MergeType ==
  ASSUME NEW o \in Opts, NEW u \in Opts
  PROVE  Merge(o, u) \in Opts
<1>1. PICK K \in SUBSET Text : o \in [K -> Seq(Token)]
  BY DEF Opts
<1>2. PICK L \in SUBSET Text : u \in [L -> Seq(Token)]
  BY DEF Opts
<1>3. Merge(o, u) \in [K \cup L -> Seq(Token)]
  BY <1>1, <1>2 DEF Merge
<1>. QED BY <1>3 DEF Opts

\* The options of a command and of those above it are options.
LEMMA MapType ==
  ASSUME NEW c \in Commands, NEW inh \in Seq(OptionDef)
  PROVE  BuildOptionMap(c, inh) \in Seq(OptionDef)
<1>1. Declared(c) \in Seq(OwnOptions(c)) /\ OwnOptions(c) \in SUBSET OptionDef
  BY DeclaredOwn DEF OwnOptions
<1>. QED BY <1>1, PutAllGrows DEF BuildOptionMap

\* --help is known and no option of the root has its name.
LEMMA HelpAbove ==
  ASSUME NEW c \in Commands
  PROVE  <<HelpOption>> \in Seq(OptionDef) /\ NamedAbove(<<HelpOption>>, <<c>>)
<1>1. HelpOption \in OptionDef
  BY ParserAssumption DEF HelpOption, OptionDef
<1>2. NamedAbove(<<HelpOption>>, <<c>>)
  BY DEF NamedAbove
<1>. QED BY <1>1, <1>2

\* The first level is one pass.
LEMMA ParserInvInit == ParserInit => ParserInv
<1>. SUFFICES ASSUME ParserInit PROVE ParserInv
  OBVIOUS
<1>1. /\ argv \in Argvs /\ args = PreProcess(argv) /\ node = Root /\ inherited = <<HelpOption>>
      /\ path = <<Root>> /\ options = <<>> /\ outcome = [kind |-> "parsing"]
  BY DEF ParserInit
<1>2. args \in Seq(Token)
  BY <1>1, PreProcessed
<1>3. Root \in Commands /\ <<HelpOption>> \in Seq(OptionDef) /\ NamedAbove(<<HelpOption>>, <<Root>>)
  BY ParserAssumption, HelpAbove
<1>4. ParserTypes
  <2>1. <<Root>> \in Seq(Commands) /\ <<Root>> # <<>> /\ <<Root>>[Len(<<Root>>)] = Root
    BY <1>3
  <2>2. <<>> \in Opts
    <3>1. <<>> \in [{} -> Seq(Token)]
      OBVIOUS
    <3>. QED BY <3>1 DEF Opts
  <2>. QED BY <1>1, <1>2, <1>3, <2>1, <2>2 DEF ParserTypes
<1>5. NamesKnown
  BY <1>1, <1>3 DEF NamesKnown
<1>6. LevelsAgree
  <2>. SUFFICES ASSUME NoShadowing, ValuesGiven, ~Ext.err
                PROVE  SameAsOnce(PreProcess(argv), Map, Ext, options, path)
    BY DEF LevelsAgree
  <2>1. Unshadowed(<<Root>>)
    BY <1>1 DEF NoShadowing, Unshadowed
  <2>2. Map = BuildOptionMap(Root, <<HelpOption>>)
    BY <1>1 DEF Map
  <2>3. Extends(Map, <<HelpOption>>) /\ NamedAbove(Map, Append(<<Root>>, Root))
    <3>1. <<Root>> \in Seq(Commands) /\ <<Root>> # <<>> /\ <<Root>>[Len(<<Root>>)] = Root
      BY <1>3
    <3>. QED BY <1>3, <2>1, <2>2, <3>1, MapGrows
  <2>4. Map \in Seq(OptionDef) /\ Map # <<>> /\ Map[1] = HelpOption
    BY <2>3 DEF Extends, NamedAbove
  <2>5. Given(args, Map)
    BY <1>1, <1>2 DEF ValuesGiven, Given
  <2>6. Ext = Extract(args, Map)
    BY DEF Ext
  <2>7. SameAsOnce(args, Map, Extract(args, Map), <<>>, path)
    <3>. HIDE DEF Map
    <3>. QED BY <1>2, <2>4, <2>5, <2>6, SameAtRoot
  <2>. QED BY <1>1, <2>6, <2>7
<1>7. RunsHere
  BY <1>1 DEF RunsHere
<1>. QED BY <1>4, <1>5, <1>6, <1>7 DEF ParserInv

\* A path and the command that is entered.
LEMMA PathLonger ==
  ASSUME NEW pth \in Seq(Commands), NEW c \in Commands
  PROVE  /\ Append(pth, c) \in Seq(Commands)
         /\ Append(pth, c) # <<>>
         /\ Append(pth, c)[Len(Append(pth, c))] = c
<1>. DEFINE q == Append(pth, c)
            n == Len(pth)
<1>1. q \in Seq(Commands) /\ n \in Nat /\ Len(q) = n + 1 /\ q[n + 1] = c
  OBVIOUS
<1>. HIDE DEF q, n
<1>2. q[Len(q)] = c /\ Len(q) # 0
  BY <1>1
<1>3. q # <<>>
  BY <1>2
<1>. QED BY <1>1, <1>2, <1>3 DEF q

\* A token put at the end is a sequence of one put at the end.
LEMMA AppendIsJoin ==
  ASSUME NEW s \in Seq(Token), NEW t \in Token
  PROVE  Append(s, t) = s \o <<t>>
<1>. DEFINE a == Append(s, t)
            b == s \o <<t>>
<1>1. a \in Seq(Token) /\ b \in Seq(Token) /\ Len(a) = Len(b) /\ \A i \in 1 .. Len(b) : a[i] = b[i]
  OBVIOUS
<1>. HIDE DEF a, b
<1>2. a = b
  BY <1>1, SameSequence
<1>. QED BY <1>2 DEF a, b

\* The command entered next finds what one pass finds, too.
LEMMA EnterKeeps ==
  ASSUME ParserInv, outcome.kind = "parsing", ~Ext.err,
         NEW c \in Commands, NEW w \in Seq(Token), NEW rest \in Seq(Token),
         Ext.pos = w \o rest, AnsweredBy(w, Append(path, c)), Enter(c, rest)
  PROVE  ParserInv'
<1>. DEFINE line == PreProcess(argv)
            M == BuildOptionMap(c, Map)
            tail == IF HelpAsked THEN <<HelpToken>> ELSE <<>>
<1>1. /\ argv \in Argvs /\ args \in Seq(Token) /\ line \in Seq(Token)
      /\ path \in Seq(Commands) /\ path # <<>> /\ node = path[Len(path)] /\ node \in Commands
      /\ inherited \in Seq(OptionDef) /\ options \in Opts
  BY PreProcessed DEF ParserInv, ParserTypes
<1>2. Map \in Seq(OptionDef) /\ M \in Seq(OptionDef)
  BY <1>1, MapType DEF Map
<1>3. Ext.pos \in Seq(Token) /\ Ext.opts \in Opts
  <2>. HIDE DEF Map
  <2>. QED BY <1>1, <1>2, ExtractParts DEF Ext
<1>4. /\ node' = c /\ inherited' = Map /\ path' = Append(path, c) /\ options' = Merge(options, Ext.opts)
      /\ argv' = argv /\ outcome' = outcome /\ args' = Reinject(rest)
  BY DEF Enter
<1>5. tail \in Seq(Token) /\ AgainHelp(tail) /\ (tail = <<>> <=> "help" \notin DOMAIN Ext.opts)
  <2>1. <<HelpToken>> \in Seq(Token) /\ <<>> \in Seq(Token) /\ <<HelpToken>> # <<>>
    BY HelpIsToken
  <2>. QED BY <2>1 DEF AgainHelp, HelpAsked
<1>6. args' = rest \o tail
  <2>1. CASE HelpAsked
    <3>1. Append(rest, HelpToken) = rest \o <<HelpToken>>
      BY HelpIsToken, AppendIsJoin
    <3>. QED BY <1>4, <2>1, <3>1 DEF Reinject
  <2>2. CASE ~HelpAsked
    <3>1. rest \o <<>> = rest
      OBVIOUS
    <3>. QED BY <1>4, <2>2, <3>1 DEF Reinject
  <2>. QED BY <2>1, <2>2
<1>. HIDE DEF tail
<1>7. ParserTypes'
  <2>1. Append(path, c) \in Seq(Commands) /\ Append(path, c) # <<>>
        /\ Append(path, c)[Len(Append(path, c))] = c
    BY <1>1, PathLonger
  <2>2. Merge(options, Ext.opts) \in Opts
    BY <1>1, <1>3, MergeType
  <2>3. args' \in Seq(Token)
    BY <1>5, <1>6
  <2>. QED BY <1>1, <1>2, <1>4, <2>1, <2>2, <2>3 DEF ParserTypes
<1>8. Map' = M
  BY <1>4 DEF Map
<1>9. Ext' = Extract(rest \o tail, M)
  BY <1>6, <1>8 DEF Ext
<1>10. ASSUME NoShadowing'
       PROVE  /\ NoShadowing /\ NamedAbove(inherited, path) /\ NamedAbove(Map, Append(path, c))
              /\ Unshadowed(path) /\ Unshadowed(Append(path, c))
  <2>1. Unshadowed(Append(path, c))
    BY <1>4, <1>10 DEF NoShadowing, Unshadowed
  <2>2. Unshadowed(path)
    <3>1. \A j \in DOMAIN path : j \in DOMAIN Append(path, c) /\ Append(path, c)[j] = path[j] /\ j \in Nat
      BY <1>1
    <3>2. \A j \in DOMAIN path : \A i \in 1 .. j - 1 : i \in DOMAIN path
      BY <1>1
    <3>. QED BY <2>1, <3>1, <3>2 DEF Unshadowed
  <2>3. NoShadowing /\ NamedAbove(inherited, path)
    BY <2>2 DEF NoShadowing, Unshadowed, ParserInv, NamesKnown
  <2>4. NamedAbove(Map, Append(path, c))
    BY <1>1, <2>2, <2>3, MapGrows DEF Map
  <2>. QED BY <2>1, <2>2, <2>3, <2>4
<1>11. NamesKnown'
  BY <1>4, <1>10 DEF NamesKnown
<1>12. LevelsAgree'
  <2>. SUFFICES ASSUME NoShadowing', ValuesGiven', ~(Ext.err)'
                PROVE  SameAsOnce(PreProcess(argv), Map, Ext, options, path)'
    BY DEF LevelsAgree
  <2>1. Given(line, M)
    <3>1. ValuesGiven' <=> \A i \in DOMAIN line : TakesValue(M, line[i]) =>
                                                   i < Len(line) /\ Lookup(M, line[i + 1]) = 0
      BY <1>4, <1>8 DEF ValuesGiven
    <3>2. DOMAIN line = 1 .. Len(line)
      BY <1>1
    <3>. HIDE DEF line, M
    <3>. QED BY <3>1, <3>2 DEF Given
  <2>2. Extends(M, Map)
    <3>. DEFINE q == Append(path, c)
    <3>1. q \in Seq(Commands) /\ q # <<>> /\ q[Len(q)] = c
      BY <1>1, PathLonger
    <3>2. Unshadowed(q) /\ NamedAbove(Map, q)
      BY <1>10
    <3>. HIDE DEF q, Map
    <3>. QED BY <1>2, <3>1, <3>2, MapGrows
  <2>3. Given(line, Map)
    <3>. HIDE DEF line, M, Map
    <3>. QED BY <1>1, <2>1, <2>2, GivenBelow
  <2>4. ValuesGiven
    <3>1. DOMAIN line = 1 .. Len(line)
      BY <1>1
    <3>. QED BY <2>3, <3>1 DEF ValuesGiven, Given
  <2>5. SameAsOnce(line, Map, Ext, options, path)
    BY <1>10, <2>4 DEF ParserInv, LevelsAgree
  <2>6. Map # <<>> /\ Map[1] = HelpOption
    BY <1>10 DEF NamedAbove
  <2>7. ~Extract(rest \o tail, M).err
    BY <1>9
  <2>. DEFINE e == Extract(rest \o tail, M)
              low == Merge(options, Ext.opts)
              q == Append(path, c)
  <2>8. SameAsOnce(line, M, e, low, q)
    <3>. HIDE DEF line, M, Map, Ext
    <3>. QED BY <1>1, <1>3, <1>5, <2>1, <2>2, <2>5, <2>6, <2>7, SameBelow
  <2>9. line' = line /\ Map' = M /\ Ext' = e /\ options' = low /\ path' = q
    BY <1>4, <1>8, <1>9
  <2>. HIDE DEF line, M, e, low, q
  <2>10. SameAsOnce(line', Map', Ext', options', path')
    BY <2>8, <2>9
  <2>. QED BY <2>10 DEF line
<1>13. RunsHere'
  BY <1>4 DEF RunsHere
<1>. QED BY <1>7, <1>11, <1>12, <1>13 DEF ParserInv
\* The command entered by name is one that the first word names.
LEMMA NamedAnswers ==
  ASSUME node \in Commands, Named # 0
  PROVE  /\ Cmd(node).subs[Named] \in Commands
         /\ Answers(Cmd(node).subs[Named], FirstWord)
<1>. DEFINE subs == Cmd(node).subs
            I == {i \in 1 .. Len(subs) : Answers(subs[i], FirstWord)}
<1>1. subs \in Seq(Commands)
  BY ParserAssumption
<1>2. Named = IF I # {} THEN Min(I) ELSE 0
  BY DEF Named, SelectInSeq
<1>3. I \in SUBSET Nat /\ I \subseteq 1 .. Len(subs) /\ \A i \in I : Answers(subs[i], FirstWord)
  BY <1>1
<1>. HIDE DEF I
<1>4. Named \in I
  BY <1>2, <1>3, MinIsLeast
<1>. HIDE DEF subs
<1>. QED BY <1>1, <1>3, <1>4 DEF subs

\* What ends the parse changes its outcome alone.
LEMMA EndsKeeps ==
  ASSUME ParserInv, NEW result, Ends(result),
         result.kind = "run" => ~Ext.err /\ ~HelpAsked /\ ~Stray /\ result.opts = Merge(options, Ext.opts)
  PROVE  ParserInv'
<1>1. /\ argv' = argv /\ args' = args /\ node' = node /\ inherited' = inherited
      /\ path' = path /\ options' = options /\ outcome' = result
  BY DEF Ends
<1>2. Map' = Map /\ Ext' = Ext
  BY <1>1 DEF Map, Ext
<1>3. NoShadowing' = NoShadowing /\ ValuesGiven' = ValuesGiven
  <2>. HIDE DEF Map
  <2>. QED BY <1>1, <1>2 DEF NoShadowing, ValuesGiven
<1>4. ParserTypes'
  BY <1>1 DEF ParserInv, ParserTypes
<1>5. NamesKnown'
  BY <1>1, <1>3 DEF ParserInv, NamesKnown
<1>6. LevelsAgree'
  <2>. HIDE DEF Map, Ext
  <2>. QED BY <1>1, <1>2, <1>3 DEF ParserInv, LevelsAgree
<1>7. RunsHere'
  <2>1. HelpAsked' = HelpAsked /\ Stray' = Stray
    <3>. HIDE DEF Ext
    <3>. QED BY <1>2 DEF HelpAsked, Stray
  <2>. HIDE DEF Ext
  <2>. QED BY <1>1, <1>2, <2>1 DEF RunsHere
<1>. QED BY <1>4, <1>5, <1>6, <1>7 DEF ParserInv

\* A line is its first token and the others.
LEMMA FirstAndOthers ==
  ASSUME NEW s \in Seq(Token), s # <<>>
  PROVE  /\ Head(s) \in Token /\ Tail(s) \in Seq(Token)
         /\ s = <<Head(s)>> \o Tail(s)
<1>. DEFINE u == <<Head(s)>> \o Tail(s)
<1>1. Head(s) \in Token /\ Tail(s) \in Seq(Token)
  OBVIOUS
<1>2. u \in Seq(Token) /\ Len(s) = Len(u) /\ \A i \in 1 .. Len(u) : s[i] = u[i]
  OBVIOUS
<1>. HIDE DEF u
<1>3. s = u
  BY <1>2, SameSequence
<1>. QED BY <1>1, <1>3 DEF u

\* A call of parseNode keeps the invariant.
LEMMA ParserInvNext == ParserInv /\ [ParserNext]_parserVars => ParserInv'
<1>. SUFFICES ASSUME ParserInv, [ParserNext]_parserVars PROVE ParserInv'
  OBVIOUS
<1>1. CASE UNCHANGED parserVars
  <2>1. /\ argv' = argv /\ args' = args /\ node' = node /\ inherited' = inherited
        /\ path' = path /\ options' = options /\ outcome' = outcome
    BY <1>1 DEF parserVars
  <2>2. Ends(outcome)
    BY <2>1 DEF Ends
  <2>3. outcome.kind = "run" => ~Ext.err /\ ~HelpAsked /\ ~Stray /\ outcome.opts = Merge(options, Ext.opts)
    BY DEF ParserInv, RunsHere
  <2>. QED BY <2>1 DEF ParserInv, ParserTypes, NamesKnown, LevelsAgree, RunsHere, NoShadowing, ValuesGiven,
                  Map, Ext, HelpAsked, Stray
<1>2. CASE ParserNext
  <2>1. outcome.kind = "parsing"
    BY <1>2 DEF ParserNext
  <2>2. /\ path \in Seq(Commands) /\ path # <<>> /\ node = path[Len(path)] /\ node \in Commands
        /\ args \in Seq(Token) /\ Map \in Seq(OptionDef)
    <3>1. /\ path \in Seq(Commands) /\ path # <<>> /\ node = path[Len(path)] /\ args \in Seq(Token)
          /\ inherited \in Seq(OptionDef)
      BY DEF ParserInv, ParserTypes
    <3>2. node \in Commands
      BY <3>1
    <3>. QED BY <3>1, <3>2, MapType DEF Map
  <2>3. Ext.pos \in Seq(Token)
    <3>. HIDE DEF Map
    <3>. QED BY <2>2, ExtractParts DEF Ext
  <2>4. CASE Descend
    <3>1. ~Ext.err /\ Named # 0 /\ Enter(Cmd(node).subs[Named], Tail(Ext.pos))
      BY <2>4 DEF Descend
    <3>2. PICK c \in Commands : c = Cmd(node).subs[Named] /\ Answers(c, FirstWord)
      BY <2>2, <3>1, NamedAnswers
    <3>3. Ext.pos # <<>> /\ FirstWord = Head(Ext.pos)
      BY <3>2 DEF FirstWord, Answers, None
    <3>4. PICK h \in Token, r \in Seq(Token) : h = Head(Ext.pos) /\ r = Tail(Ext.pos)
      <4>1. Head(Ext.pos) \in Token /\ Tail(Ext.pos) \in Seq(Token)
        BY <2>3, <3>3, FirstAndOthers
      <4>. QED BY <4>1
    <3>5. Ext.pos = <<h>> \o r /\ <<h>> \in Seq(Token)
      <4>. DEFINE s == Ext.pos
      <4>1. s \in Seq(Token) /\ s # <<>> /\ h = Head(s) /\ r = Tail(s)
        BY <2>3, <3>3, <3>4
      <4>. HIDE DEF s
      <4>2. s = <<Head(s)>> \o Tail(s)
        BY <4>1, FirstAndOthers
      <4>3. <<h>> \in Seq(Token)
        OBVIOUS
      <4>. QED BY <4>1, <4>2, <4>3 DEF s
    <3>6. AnsweredBy(<<h>>, Append(path, c))
      <4>. DEFINE q == Append(path, c)
                  n == Len(q)
      <4>1. n \in 1 .. n /\ q[n] = c
        <5>1. q \in Seq(Commands) /\ q # <<>> /\ q[Len(q)] = c
          BY <2>2, PathLonger
        <5>. HIDE DEF q
        <5>. QED BY <5>1
      <4>. HIDE DEF q, n
      <4>2. Answers(q[n], h)
        BY <3>2, <3>3, <3>4, <4>1
      <4>3. \A i \in 1 .. Len(<<h>>) : <<h>>[i] = h
        OBVIOUS
      <4>. QED BY <4>1, <4>2, <4>3 DEF AnsweredBy, q, n
    <3>7. Enter(c, r)
      BY <3>1, <3>2, <3>4
    <3>. QED BY <2>1, <3>1, <3>5, <3>6, <3>7, EnterKeeps
  <2>5. CASE Default
    <3>1. ~Ext.err /\ Cmd(node).dflt # NoCommand /\ Enter(Cmd(node).dflt, Ext.pos)
      BY <2>5 DEF Default
    <3>2. PICK c \in Commands : c = Cmd(node).dflt
      BY <2>2, <3>1, ParserAssumption
    <3>3. PICK r \in Seq(Token) : r = Ext.pos
      BY <2>3
    <3>4. Ext.pos = <<>> \o r /\ <<>> \in Seq(Token) /\ AnsweredBy(<<>>, Append(path, c))
      BY <3>3 DEF AnsweredBy
    <3>5. Enter(c, r)
      BY <3>1, <3>2, <3>3
    <3>. QED BY <2>1, <3>1, <3>4, <3>5, EnterKeeps
  <2>6. CASE BadOption
    <3>1. Ends([kind |-> "error", at |-> "option"])
      BY <2>6 DEF BadOption
    <3>. QED BY <3>1, EndsKeeps
  <2>7. CASE Help
    <3>1. Ends([kind |-> "help"])
      BY <2>7 DEF Help
    <3>. QED BY <3>1, EndsKeeps
  <2>8. CASE BadUsage
    <3>1. Ends([kind |-> "error", at |-> "usage"])
      BY <2>8 DEF BadUsage
    <3>. QED BY <3>1, EndsKeeps
  <2>9. CASE BadArgument
    <3>1. Ends([kind |-> "error", at |-> "argument"])
      BY <2>9 DEF BadArgument
    <3>. QED BY <3>1, EndsKeeps
  <2>10. CASE Run
    <3>. DEFINE result == [kind |-> IF Cmd(node).action THEN "run" ELSE "nothing",
                           vals |-> Parsed.vals, opts |-> Merge(options, Ext.opts)]
    <3>1. Ends(result) /\ ~Ext.err /\ ~HelpAsked /\ ~Stray
      BY <2>10 DEF Run, MayRun, AtLeaf
    <3>2. result.opts = Merge(options, Ext.opts)
      OBVIOUS
    <3>. HIDE DEF result
    <3>. QED BY <3>1, <3>2, EndsKeeps
  <2>. QED BY <1>2, <2>4, <2>5, <2>6, <2>7, <2>8, <2>9, <2>10 DEF ParserNext, ParseNode
<1>. QED BY <1>1, <1>2

-----------------------------------------------------------------------------
(* Theorems                                                                *)

\* Parser.ts:94-335: parse takes the line apart level by level, and at each
\* level knows what one pass with the options of all levels would.
THEOREM ParserInvariant == ParserSpec => []ParserInv
<1>1. ParserInit => ParserInv
  BY ParserInvInit
<1>2. ParserInv /\ [ParserNext]_parserVars => ParserInv'
  BY ParserInvNext
<1>. QED BY <1>1, <1>2, PTL DEF ParserSpec

\* In a run with no value missing and no name declared twice on the path, the
\* last level has found what one pass finds.
LEMMA RunSameAsOnce ==
  ASSUME ParserInv, outcome.kind = "run", ValuesGiven, NoShadowing
  PROVE  /\ SameAsOnce(PreProcess(argv), Map, Ext, options, path)
         /\ ~HelpAsked /\ ~Stray /\ outcome.opts = Merge(options, Ext.opts)
         /\ PreProcess(argv) \in Seq(Token)
         /\ Ext.pos \in Seq(Token)
         /\ path \in Seq(Commands)
<1>1. ~Ext.err /\ ~HelpAsked /\ ~Stray /\ outcome.opts = Merge(options, Ext.opts)
  BY DEF ParserInv, RunsHere
<1>2. SameAsOnce(PreProcess(argv), Map, Ext, options, path)
  BY <1>1 DEF ParserInv, LevelsAgree
<1>3. /\ argv \in Argvs /\ args \in Seq(Token) /\ path \in Seq(Commands) /\ node \in Commands
      /\ inherited \in Seq(OptionDef)
  BY DEF ParserInv, ParserTypes
<1>4. Map \in Seq(OptionDef)
  BY <1>3, MapType DEF Map
<1>5. Ext.pos \in Seq(Token)
  <2>. HIDE DEF Map
  <2>. QED BY <1>3, <1>4, ExtractParts DEF Ext
<1>. QED BY <1>1, <1>2, <1>3, <1>5, PreProcessed

\* Parser.ts:94-172: options may stand anywhere.  A command that runs gets the
\* options and the arguments that one pass over the line finds, whatever the
\* tree of commands, the line and the place of the options in it.
THEOREM ParserOptionsFoundAnywhere == ParserSpec => []OptionsFoundAnywhere
<1>1. ParserInv => OptionsFoundAnywhere
  <2>. SUFFICES ASSUME ParserInv, outcome.kind = "run", ValuesGiven, NoShadowing
                PROVE  LET once == Extract(PreProcess(argv), Map)
                           words == Len(once.pos) - Len(Ext.pos)
                       IN /\ ~once.err
                          /\ once.opts = outcome.opts
                          /\ words >= 0 /\ once.pos = SubSeq(once.pos, 1, words) \o Ext.pos
                          /\ \A i \in 1 .. words : \E c \in ToSet(path) : Answers(c, once.pos[i])
                          /\ \A t \in ToSet(Ext.pos) : ~Dashed(t)
    BY DEF OptionsFoundAnywhere
  <2>. DEFINE once == Extract(PreProcess(argv), Map)
              here == Ext.pos
              n == Len(once.pos) - Len(here)
  <2>1. /\ SameAsOnce(PreProcess(argv), Map, Ext, options, path)
        /\ ~HelpAsked /\ ~Stray /\ outcome.opts = Merge(options, Ext.opts)
        /\ here \in Seq(Token) /\ path \in Seq(Commands)
    BY RunSameAsOnce
  <2>2. ~once.err /\ once.opts = outcome.opts
    BY <2>1 DEF SameAsOnce, HelpAsked
  <2>3. PICK v \in Seq(Token) : AnsweredBy(v, path) /\ once.pos = v \o here
    BY <2>1 DEF SameAsOnce
  <2>4. \A t \in ToSet(here) : ~Dashed(t)
    BY <2>1 DEF Stray
  <2>. HIDE DEF once, here
  <2>5. n = Len(v) /\ n >= 0 /\ \A i \in 1 .. n : once.pos[i] = v[i]
    <3>1. Len(v) \in Nat /\ Len(here) \in Nat /\ Len(v \o here) = Len(v) + Len(here)
          /\ \A i \in 1 .. Len(v) : (v \o here)[i] = v[i]
      BY <2>1
    <3>. QED BY <2>3, <3>1
  <2>6. SubSeq(once.pos, 1, n) = v
    <3>1. SubSeq(v \o here, 1, Len(v)) = v
      BY <2>1
    <3>. HIDE DEF n
    <3>. QED BY <2>3, <2>5, <3>1
  <2>. HIDE DEF n
  <2>7. ASSUME NEW i \in 1 .. n PROVE \E c \in ToSet(path) : Answers(c, once.pos[i])
    <3>1. PICK j \in 1 .. Len(path) : Answers(path[j], v[i])
      BY <2>3, <2>5 DEF AnsweredBy
    <3>2. path[j] \in ToSet(path)
      BY <2>1 DEF ToSet
    <3>. QED BY <2>5, <3>1, <3>2
  <2>8. n >= 0 /\ once.pos = SubSeq(once.pos, 1, n) \o here
    BY <2>3, <2>5, <2>6
  <2>. QED BY <2>2, <2>4, <2>7, <2>8 DEF once, here, n
<1>. QED BY <1>1, ParserInvariant, PTL

\* Parser.ts:262-270: a command line that asks for help runs nothing.  The
\* request is put again for every level, unless a value swallows it.
THEOREM ParserHelpRunsNothing == ParserSpec => []HelpRunsNothing
<1>1. ParserInv => HelpRunsNothing
  <2>. SUFFICES ASSUME ParserInv, outcome.kind = "run", ValuesGiven, NoShadowing,
                       NEW t \in ToSet(PreProcess(argv)), IsHelp(t)
                PROVE  FALSE
    BY DEF HelpRunsNothing
  <2>. DEFINE line == PreProcess(argv)
  <2>1. SameAsOnce(line, Map, Ext, options, path) /\ ~HelpAsked /\ line \in Seq(Token)
    BY RunSameAsOnce
  <2>. HIDE DEF line
  <2>2. PICK i \in 1 .. Len(line) : line[i] = t
    BY <2>1 DEF ToSet, line
  <2>3. "help" \in DOMAIN Ext.opts
    BY <2>1, <2>2 DEF SameAsOnce
  <2>. QED BY <2>1, <2>3 DEF HelpAsked
<1>. QED BY <1>1, ParserInvariant, PTL
=============================================================================
