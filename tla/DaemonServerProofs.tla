-------------------------- MODULE DaemonServerProofs --------------------------
(***************************************************************************)
(* Theorems about DaemonServer, for any profiles and number of tunnels in  *)
(* memory.                                                                 *)
(***************************************************************************)
EXTENDS DaemonServer, TLAPS

\* What a step of Next is, by name.
LEMMA StepCases ==
  ASSUME [Next]_vars,
         NEW G,
         \A h \in Handles, p \in Profiles : Start(h, p) => G,
         \A h \in Handles, p \in Profiles : RestoreNext(h, p) => G,
         \A h \in Handles : CreateDone(h) => G,
         \A h \in Handles : CreateFails(h) => G,
         \A h \in Handles : LinkUp(h) => G,
         \A h \in Handles : LinkDown(h) => G,
         \A h \in Handles : LinkRefused(h) => G,
         \A p \in Profiles : Stop(p) => G,
         Spawn \/ Listen \/ Dump \/ WriteDump \/ CliGivesUp => G,
         Restored => G, RestoreFails => G,
         Shutdown \/ StopDaemon => G,
         Exit \/ Crash => G,
         UNCHANGED vars => G
  PROVE  G
BY DEF Next

-----------------------------------------------------------------------------
(* Types                                                                   *)

\* A daemon that starts has nothing in memory.
LEMMA TypeInit == Init => TypeOK
<1>. SUFFICES ASSUME Init PROVE TypeOK
  OBVIOUS
<1>1. (CHOOSE p \in Profiles : TRUE) \in Profiles
  BY DaemonAssumption
<1>2. owner \in [Handles -> Profiles]
  BY <1>1 DEF Init
<1>. QED BY <1>2 DEF Init, TypeOK, Status

\* Every step keeps the types.
LEMMA TypeStep ==
  ASSUME TypeOK, [Next]_vars
  PROVE  TypeOK'
<1>. USE DEF TypeOK, Status, daemon, links, history
<1>1. ASSUME NEW h \in Handles, NEW p \in Profiles, Start(h, p) PROVE TypeOK'
  BY <1>1 DEF Start, Begin
<1>2. ASSUME NEW h \in Handles, NEW p \in Profiles, RestoreNext(h, p) PROVE TypeOK'
  BY <1>2 DEF RestoreNext, Begin
<1>3. ASSUME NEW h \in Handles, CreateDone(h) PROVE TypeOK'
  BY <1>3 DEF CreateDone, Register
<1>4. ASSUME NEW h \in Handles, CreateFails(h) PROVE TypeOK'
  BY <1>4 DEF CreateFails
<1>5. ASSUME NEW h \in Handles, LinkUp(h) PROVE TypeOK'
  BY <1>5 DEF LinkUp, Report
<1>6. ASSUME NEW h \in Handles, LinkDown(h) PROVE TypeOK'
  BY <1>6 DEF LinkDown, Report
<1>7. ASSUME NEW h \in Handles, LinkRefused(h) PROVE TypeOK'
  BY <1>7 DEF LinkRefused, Report
<1>8. ASSUME NEW p \in Profiles, Stop(p) PROVE TypeOK'
  BY <1>8 DEF Stop, Disconnect
<1>11. ASSUME Spawn \/ Listen \/ Dump \/ WriteDump \/ CliGivesUp PROVE TypeOK'
  BY <1>11 DEF Spawn, Listen, Dump, WriteDump, CliGivesUp, Running
<1>12. ASSUME Restored PROVE TypeOK'
  BY <1>12 DEF Restored, Register, Awaited
<1>13. ASSUME RestoreFails PROVE TypeOK'
  BY <1>13 DEF RestoreFails, Awaited
<1>14. ASSUME Shutdown \/ StopDaemon PROVE TypeOK'
  BY <1>14 DEF Shutdown, StopDaemon, DisconnectAll, Disconnect, Running
<1>15. ASSUME Exit \/ Crash PROVE TypeOK'
  BY <1>15, DaemonAssumption DEF Exit, Crash, ProcessEnds
<1>16. ASSUME UNCHANGED vars PROVE TypeOK'
  BY <1>16 DEF vars
<1>. HIDE DEF TypeOK
<1>. QED BY <1>1, <1>2, <1>3, <1>4, <1>5, <1>6, <1>7, <1>8, <1>11,
            <1>12, <1>13, <1>14, <1>15, <1>16, StepCases

\* Type correctness of the daemon (DaemonServer.ts:61-73).
THEOREM DaemonTypeOK == Spec => []TypeOK
<1>. QED BY TypeInit, TypeStep, PTL DEF Spec

-----------------------------------------------------------------------------
(* Tunnels and their links                                                 *)

\* A link that is up, or said to be, belongs to a live tunnel.
StatusBacked ==
  /\ \A h \in up : stage[h] = "live"
  /\ \A h \in Handles : status[h] = "connected" => h \in up

\* A process that is down has no tunnels, and only one that restores awaits one.
DownIsEmpty ==
  /\ phase = "down" => Running = {}
  /\ restoring # NoHandle => phase = "restoring"

\* The inductive invariant of the tunnels: the links are only known to end with
\* their tunnels if the map has no other than live ones.
TunnelInv == TypeOK /\ OwnedIsOpen /\ StatusBacked /\ DownIsEmpty

\* At first there is no tunnel.
LEMMA TunnelInit == Init => TunnelInv
<1>1. ASSUME Init PROVE OwnedIsOpen /\ DownIsEmpty
  BY <1>1 DEF Init, OwnedIsOpen, DownIsEmpty, Running
<1>2. ASSUME Init PROVE StatusBacked
  BY <1>2 DEF Init, StatusBacked
<1>. QED BY <1>1, <1>2, TypeInit DEF TunnelInv

\* Every step keeps the tunnel invariant.
LEMMA TunnelStep ==
  ASSUME TunnelInv, [Next]_vars
  PROVE  TunnelInv'
<1>. DEFINE Rest == OwnedIsOpen /\ StatusBacked /\ DownIsEmpty
<1>. USE DEF TunnelInv
<1>0. TypeOK /\ Rest
  OBVIOUS
<1>. USE DEF TypeOK, OwnedIsOpen, StatusBacked, DownIsEmpty, Running,
            daemon, links, history
<1>1. ASSUME NEW h \in Handles, NEW p \in Profiles, Start(h, p) PROVE Rest'
  BY <1>0, <1>1 DEF Start, Begin
<1>2. ASSUME NEW h \in Handles, NEW p \in Profiles, RestoreNext(h, p) PROVE Rest'
  BY <1>0, <1>2 DEF RestoreNext, Begin
<1>3. ASSUME NEW h \in Handles, CreateDone(h) PROVE Rest'
  BY <1>0, <1>3, DaemonAssumption DEF CreateDone, Register
<1>4. ASSUME NEW h \in Handles, CreateFails(h) PROVE Rest'
  BY <1>0, <1>4 DEF CreateFails
<1>5. ASSUME NEW h \in Handles, LinkUp(h) PROVE Rest'
  BY <1>0, <1>5 DEF LinkUp, Report
<1>6. ASSUME NEW h \in Handles, LinkDown(h) PROVE Rest'
  BY <1>0, <1>6 DEF LinkDown, Report
<1>7. ASSUME NEW h \in Handles, LinkRefused(h) PROVE Rest'
  BY <1>0, <1>7 DEF LinkRefused, Report
<1>8. ASSUME NEW p \in Profiles, Stop(p) PROVE Rest'
  BY <1>0, <1>8, DaemonAssumption DEF Stop, Disconnect
<1>11. ASSUME Spawn \/ Listen \/ Dump \/ WriteDump \/ CliGivesUp PROVE Rest'
  BY <1>0, <1>11 DEF Spawn, Listen, Dump, WriteDump, CliGivesUp
<1>12. ASSUME Restored PROVE Rest'
  BY <1>0, <1>12, DaemonAssumption DEF Restored, Register, Awaited
<1>13. ASSUME RestoreFails PROVE Rest'
  BY <1>0, <1>13, DaemonAssumption DEF RestoreFails, Awaited
<1>14. ASSUME Shutdown \/ StopDaemon PROVE Rest'
  BY <1>0, <1>14, DaemonAssumption DEF Shutdown, StopDaemon, DisconnectAll, Disconnect
<1>15. ASSUME Exit \/ Crash PROVE Rest'
  BY <1>0, <1>15, DaemonAssumption DEF Exit, Crash, ProcessEnds
<1>16. ASSUME UNCHANGED vars PROVE Rest'
  BY <1>0, <1>16 DEF vars
<1>. HIDE DEF Rest, TypeOK, OwnedIsOpen, StatusBacked, DownIsEmpty
<1>17. Rest'
  BY <1>1, <1>2, <1>3, <1>4, <1>5, <1>6, <1>7, <1>8, <1>11,
     <1>12, <1>13, <1>14, <1>15, <1>16, StepCases
<1>. QED BY <1>17, TypeStep DEF Rest

\* The inductive invariant of the tunnels: a status that says connected is that
\* of a link that is up, and only a live tunnel has one (DaemonServer.ts:103-155,
\* 344, 355-363).
THEOREM TunnelInvariant == Spec => []TunnelInv
<1>. QED BY TunnelInit, TunnelStep, PTL DEF Spec

\* What the map holds is live and of that profile (DaemonServer.ts:66, 103,
\* 155, 344), through overlapping starts, stops and restores.
THEOREM DaemonOwnedIsOpen == Spec => []OwnedIsOpen
<1>. QED BY TunnelInvariant, PTL DEF TunnelInv

-----------------------------------------------------------------------------
(* Ownership                                                               *)

\* One instance of the formula OwnerLostOnlyToOverlap says of every step.
LostOnlyToOverlap ==
  \A p \in Running : LET h == tunnels[p] IN
    phase = "listening" /\ stage[h] = "live" /\ stage'[h] = "live" /\ tunnels'[p] # h
      => \E g \in In("creating") : owner[g] = p /\ stage'[g] = "live"

\* A step that takes a live tunnel from the map starts another of its profile.
LEMMA OwnerStep ==
  ASSUME TypeOK, [Next]_vars
  PROVE  LostOnlyToOverlap
<1>. USE DEF LostOnlyToOverlap, daemon, links, history
<1>1. ASSUME UNCHANGED tunnels PROVE LostOnlyToOverlap
  BY <1>1
<1>2. ASSUME NEW g \in Handles, stage[g] = "creating", Register(g) PROVE LostOnlyToOverlap
  <2>1. \A p \in Profiles : p # owner[g] => tunnels'[p] = tunnels[p]
    BY <1>2 DEF Register, TypeOK
  <2>2. stage'[g] = "live" /\ g \in In("creating")
    BY <1>2 DEF Register, TypeOK, In
  <2>. QED BY <2>1, <2>2 DEF Running
<1>3. ASSUME NEW p \in Profiles, Stop(p) PROVE LostOnlyToOverlap
  <2>1. \A q \in Profiles : q # p => tunnels'[q] = tunnels[q]
    BY <1>3 DEF Stop, TypeOK
  <2>2. stage'[tunnels[p]] # "live"
    BY <1>3, DaemonAssumption DEF Stop, TypeOK
  <2>. QED BY <2>1, <2>2 DEF Running
<1>4. ASSUME Exit \/ Crash PROVE LostOnlyToOverlap
  <2>1. \A h \in Handles : stage'[h] # "live"
    BY <1>4 DEF Exit, Crash, ProcessEnds
  <2>. QED BY <2>1 DEF Running, TypeOK
<1>. HIDE DEF LostOnlyToOverlap
<1>5. ASSUME NEW h \in Handles, CreateDone(h) PROVE LostOnlyToOverlap
  BY <1>2, <1>5 DEF CreateDone
<1>6. ASSUME Restored PROVE LostOnlyToOverlap
  BY <1>2, <1>6, DaemonAssumption DEF Restored, Awaited, TypeOK
<1>7. \A h \in Handles, p \in Profiles : Start(h, p) \/ RestoreNext(h, p) => UNCHANGED tunnels
  BY DEF Start, RestoreNext
<1>8. \A h \in Handles : CreateFails(h) \/ LinkUp(h) \/ LinkDown(h) \/ LinkRefused(h) => UNCHANGED tunnels
  BY DEF CreateFails, LinkUp, LinkDown, LinkRefused
<1>10. Spawn \/ Listen \/ Dump \/ WriteDump \/ CliGivesUp \/ RestoreFails \/ Shutdown \/ StopDaemon
         => UNCHANGED tunnels
  BY DEF Spawn, Listen, Dump, WriteDump, CliGivesUp, RestoreFails, Shutdown, StopDaemon
<1>11. UNCHANGED vars => UNCHANGED tunnels
  BY DEF vars
<1>. QED BY <1>1, <1>3, <1>4, <1>5, <1>6, <1>7, <1>8, <1>10, <1>11, StepCases

\* A live tunnel leaves the map only to an overlapping start of its profile
\* (DaemonServer.ts:103-155), whatever else the daemon is asked.
THEOREM DaemonOwnerLostOnlyToOverlap == Spec => OwnerLostOnlyToOverlap
<1>1. TypeOK /\ [Next]_vars => [LostOnlyToOverlap]_vars
  BY OwnerStep
<1>. QED BY <1>1, DaemonTypeOK, PTL DEF Spec, OwnerLostOnlyToOverlap, LostOnlyToOverlap

-----------------------------------------------------------------------------
(* Restarts                                                                *)

\* Where the tunnels of a restart are, from the dump to the end of restoring:
\* with the CLI, in dump.json, in the queue, awaited, in the map, or failed.
Kept ==
  /\ phase # "listening" /\ cli # "idle" => before = {}
  /\ quiet /\ phase = "listening" /\ cli = "answered" => answer = Running
  /\ quiet /\ phase = "listening" /\ cli = "written" => Running \subseteq dumpFile
  /\ quiet /\ phase \in {"stopping", "down"} => before \subseteq dumpFile
  /\ quiet /\ phase = "restoring" =>
       \A p \in before : \/ p \in queue \cup failed \cup Running
                         \/ restoring # NoHandle /\ p = owner[restoring]
  /\ restoring # NoHandle => phase = "restoring"

\* Nothing was dumped yet.
LEMMA KeptInit == Init => Kept
BY DEF Init, Kept

\* Every step keeps it.
LEMMA KeptStep ==
  ASSUME TypeOK, Kept, [Next]_vars
  PROVE  Kept'
<1>. USE DEF daemon, links, history
<1>1. ASSUME NEW h \in Handles, NEW p \in Profiles, Start(h, p) PROVE Kept'
  BY <1>1 DEF Start, Begin, Kept, Running
<1>2. ASSUME NEW h \in Handles, NEW p \in Profiles, RestoreNext(h, p) PROVE Kept'
  BY <1>2, DaemonAssumption DEF RestoreNext, Begin, Kept, Running, TypeOK
<1>3. ASSUME NEW h \in Handles, CreateDone(h) PROVE Kept'
  BY <1>3 DEF CreateDone, Register, Kept, Running, TypeOK
<1>4. ASSUME NEW h \in Handles, CreateFails(h) PROVE Kept'
  BY <1>4 DEF CreateFails, Kept, Running
<1>5. ASSUME NEW h \in Handles, LinkUp(h) \/ LinkDown(h) \/ LinkRefused(h) PROVE Kept'
  BY <1>5 DEF LinkUp, LinkDown, LinkRefused, Report, Kept, Running
<1>8. ASSUME NEW p \in Profiles, Stop(p) PROVE Kept'
  BY <1>8 DEF Stop, Kept, Running
<1>11. ASSUME Spawn \/ Listen \/ CliGivesUp PROVE Kept'
  BY <1>11 DEF Spawn, Listen, CliGivesUp, Kept, Running
<1>11a. ASSUME Dump \/ WriteDump PROVE Kept'
  BY <1>11a DEF Dump, WriteDump, Kept, Running, TypeOK
<1>12. ASSUME Restored PROVE Kept'
  <2>1. owner[restoring] \in Running'
    BY <1>12, DaemonAssumption DEF Restored, Register, Awaited, Running, TypeOK
  <2>2. Running \subseteq Running'
    BY <1>12, DaemonAssumption DEF Restored, Register, Awaited, Running, TypeOK
  <2>. QED BY <1>12, <2>1, <2>2 DEF Restored, Awaited, Kept
<1>13. ASSUME RestoreFails PROVE Kept'
  BY <1>13 DEF RestoreFails, Awaited, Kept, Running
<1>14. ASSUME Shutdown \/ StopDaemon PROVE Kept'
  BY <1>14 DEF Shutdown, StopDaemon, DisconnectAll, Disconnect, Kept, Running
<1>15. ASSUME Exit \/ Crash PROVE Kept'
  BY <1>15 DEF Exit, Crash, ProcessEnds, Kept
<1>16. ASSUME UNCHANGED vars PROVE Kept'
  BY <1>16 DEF vars, Kept, Running
<1>. HIDE DEF daemon, links, history
<1>. QED BY <1>1, <1>2, <1>3, <1>4, <1>5, <1>8, <1>11, <1>11a,
            <1>12, <1>13, <1>14, <1>15, <1>16, StepCases

\* What the formula QuietRestartPreserves says of a step.
Preserves ==
  phase = "restoring" /\ phase' = "listening" /\ quiet => before \ failed \subseteq Running'

\* A restore that ends has brought every dumped tunnel back, or reported it.
LEMMA PreservesStep ==
  ASSUME Kept, [Next]_vars
  PROVE  Preserves
<1>1. ASSUME Listen PROVE Preserves
  BY <1>1 DEF Listen, Kept, Preserves, Running
<1>. USE DEF Preserves, daemon
<1>2. \A h \in Handles, p \in Profiles : Start(h, p) \/ RestoreNext(h, p) => Preserves
  BY DEF Start, RestoreNext
<1>3. \A h \in Handles : CreateDone(h) \/ CreateFails(h) \/ LinkUp(h) \/ LinkDown(h) \/ LinkRefused(h)
        => Preserves
  BY DEF CreateDone, CreateFails, LinkUp, LinkDown, LinkRefused
<1>5. \A p \in Profiles : Stop(p) => Preserves
  BY DEF Stop
<1>6. Spawn \/ Dump \/ WriteDump \/ CliGivesUp \/ Restored \/ RestoreFails \/ Shutdown
        \/ StopDaemon \/ Exit \/ Crash => Preserves
  BY DEF Spawn, Dump, WriteDump, CliGivesUp, Restored, RestoreFails, Shutdown,
         StopDaemon, Exit, Crash, ProcessEnds
<1>7. UNCHANGED vars => Preserves
  BY DEF vars
<1>. HIDE DEF Preserves
<1>. QED BY <1>1, <1>2, <1>3, <1>5, <1>6, <1>7, StepCases

\* A restart gives back every tunnel it found running, but those the relay
\* refused, unless one was started or stopped between dump and shutdown
\* (applyUpdate.ts:7-21, DaemonServer.ts:180-196, 355-363).
THEOREM DaemonQuietRestartPreserves == Spec => QuietRestartPreserves
<1>1. Spec => []Kept
  BY KeptInit, KeptStep, DaemonTypeOK, PTL DEF Spec
<1>2. Kept /\ [Next]_vars => [Preserves]_vars
  BY PreservesStep
<1>. QED BY <1>1, <1>2, PTL DEF Spec, QuietRestartPreserves, Preserves

-----------------------------------------------------------------------------
(* Links                                                                   *)

\* One instance of the formula LinksFollowPool.
FollowsPool(h) ==
  phase' # "down" => Link(h)!Next \/ UNCHANGED <<stage[h], h \in up, status[h]>>

\* What a step does to a tunnel is a step of its link, or none.
LEMMA LinkStep ==
  ASSUME TunnelInv, [Next]_vars, NEW h \in In("live")
  PROVE  FollowsPool(h)
<1>. USE DEF FollowsPool
<1>0. TypeOK /\ h \in Handles /\ stage[h] = "live"
  BY DEF TunnelInv, In
<1>1. ASSUME UNCHANGED links PROVE FollowsPool(h)
  BY <1>1 DEF links
<1>2. ASSUME NEW g \in Handles, NEW p \in Profiles, Begin(g, p) PROVE FollowsPool(h)
  BY <1>0, <1>2 DEF Begin, TypeOK
<1>3. ASSUME NEW g \in Handles, stage[g] = "creating", Register(g) PROVE FollowsPool(h)
  BY <1>0, <1>3 DEF Register, TypeOK
<1>4. ASSUME NEW g \in Handles, CreateFails(g) PROVE FollowsPool(h)
  BY <1>0, <1>4 DEF CreateFails, TypeOK
<1>5. ASSUME RestoreFails PROVE FollowsPool(h)
  BY <1>0, <1>5 DEF RestoreFails, Awaited, TypeOK
<1>6. ASSUME NEW g \in Handles, LinkUp(g) PROVE FollowsPool(h)
  BY <1>0, <1>6 DEF LinkUp, Report, TypeOK, Link!Next, Link!GoUp
<1>7. ASSUME NEW g \in Handles, LinkDown(g) PROVE FollowsPool(h)
  BY <1>0, <1>7 DEF LinkDown, Report, TypeOK, Link!Next, Link!GoDown
<1>8. ASSUME NEW g \in Handles, LinkRefused(g) PROVE FollowsPool(h)
  BY <1>0, <1>8 DEF LinkRefused, Report, TypeOK, Link!Next, Link!Refuse
<1>9. ASSUME NEW p \in Profiles, Stop(p) PROVE FollowsPool(h)
  BY <1>0, <1>9, DaemonAssumption DEF Stop, Disconnect, TypeOK, Link!Next, Link!Close
<1>10. ASSUME Shutdown \/ StopDaemon PROVE FollowsPool(h)
  BY <1>0, <1>10 DEF Shutdown, StopDaemon, DisconnectAll, Disconnect, TypeOK, Link!Next, Link!Close
<1>11. Exit \/ Crash => FollowsPool(h)
  BY DEF Exit, Crash, ProcessEnds
<1>. HIDE DEF FollowsPool
<1>12. \A g \in Handles, p \in Profiles : Start(g, p) \/ RestoreNext(g, p) => FollowsPool(h)
  BY <1>2 DEF Start, RestoreNext
<1>13. \A g \in Handles : CreateDone(g) => FollowsPool(h)
  BY <1>3 DEF CreateDone
<1>14. Restored => FollowsPool(h)
  BY <1>0, <1>3, DaemonAssumption DEF Restored, Awaited, TypeOK
<1>16. Spawn \/ Listen \/ Dump \/ WriteDump \/ CliGivesUp => FollowsPool(h)
  BY <1>1 DEF Spawn, Listen, Dump, WriteDump, CliGivesUp
<1>17. UNCHANGED vars => FollowsPool(h)
  BY <1>1 DEF vars
<1>. QED BY <1>4, <1>5, <1>6, <1>7, <1>8, <1>9, <1>10, <1>11, <1>12, <1>13, <1>14,
            <1>16, <1>17, StepCases

\* Every tunnel of the daemon goes through the events that TunnelLink, and so
\* ProxyPool, allows (DaemonServer.ts:147-149, 344) and no others.
THEOREM DaemonLinksFollowPool == Spec => LinksFollowPool
<1>1. ASSUME TunnelInv, [Next]_vars
      PROVE  [\A h \in In("live") : FollowsPool(h)]_vars
  BY <1>1, LinkStep
<1>2. LinksFollowPool <=> [][\A h \in In("live") : FollowsPool(h)]_vars
  BY DEF LinksFollowPool, FollowsPool
<1>. QED BY <1>1, <1>2, TunnelInvariant, PTL DEF Spec
=============================================================================
