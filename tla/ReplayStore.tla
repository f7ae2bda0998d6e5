----------------------------- MODULE ReplayStore -----------------------------
(***************************************************************************)
(* Capture and replay of requests in the daemon: the buffers of            *)
(* src/daemon/DaemonServer.ts, replay-meta.json, and the bodies that       *)
(* src/proxy/Proxy.ts puts in.                                             *)
(*                                                                         *)
(* A replay awaits the local target; meanwhile requests are captured, the  *)
(* tunnel may stop and the entry may be evicted.  Buffers outlive the      *)
(* tunnels of their profile but not the process: a shutdown saves their    *)
(* metadata, a crash leaves the file of an earlier shutdown, and loading   *)
(* keeps the file.                                                         *)
(***************************************************************************)
EXTENDS ReplayBuffer, FiniteSets

CONSTANTS
  Profiles,
  Slots,           \* replays that can be in progress together
  Texts,           \* bodies that are UTF-8 text
  Binaries,        \* bodies that are not
  Mangled,         \* what decoding a binary body as UTF-8 leaves
  MaxId            \* bound: requests and replays ever recorded

ASSUME StoreAssumption ==
  /\ Profiles # {}
  /\ MaxId \in Nat
  /\ NoBody \notin Texts \cup Binaries

VARIABLES
  phase,           \* "up" or "down"
  started,         \* profiles whose tunnel this process has started
  running,         \* profiles in #tunnels
  bufs,            \* #replayBuffers; a missing one is empty
  file,            \* replay-meta.json, per profile
  replays,         \* per slot: the entry being replayed, or NoReplay
  target,          \* per slot: whose buffer it came from
  \* History, for the properties only.  Ids number the recorded requests.
  next,            \* the next id
  original,        \* the body each request really had
  origin,          \* the profile each was recorded for
  since            \* the first id of this process

buffers == <<bufs, file>>
inProgress == <<replays, target>>
past == <<next, original, origin>>
storeVars == <<phase, started, running, buffers, inProgress, past, since>>

NoReplay == Entry(0, NoBody, "none")
Ids      == 1..MaxId
Bodies   == Texts \cup Binaries \cup {NoBody}
Stored   == Texts \cup {Mangled, NoBody}
Entries  == [id : Ids, body : Stored, state : {"available", "unavailable"}]

Empty == [p \in Profiles |-> <<>>]
Idle  == [s \in Slots |-> NoReplay]

StoreInit ==
  /\ phase = "down"
  /\ started = {} /\ running = {}
  /\ bufs = Empty /\ file = Empty
  /\ replays = Idle /\ target = [s \in Slots |-> CHOOSE p \in Profiles : TRUE]
  /\ next = 1 /\ since = 1
  /\ original = [i \in Ids |-> NoBody]
  /\ origin = [i \in Ids |-> CHOOSE p \in Profiles : TRUE]

-----------------------------------------------------------------------------
\* bodyChunks decoded as UTF-8.
Decode(body) == IF body \in Binaries THEN Mangled ELSE body

Record(p, body) ==
  /\ next <= MaxId
  /\ next' = next + 1
  /\ original' = [original EXCEPT ![next] = body]
  /\ origin' = [origin EXCEPT ![next] = p]

\* A request went through a tunnel.  Its body is left out when its type is
\* excluded or it is over the limit.  The tunnel may have stopped meanwhile.
Capture(p) ==
  /\ phase = "up" /\ p \in started
  /\ \E body \in Bodies :
       /\ Record(p, body)
       /\ \E e \in {Entry(next, Decode(body), "available"), Entry(next, NoBody, "unavailable")} :
            bufs' = [bufs EXCEPT ![p] = Push(bufs[p], e)]
  /\ UNCHANGED <<phase, started, running, file, inProgress, since>>

\* Slip: does not look at bodyUnavailable.
ReplayUnchecked(s, p, id) ==
  /\ phase = "up" /\ replays[s] = NoReplay
  /\ p \in running /\ Matches(bufs[p], id) # {}
  /\ replays' = [replays EXCEPT ![s] = GetById(bufs[p], id)]
  /\ target' = [target EXCEPT ![s] = p]
  /\ UNCHANGED <<phase, started, running, buffers, past, since>>

\* #handleReplay up to the answer of the local target.
Replay(s, p, id) ==
  /\ phase = "up" /\ replays[s] = NoReplay
  /\ p \in running /\ Matches(bufs[p], id) # {}
  /\ GetById(bufs[p], id).state = "available"
  /\ replays' = [replays EXCEPT ![s] = GetById(bufs[p], id)]
  /\ target' = [target EXCEPT ![s] = p]
  /\ UNCHANGED <<phase, started, running, buffers, past, since>>

\* Slip: takes the body from the buffer again, after the await.
ReplayDoneOfOldest(s) ==
  /\ replays[s] # NoReplay
  /\ Record(target[s], original[replays[s].id])
  /\ bufs' = [bufs EXCEPT ![target[s]] =
                Push(@, Entry(next, Head(@).body, "available"))]
  /\ replays' = [replays EXCEPT ![s] = NoReplay]
  /\ UNCHANGED <<phase, started, running, file, target, since>>

\* The target answered: the replay is recorded as a request of its own.
ReplayDone(s) ==
  /\ replays[s] # NoReplay
  /\ Record(target[s], original[replays[s].id])
  /\ bufs' = [bufs EXCEPT ![target[s]] =
                Push(@, Entry(next, replays[s].body, "available"))]
  /\ replays' = [replays EXCEPT ![s] = NoReplay]
  /\ UNCHANGED <<phase, started, running, file, target, since>>

ReplayFails(s) ==
  /\ replays[s] # NoReplay
  /\ replays' = [replays EXCEPT ![s] = NoReplay]
  /\ UNCHANGED <<phase, started, running, buffers, target, past, since>>

StartTunnel(p) ==
  /\ phase = "up" /\ p \notin running
  /\ started' = started \cup {p} /\ running' = running \cup {p}
  /\ UNCHANGED <<phase, buffers, inProgress, past, since>>

StopTunnel(p) ==
  /\ p \in running
  /\ running' = running \ {p}
  /\ UNCHANGED <<phase, started, buffers, inProgress, past, since>>

\* The process is gone.
End ==
  /\ phase = "up"
  /\ phase' = "down"
  /\ started' = {} /\ running' = {}
  /\ bufs' = Empty /\ replays' = Idle
  /\ UNCHANGED <<target, past, since>>

\* #persistReplayMeta, then the process ends.
Shutdown == End /\ file' = [p \in Profiles |-> ToMeta(bufs[p])]

Crash == End /\ UNCHANGED file

\* Slip: loads them newest first, the order of getAll.
LoadReversed ==
  /\ phase = "down"
  /\ phase' = "up"
  /\ since' = next
  /\ bufs' = [p \in Profiles |-> RestoreFromMeta(GetAll(file[p], 0))]
  /\ UNCHANGED <<started, running, file, inProgress, past>>

\* #loadReplayMeta: entries of the file that are not past their TTL.  Any of
\* them may be, as the clock of the machine may be set.
Load ==
  /\ phase = "down"
  /\ phase' = "up"
  /\ since' = next
  /\ \E fresh \in [Profiles -> UNION {Filtered(file[p]) : p \in Profiles}] :
       /\ \A p \in Profiles : fresh[p] \in Filtered(file[p])
       /\ bufs' = [p \in Profiles |-> RestoreFromMeta(fresh[p])]
  /\ UNCHANGED <<started, running, file, inProgress, past>>

StoreNext ==
  \/ \E p \in Profiles :
       Capture(p) \/ StartTunnel(p) \/ StopTunnel(p)
       \/ \E s \in Slots, id \in Ids : Replay(s, p, id)
  \/ \E s \in Slots : ReplayDone(s) \/ ReplayFails(s)
  \/ Load \/ Shutdown \/ Crash

StoreSpec == StoreInit /\ [][StoreNext]_storeVars

-----------------------------------------------------------------------------
(* Properties                                                              *)

\* Every variable keeps its type.
TypeOK ==
  /\ phase \in {"up", "down"}
  /\ running \subseteq started /\ started \subseteq Profiles
  /\ bufs \in [Profiles -> Seq(Entries)] /\ file \in [Profiles -> Seq(Entries)]
  /\ replays \in [Slots -> Entries \cup {NoReplay}]
  /\ target \in [Slots -> Profiles]
  /\ next \in 1..(MaxId + 1) /\ since \in 1..next
  /\ original \in [Ids -> Bodies]
  /\ origin \in [Ids -> Profiles]

\* The buffers and the file stay within the capacity, through any number of
\* restarts: restoring does not check it.
Bounded ==
  \A p \in Profiles : Len(bufs[p]) <= Capacity /\ Len(file[p]) <= Capacity

\* What is replayed is the request that was captured: the local target gets
\* the original body, also when the entry has been evicted meanwhile, and an
\* entry whose body was left out or lost in a restart is never replayed.  Not
\* so for bodies that are no text, which were decoded as UTF-8.
ReplayFaithful ==
  \A s \in Slots : replays[s] # NoReplay =>
    LET body == original[replays[s].id] IN
    body \notin Binaries => replays[s].body = body

\* list-requests shows the newest first, each request once and only requests
\* of that profile, whatever was restored, evicted or replayed before.
ListedNewestFirst ==
  \A p \in Profiles : \A limit \in 0..Capacity :
    LET list == GetAll(bufs[p], limit) IN
    \A i \in DOMAIN list :
      /\ origin[list[i].id] = p
      /\ \A j \in 1..(i - 1) : list[j].id > list[i].id

\* A request recorded by this process is only evicted by newer ones.
EvictsOldest ==
  phase = "up" =>
    \A id \in since..(next - 1) :
      LET buf == bufs[origin[id]] IN
      Matches(buf, id) = {} =>
        Len(buf) = Capacity /\ \A i \in DOMAIN buf : buf[i].id > id
=============================================================================
