-------------------------- MODULE RequestLogProofs --------------------------
(***************************************************************************)
(* Theorems about the two places that keep a log of requests: the replay   *)
(* buffers of the daemon (ReplayStore), for every capacity, every set of   *)
(* profiles and any number of requests and replays in progress, and the    *)
(* dashboard (Dashboard), for any tunnels, responses and attaches.         *)
(***************************************************************************)
EXTENDS ReplayStore, Dashboard, SequenceTheorems, WellFoundedInduction, TLAPS

-----------------------------------------------------------------------------
(* ReplayStore *)

\* An entry of p's buffer describes one of the n - 1 requests recorded so far,
\* with these bodies and profiles.
Describes(e, p, n, bodies, profiles) ==
  /\ e.id < n
  /\ profiles[e.id] = p
  /\ e.state = "available" => e.body = Decode(bodies[e.id])

Ascending(buf) == \A i, j \in 1..Len(buf) : i < j => buf[i].id < buf[j].id

\* What is true of a buffer, in memory or in the file.
Sound(buf, p, n, bodies, profiles) ==
  /\ buf \in Seq(Entries)
  /\ Len(buf) <= Capacity
  /\ Ascending(buf)
  /\ \A i \in 1..Len(buf) : Describes(buf[i], p, n, bodies, profiles)

\* The file holds what toMeta leaves.
MetaSound(buf, p, n, bodies, profiles) ==
  /\ Sound(buf, p, n, bodies, profiles)
  /\ \A i \in 1..Len(buf) : buf[i].state = "unavailable"

\* The same of a replay in progress, which keeps its entry when the buffer
\* has evicted it.
ReplaySound(e, n, bodies) ==
  e # NoReplay => e \in Entries /\ e.id < n /\ e.body = Decode(bodies[e.id])

\* The inductive invariant.
StoreInv ==
  /\ TypeOK
  /\ \A p \in Profiles : Sound(bufs[p], p, next, original, origin)
  /\ \A p \in Profiles : MetaSound(file[p], p, next, original, origin)
  /\ \A s \in Slots : ReplaySound(replays[s], next, original)
  /\ EvictsOldest

\* The part of EvictsOldest that is about one request.
Evicted(buf, id) ==
  Matches(buf, id) = {} => Len(buf) = Capacity /\ \A i \in DOMAIN buf : buf[i].id > id

-----------------------------------------------------------------------------
(* The operators of the buffer                                             *)

\* An entry bears the number of a recorded request.
LEMMA EntryIsNumbered ==
  ASSUME NEW e \in Entries
  PROVE  e.id \in Ids
BY DEF Entries

\* find() has a first match where it has one.
LEMMA LeastOfNat ==
  ASSUME NEW M \in SUBSET Nat, M # {}
  PROVE  \E m \in M : \A j \in M : m <= j
<1>. DEFINE R == {p \in Nat \X Nat : p[1] < p[2]}
<1>1. R = OpToRel(<, Nat)
  BY DEF OpToRel
<1>2. PICK m \in M : \A j \in M : ~(<<j, m>> \in R)
  <2>. HIDE DEF R
  <2>. QED BY <1>1, NatLessThanWellFounded, WFMin
<1>3. ASSUME NEW j \in M
      PROVE  m <= j
  <2>1. <<j, m>> \in Nat \X Nat /\ <<j, m>>[1] = j /\ <<j, m>>[2] = m
    OBVIOUS
  <2>2. ~(j < m)
    BY <1>2, <2>1
  <2>. QED BY <2>2
<1>. QED BY <1>3

\* push leaves k of the old entries out, the first one or none, and puts the
\* new one at the end; it leaves one out only where there is no room.
LEMMA PushShifts ==
  ASSUME NEW buf \in Seq(Entries), Len(buf) <= Capacity, NEW e \in Entries
  PROVE  \E k \in {0, 1} :
           /\ k = 1 => Len(buf) = Capacity
           /\ Len(Push(buf, e)) = Len(buf) + 1 - k
           /\ Len(Push(buf, e)) <= Capacity
           /\ Push(buf, e) \in Seq(Entries)
           /\ \A i \in 1..Len(buf) - k : Push(buf, e)[i] = buf[i + k]
           /\ Push(buf, e)[Len(buf) + 1 - k] = e
<1>. DEFINE longer == Append(buf, e)
<1>1. /\ longer \in Seq(Entries)
      /\ Len(longer) = Len(buf) + 1
      /\ \A i \in 1..Len(buf) : longer[i] = buf[i]
      /\ longer[Len(buf) + 1] = e
  OBVIOUS
<1>2. CASE Len(longer) > Capacity
  <2>1. Push(buf, e) = Tail(longer)
    BY <1>2 DEF Push
  <2>2. Len(buf) = Capacity
    BY <1>1, <1>2, CapacityAssumption
  <2>3. /\ Tail(longer) \in Seq(Entries)
        /\ Len(Tail(longer)) = Len(buf)
        /\ \A i \in 1..Len(buf) : Tail(longer)[i] = longer[i + 1]
    <3>. HIDE DEF longer
    <3>. QED BY <1>1, <2>2, CapacityAssumption
  <2>4. \A i \in 1..Len(buf) - 1 : Tail(longer)[i] = buf[i + 1]
    BY <1>1, <2>3
  <2>5. Tail(longer)[Len(buf)] = e
    BY <1>1, <2>2, <2>3, CapacityAssumption
  <2>. WITNESS 1 \in {0, 1}
  <2>. HIDE DEF longer
  <2>. QED BY <2>1, <2>2, <2>3, <2>4, <2>5, CapacityAssumption
<1>3. CASE ~(Len(longer) > Capacity)
  <2>1. Push(buf, e) = longer
    BY <1>3 DEF Push
  <2>. QED BY <1>1, <1>3, <2>1, CapacityAssumption
<1>. QED BY <1>2, <1>3

\* Pushing the request that is being recorded keeps a buffer sound.
LEMMA PushSound ==
  ASSUME NEW p, NEW n \in Ids,
         NEW bodies \in [Ids -> Bodies], NEW profiles \in [Ids -> Profiles],
         NEW buf, Sound(buf, p, n, bodies, profiles),
         NEW body \in Bodies,
         NEW e \in Entries, e.id = n, e.state = "available" => e.body = Decode(body)
  PROVE  Sound(Push(buf, e), p, n + 1, [bodies EXCEPT ![n] = body],
               [profiles EXCEPT ![n] = p])
<1>. DEFINE b2 == [bodies EXCEPT ![n] = body]
            p2 == [profiles EXCEPT ![n] = p]
            new == Push(buf, e)
<1>1. PICK k \in {0, 1} :
           /\ Len(new) = Len(buf) + 1 - k
           /\ Len(new) <= Capacity
           /\ new \in Seq(Entries)
           /\ \A i \in 1..Len(buf) - k : new[i] = buf[i + k]
           /\ new[Len(buf) + 1 - k] = e
  BY PushShifts DEF Sound
<1>. HIDE DEF new
<1>2. Len(buf) \in Nat /\ \A i \in 1..Len(buf) : buf[i] \in Entries /\ buf[i].id \in Ids
  BY EntryIsNumbered DEF Sound
<1>3. ASSUME NEW i \in 1..Len(new)
      PROVE  \/ i + k \in 1..Len(buf) /\ new[i] = buf[i + k]
             \/ i = Len(new) /\ new[i] = e
  BY <1>1, <1>2
<1>4. Ascending(new)
  <2>1. \A i \in 1..Len(buf) : buf[i].id < n
    BY DEF Sound, Describes
  <2>2. \A i, j \in 1..Len(buf) : i < j => buf[i].id < buf[j].id
    BY DEF Sound, Ascending
  <2>3. SUFFICES ASSUME NEW i \in 1..Len(new), NEW j \in 1..Len(new), i < j
                 PROVE  new[i].id < new[j].id
    BY DEF Ascending
  <2>4. i + k \in 1..Len(buf) /\ new[i] = buf[i + k]
    BY <1>1, <1>3, <2>3
  <2>5. CASE j + k \in 1..Len(buf) /\ new[j] = buf[j + k]
    <3>1. i + k < j + k
      BY <2>3, <1>1
    <3>. QED BY <2>2, <2>4, <2>5, <3>1
  <2>6. CASE new[j] = e
    BY <2>1, <2>4, <2>6
  <2>. QED BY <1>3, <2>5, <2>6
<1>5. ASSUME NEW i \in 1..Len(new)
      PROVE  Describes(new[i], p, n + 1, b2, p2)
  <2>1. CASE i + k \in 1..Len(buf) /\ new[i] = buf[i + k]
    <3>1. buf[i + k].id \in Ids /\ buf[i + k].id < n
      BY <1>2, <2>1 DEF Sound, Describes
    <3>2. b2[buf[i + k].id] = bodies[buf[i + k].id] /\ p2[buf[i + k].id] = profiles[buf[i + k].id]
      BY <3>1 DEF Ids
    <3>3. buf[i + k].id < n + 1
      BY <3>1 DEF Ids
    <3>. QED BY <2>1, <3>2, <3>3 DEF Sound, Describes
  <2>2. CASE new[i] = e
    <3>1. n < n + 1 /\ b2[n] = body /\ p2[n] = p
      BY DEF Ids
    <3>. QED BY <2>2, <3>1 DEF Describes
  <2>. QED BY <1>3, <2>1, <2>2
<1>. QED BY <1>1, <1>4, <1>5 DEF Sound, new

\* Recording a request leaves the other buffers and the files sound.
LEMMA RecordKeepsSound ==
  ASSUME NEW p, NEW q, NEW n \in Ids,
         NEW bodies \in [Ids -> Bodies], NEW profiles \in [Ids -> Profiles],
         NEW buf, Sound(buf, p, n, bodies, profiles), NEW body
  PROVE  Sound(buf, p, n + 1, [bodies EXCEPT ![n] = body], [profiles EXCEPT ![n] = q])
<1>1. ASSUME NEW i \in 1..Len(buf)
      PROVE  Describes(buf[i], p, n + 1, [bodies EXCEPT ![n] = body],
                       [profiles EXCEPT ![n] = q])
  <2>1. buf[i] \in Entries /\ Describes(buf[i], p, n, bodies, profiles)
    BY DEF Sound
  <2>2. buf[i].id \in Ids /\ buf[i].id < n
    BY <2>1, EntryIsNumbered DEF Describes
  <2>3. /\ [bodies EXCEPT ![n] = body][buf[i].id] = bodies[buf[i].id]
        /\ [profiles EXCEPT ![n] = q][buf[i].id] = profiles[buf[i].id]
        /\ buf[i].id < n + 1
    BY <2>2 DEF Ids
  <2>. QED BY <2>1, <2>3 DEF Describes
<1>. QED BY <1>1 DEF Sound

\* The same of the replays in progress.
LEMMA RecordKeepsReplay ==
  ASSUME NEW n \in Ids, NEW bodies \in [Ids -> Bodies],
         NEW e, ReplaySound(e, n, bodies), NEW body
  PROVE  ReplaySound(e, n + 1, [bodies EXCEPT ![n] = body])
<1>. SUFFICES ASSUME e # NoReplay
              PROVE  /\ e \in Entries /\ e.id < n + 1
                     /\ e.body = Decode([bodies EXCEPT ![n] = body][e.id])
  BY DEF ReplaySound
<1>1. e \in Entries /\ e.id < n /\ e.body = Decode(bodies[e.id])
  BY DEF ReplaySound
<1>2. e.id \in Ids
  BY <1>1, EntryIsNumbered
<1>3. [bodies EXCEPT ![n] = body][e.id] = bodies[e.id] /\ e.id < n + 1
  BY <1>1, <1>2 DEF Ids
<1>. QED BY <1>1, <1>3

\* Saving and restoring keep a buffer sound: what they change is only told of
\* entries whose body is available.
LEMMA ToMetaSound ==
  ASSUME NEW p, NEW n, NEW bodies, NEW profiles,
         NEW buf, Sound(buf, p, n, bodies, profiles)
  PROVE  MetaSound(ToMeta(buf), p, n, bodies, profiles)
<1>. DEFINE meta == ToMeta(buf)
<1>1. buf \in Seq(Entries) /\ DOMAIN buf = 1..Len(buf) /\ Len(buf) \in Nat
  BY DEF Sound
<1>2. \A i \in 1..Len(buf) : buf[i] \in Entries /\ buf[i].id \in Ids
  BY <1>1, EntryIsNumbered
<1>3. ASSUME NEW i \in 1..Len(buf)
      PROVE  /\ meta[i] \in Entries
             /\ meta[i].id = buf[i].id
             /\ meta[i].state = "unavailable"
  BY <1>1, <1>2 DEF ToMeta, Entry, Entries, Stored
<1>4. meta = [i \in 1..Len(buf) |-> meta[i]]
  BY <1>1 DEF ToMeta
<1>. HIDE DEF meta
<1>5. meta \in Seq(Entries) /\ Len(meta) = Len(buf)
  BY <1>1, <1>3, <1>4
<1>6. Ascending(meta)
  BY <1>3, <1>5 DEF Sound, Ascending
<1>7. \A i \in 1..Len(meta) : Describes(meta[i], p, n, bodies, profiles)
  BY <1>3, <1>5 DEF Sound, Describes
<1>. QED BY <1>3, <1>5, <1>6, <1>7 DEF MetaSound, Sound, meta

\* Dropping entries of a buffer leaves the rest of it sound.
LEMMA FilteredSound ==
  ASSUME NEW p, NEW n, NEW bodies, NEW profiles,
         NEW buf, MetaSound(buf, p, n, bodies, profiles),
         NEW some \in Filtered(buf)
  PROVE  MetaSound(some, p, n, bodies, profiles)
<1>1. buf \in Seq(Entries) /\ Len(buf) \in Nat
  BY DEF MetaSound, Sound
<1>2. PICK m \in 0..Len(buf) : \E kept \in Filters(m, Len(buf)) :
             some = [i \in 1..m |-> buf[kept[i]]]
  BY DEF Filtered
<1>3. PICK kept \in Filters(m, Len(buf)) : some = [i \in 1..m |-> buf[kept[i]]]
  BY <1>2
<1>4. /\ \A i \in 1..m : kept[i] \in 1..Len(buf)
      /\ \A i, j \in 1..m : i < j => kept[i] < kept[j]
  BY <1>3 DEF Filters
<1>5. \A i \in 1..m : some[i] = buf[kept[i]] /\ some[i] \in Entries
  BY <1>1, <1>3, <1>4
<1>6. some \in Seq(Entries) /\ Len(some) = m
  BY <1>1, <1>2, <1>3, <1>5
<1>7. Len(some) <= Capacity
  BY <1>1, <1>2, <1>6, CapacityAssumption DEF MetaSound, Sound
<1>8. Ascending(some)
  BY <1>4, <1>5, <1>6 DEF MetaSound, Sound, Ascending
<1>9. \A i \in 1..Len(some) : Describes(some[i], p, n, bodies, profiles)
  BY <1>4, <1>5, <1>6 DEF MetaSound, Sound
<1>. QED BY <1>4, <1>5, <1>6, <1>7, <1>8, <1>9 DEF MetaSound, Sound

\* Restoring what was saved gives a sound buffer.
LEMMA RestoreSound ==
  ASSUME NEW p, NEW n, NEW bodies, NEW profiles,
         NEW buf, MetaSound(buf, p, n, bodies, profiles)
  PROVE  Sound(RestoreFromMeta(buf), p, n, bodies, profiles)
<1>. DEFINE new == RestoreFromMeta(buf)
<1>1. buf \in Seq(Entries) /\ DOMAIN buf = 1..Len(buf) /\ Len(buf) \in Nat
  BY DEF MetaSound, Sound
<1>2. \A i \in 1..Len(buf) : buf[i] \in Entries
  BY <1>1
<1>3. ASSUME NEW i \in 1..Len(buf)
      PROVE  /\ new[i] \in Entries
             /\ new[i].id = buf[i].id
             /\ new[i].state = buf[i].state
  <2>1. buf[i] \in Entries
    BY <1>2
  <2>2. new[i] = [buf[i] EXCEPT !.body = NoBody]
    BY <1>1 DEF RestoreFromMeta
  <2>. HIDE DEF new
  <2>. QED BY <2>1, <2>2 DEF Entries, Stored
<1>4. new = [i \in 1..Len(buf) |-> new[i]]
  BY <1>1 DEF RestoreFromMeta
<1>. HIDE DEF new
<1>5. new \in Seq(Entries) /\ Len(new) = Len(buf)
  BY <1>1, <1>3, <1>4
<1>6. Ascending(new)
  BY <1>3, <1>5 DEF MetaSound, Sound, Ascending
<1>7. \A i \in 1..Len(new) : Describes(new[i], p, n, bodies, profiles)
  BY <1>3, <1>5 DEF MetaSound, Sound, Describes
<1>. QED BY <1>5, <1>6, <1>7 DEF MetaSound, Sound, new

\* A push evicts the oldest entry and no other.
LEMMA PushEvictsOldest ==
  ASSUME NEW p, NEW n \in Ids, NEW bodies, NEW profiles,
         NEW buf, Sound(buf, p, n, bodies, profiles),
         NEW e \in Entries, e.id = n,
         NEW id \in Ids, id < n, Evicted(buf, id)
  PROVE  Evicted(Push(buf, e), id)
<1>. DEFINE new == Push(buf, e)
<1>1. PICK k \in {0, 1} :
           /\ k = 1 => Len(buf) = Capacity
           /\ Len(new) = Len(buf) + 1 - k
           /\ Len(new) <= Capacity
           /\ new \in Seq(Entries)
           /\ \A i \in 1..Len(buf) - k : new[i] = buf[i + k]
           /\ new[Len(buf) + 1 - k] = e
  BY PushShifts DEF Sound
<1>. HIDE DEF new
<1>2. /\ Len(buf) \in Nat /\ DOMAIN buf = 1..Len(buf)
      /\ DOMAIN new = 1..Len(new)
      /\ \A i \in 1..Len(buf) : buf[i].id \in Ids
  BY <1>1, EntryIsNumbered DEF Sound
<1>3. ASSUME NEW i \in 1..Len(new)
      PROVE  \/ i + k \in 1..Len(buf) /\ new[i] = buf[i + k]
             \/ i = Len(new) /\ new[i] = e
  BY <1>1, <1>2
<1>4. SUFFICES ASSUME Matches(new, id) = {}
               PROVE  Len(new) = Capacity /\ \A i \in 1..Len(new) : new[i].id > id
  BY <1>2 DEF Evicted, new
<1>5. n > id
  BY DEF Ids
<1>6. CASE Matches(buf, id) = {}
  <2>1. Len(buf) = Capacity /\ \A i \in 1..Len(buf) : buf[i].id > id
    BY <1>2, <1>6 DEF Evicted
  <2>2. Len(new) = Capacity
    BY <1>1, <2>1, CapacityAssumption
  <2>3. ASSUME NEW i \in 1..Len(new)
        PROVE  new[i].id > id
    BY <1>3, <1>5, <2>1
  <2>. QED BY <2>2, <2>3
<1>7. CASE Matches(buf, id) # {}
  <2>1. PICK i \in 1..Len(buf) : buf[i].id = id
    BY <1>2, <1>7 DEF Matches
  <2>2. i = 1 /\ k = 1
    <3>1. ASSUME i > k
          PROVE  FALSE
      <4>1. i - k \in 1..Len(buf) - k /\ (i - k) + k = i /\ i - k \in 1..Len(new)
        BY <1>1, <1>2, <3>1
      <4>2. new[i - k] = buf[i]
        BY <1>1, <4>1
      <4>. QED BY <1>2, <1>4, <2>1, <4>1, <4>2 DEF Matches
    <3>. QED BY <3>1, <1>1, <1>2
  <2>3. Len(new) = Capacity
    BY <1>1, <2>2, <1>2
  <2>4. ASSUME NEW j \in 1..Len(new)
        PROVE  new[j].id > id
    <3>1. CASE j + 1 \in 1..Len(buf) /\ new[j] = buf[j + 1]
      <4>1. buf[1].id < buf[j + 1].id
        BY <2>1, <2>2, <3>1 DEF Sound, Ascending
      <4>2. buf[j + 1].id \in Ids
        BY <1>2, <3>1
      <4>. QED BY <2>1, <2>2, <3>1, <4>1, <4>2 DEF Ids
    <3>2. CASE new[j] = e
      BY <1>5, <3>2
    <3>. QED BY <1>3, <2>2, <3>1, <3>2
  <2>. QED BY <2>3, <2>4
<1>. QED BY <1>6, <1>7

\* The request that was just recorded is in the buffer.
LEMMA PushHasNew ==
  ASSUME NEW buf \in Seq(Entries), Len(buf) <= Capacity, NEW e \in Entries
  PROVE  Matches(Push(buf, e), e.id) # {}
<1>1. PICK k \in {0, 1} :
           /\ Len(Push(buf, e)) = Len(buf) + 1 - k
           /\ k = 1 => Len(buf) = Capacity
           /\ Push(buf, e) \in Seq(Entries)
           /\ Push(buf, e)[Len(buf) + 1 - k] = e
  BY PushShifts
<1>2. Len(buf) + 1 - k \in DOMAIN Push(buf, e)
  BY <1>1, CapacityAssumption
<1>. QED BY <1>1, <1>2 DEF Matches

-----------------------------------------------------------------------------
(* The invariant                                                           *)

\* Recording a request, captured or replayed, keeps the invariant.
LEMMA RecordingKeepsInvariant ==
  ASSUME StoreInv, NEW p \in Profiles, NEW body \in Bodies, Record(p, body),
         NEW e \in Entries, e.id = next, e.state = "available" => e.body = Decode(body),
         bufs' = [bufs EXCEPT ![p] = Push(bufs[p], e)],
         replays' \in [Slots -> Entries \cup {NoReplay}],
         \A s \in Slots : replays'[s] \in {replays[s], NoReplay},
         UNCHANGED <<phase, started, running, file, target, since>>
  PROVE  StoreInv'
<1>1. /\ next \in Ids /\ next' = next + 1
      /\ original \in [Ids -> Bodies] /\ origin \in [Ids -> Profiles]
      /\ original' = [original EXCEPT ![next] = body]
      /\ origin' = [origin EXCEPT ![next] = p]
  BY StoreAssumption DEF StoreInv, TypeOK, Record, Ids
<1>0. since \in 1..next /\ since' = since
  BY DEF StoreInv, TypeOK
<1>2. \A q \in Profiles : bufs'[q] = IF q = p THEN Push(bufs[p], e) ELSE bufs[q]
  BY DEF StoreInv, TypeOK
<1>3. ASSUME NEW q \in Profiles
      PROVE  Sound(bufs'[q], q, next', original', origin')
  <2>0. Sound(bufs[q], q, next, original, origin)
    BY DEF StoreInv
  <2>1. CASE q = p
    <3>1. Sound(Push(bufs[p], e), p, next + 1, [original EXCEPT ![next] = body],
                [origin EXCEPT ![next] = p])
      BY <1>1, <2>0, <2>1, PushSound
    <3>. QED BY <1>1, <1>2, <2>1, <3>1
  <2>2. CASE q # p
    <3>1. Sound(bufs[q], q, next + 1, [original EXCEPT ![next] = body],
                [origin EXCEPT ![next] = p])
      BY <1>1, <2>0, RecordKeepsSound
    <3>. QED BY <1>1, <1>2, <2>2, <3>1
  <2>. QED BY <2>1, <2>2
<1>4. ASSUME NEW q \in Profiles
      PROVE  MetaSound(file[q], q, next', original', origin')
  <2>1. MetaSound(file[q], q, next, original, origin)
    BY DEF StoreInv
  <2>2. Sound(file[q], q, next', original', origin')
    BY <1>1, <2>1, RecordKeepsSound DEF MetaSound
  <2>. QED BY <2>1, <2>2 DEF MetaSound
<1>5. ASSUME NEW s \in Slots
      PROVE  ReplaySound(replays'[s], next', original')
  <2>1. CASE replays'[s] = replays[s]
    <3>1. ReplaySound(replays[s], next, original)
      BY DEF StoreInv
    <3>. QED BY <1>1, <2>1, <3>1, RecordKeepsReplay
  <2>2. CASE replays'[s] = NoReplay
    BY <2>2 DEF ReplaySound
  <2>. QED BY <2>1, <2>2
<1>6. EvictsOldest'
  <2>1. SUFFICES ASSUME phase = "up", NEW id \in since..next
                 PROVE  Evicted(bufs'[origin'[id]], id)
    <3>1. phase' = phase /\ since'..(next' - 1) = since..next
      BY <1>0, <1>1 DEF Ids
    <3>. QED BY <3>1 DEF EvictsOldest, Evicted
  <2>2. since \in 1..next /\ id \in Ids
    BY <1>0, <1>1, StoreAssumption DEF Ids
  <2>3. CASE id = next
    <3>1. origin'[id] = p
      BY <1>1, <2>3
    <3>2. Sound(bufs[p], p, next, original, origin)
      BY DEF StoreInv
    <3>3. Matches(Push(bufs[p], e), next) # {}
      BY <3>2, PushHasNew DEF Sound
    <3>. QED BY <1>2, <2>3, <3>1, <3>3 DEF Evicted
  <2>4. CASE id < next
    <3>1. origin'[id] = origin[id] /\ origin[id] \in Profiles
      BY <1>1, <2>2, <2>4 DEF Ids
    <3>2. Evicted(bufs[origin[id]], id)
      <4>1. id \in since..(next - 1)
        BY <1>1, <2>2, <2>4 DEF Ids
      <4>. QED BY <2>1, <4>1 DEF StoreInv, EvictsOldest, Evicted
    <3>3. CASE origin[id] = p
      <4>1. Sound(bufs[p], p, next, original, origin)
        BY DEF StoreInv
      <4>2. Evicted(Push(bufs[p], e), id)
        BY <1>1, <2>2, <2>4, <3>2, <3>3, <4>1, PushEvictsOldest
      <4>. QED BY <1>2, <3>1, <3>3, <4>2
    <3>4. CASE origin[id] # p
      BY <1>2, <3>1, <3>2, <3>4
    <3>. QED BY <3>3, <3>4
  <2>. QED BY <1>1, <2>2, <2>3, <2>4 DEF Ids
<1>7. TypeOK'
  <2>1. next' \in 1..(MaxId + 1) /\ since' \in 1..next'
    BY <1>1, StoreAssumption DEF StoreInv, TypeOK, Ids
  <2>2. original' \in [Ids -> Bodies] /\ origin' \in [Ids -> Profiles]
    BY <1>1
  <2>3. bufs' \in [Profiles -> Seq(Entries)]
    <3>1. \A q \in Profiles : bufs'[q] \in Seq(Entries)
      BY <1>3 DEF Sound
    <3>. QED BY <3>1 DEF StoreInv, TypeOK
  <2>. QED BY <2>1, <2>2, <2>3 DEF StoreInv, TypeOK
<1>. QED BY <1>3, <1>4, <1>5, <1>6, <1>7 DEF StoreInv

\* The end of the process keeps the invariant, if the file is fit to load.
LEMMA EndKeepsInvariant ==
  ASSUME StoreInv, End,
         file' \in [Profiles -> Seq(Entries)],
         \A p \in Profiles : MetaSound(file'[p], p, next, original, origin)
  PROVE  StoreInv'
<1>1. TypeOK'
  BY DEF StoreInv, TypeOK, End, past, Empty, Idle
<1>2. ASSUME NEW p \in Profiles
      PROVE  Sound(bufs'[p], p, next', original', origin')
  <2>1. bufs'[p] = <<>>
    BY DEF End, Empty
  <2>2. <<>> \in Seq(Entries) /\ Len(<<>>) = 0
    OBVIOUS
  <2>. QED BY <2>1, <2>2, CapacityAssumption DEF Sound, Ascending
<1>3. \A p \in Profiles : MetaSound(file'[p], p, next', original', origin')
  BY DEF End, past
<1>4. \A s \in Slots : ReplaySound(replays'[s], next', original')
  BY DEF End, Idle, ReplaySound
<1>5. EvictsOldest'
  BY DEF End, EvictsOldest
<1>. QED BY <1>1, <1>2, <1>3, <1>4, <1>5 DEF StoreInv

\* The buffers start empty.
LEMMA InvariantInit == StoreInit => StoreInv
<1>. SUFFICES ASSUME StoreInit PROVE StoreInv
  OBVIOUS
<1>1. TypeOK
  <2>1. <<>> \in Seq(Entries)
    OBVIOUS
  <2>2. bufs \in [Profiles -> Seq(Entries)] /\ file \in [Profiles -> Seq(Entries)]
    BY <2>1 DEF StoreInit, Empty
  <2>3. /\ next \in 1..(MaxId + 1) /\ since \in 1..next
        /\ original \in [Ids -> Bodies] /\ origin \in [Ids -> Profiles]
    BY StoreAssumption DEF StoreInit, Bodies
  <2>4. /\ phase \in {"up", "down"}
        /\ running \subseteq started /\ started \subseteq Profiles
        /\ replays \in [Slots -> Entries \cup {NoReplay}]
        /\ target \in [Slots -> Profiles]
    BY StoreAssumption DEF StoreInit, Idle
  <2>. QED BY <2>2, <2>3, <2>4 DEF TypeOK
<1>2. ASSUME NEW p \in Profiles
      PROVE  MetaSound(<<>>, p, next, original, origin)
  <2>1. <<>> \in Seq(Entries) /\ Len(<<>>) = 0
    OBVIOUS
  <2>. QED BY <2>1, CapacityAssumption DEF MetaSound, Sound, Ascending
<1>3. \A p \in Profiles : bufs[p] = <<>> /\ file[p] = <<>>
  BY DEF StoreInit, Empty
<1>4. \A s \in Slots : ReplaySound(replays[s], next, original)
  BY DEF StoreInit, Idle, ReplaySound
<1>5. EvictsOldest
  BY DEF StoreInit, EvictsOldest
<1>. QED BY <1>1, <1>2, <1>3, <1>4, <1>5 DEF StoreInv, MetaSound

\* A body that can be captured is stored as one the type allows.
LEMMA DecodeStored ==
  ASSUME NEW body \in Bodies
  PROVE  Decode(body) \in Stored /\ NoBody \in Stored
BY DEF Bodies, Stored, Decode

\* A request that comes in is recorded.
LEMMA CaptureKeepsInvariant ==
  ASSUME StoreInv, NEW p \in Profiles, Capture(p)
  PROVE  StoreInv'
<1>1. PICK body \in Bodies :
        /\ Record(p, body)
        /\ \E e \in {Entry(next, Decode(body), "available"), Entry(next, NoBody, "unavailable")} :
             bufs' = [bufs EXCEPT ![p] = Push(bufs[p], e)]
  BY DEF Capture
<1>2. next \in Ids
  BY <1>1, StoreAssumption DEF StoreInv, TypeOK, Record, Ids
<1>3. PICK e \in {Entry(next, Decode(body), "available"), Entry(next, NoBody, "unavailable")} :
        bufs' = [bufs EXCEPT ![p] = Push(bufs[p], e)]
  BY <1>1
<1>4. e \in Entries /\ e.id = next /\ (e.state = "available" => e.body = Decode(body))
  BY <1>2, <1>3, DecodeStored DEF Entry, Entries
<1>5. /\ replays' \in [Slots -> Entries \cup {NoReplay}]
      /\ \A s \in Slots : replays'[s] \in {replays[s], NoReplay}
      /\ UNCHANGED <<phase, started, running, file, target, since>>
  BY DEF Capture, inProgress, StoreInv, TypeOK
<1>. QED BY <1>1, <1>3, <1>4, <1>5, RecordingKeepsInvariant

\* A replay that is answered is recorded like a request.
LEMMA ReplayDoneKeepsInvariant ==
  ASSUME StoreInv, NEW s \in Slots, ReplayDone(s)
  PROVE  StoreInv'
<1>. DEFINE body == original[replays[s].id]
            e == Entry(next, replays[s].body, "available")
<1>1. replays[s] \in Entries /\ replays[s].body = Decode(body) /\ target[s] \in Profiles
  BY DEF ReplayDone, StoreInv, ReplaySound, TypeOK
<1>2. replays[s].id \in Ids /\ body \in Bodies
  BY <1>1, EntryIsNumbered DEF StoreInv, TypeOK
<1>3. Record(target[s], body) /\ next \in Ids
  BY StoreAssumption DEF ReplayDone, StoreInv, TypeOK, Record, Ids
<1>4. e \in Entries /\ e.id = next /\ (e.state = "available" => e.body = Decode(body))
  BY <1>1, <1>3 DEF Entry, Entries
<1>5. bufs' = [bufs EXCEPT ![target[s]] = Push(bufs[target[s]], e)]
  BY DEF ReplayDone
<1>6. /\ replays' \in [Slots -> Entries \cup {NoReplay}]
      /\ \A t \in Slots : replays'[t] \in {replays[t], NoReplay}
      /\ UNCHANGED <<phase, started, running, file, target, since>>
  BY DEF ReplayDone, StoreInv, TypeOK
<1>. HIDE DEF body, e
<1>. QED BY <1>1, <1>2, <1>3, <1>4, <1>5, <1>6, RecordingKeepsInvariant

\* A replay holds on to the entry it was asked for.
LEMMA ReplayKeepsInvariant ==
  ASSUME StoreInv, NEW s \in Slots, NEW p \in Profiles, NEW id \in Ids, Replay(s, p, id)
  PROVE  StoreInv'
<1>. DEFINE e == GetById(bufs[p], id)
<1>1. Sound(bufs[p], p, next, original, origin)
  BY DEF StoreInv
<1>2. Matches(bufs[p], id) # {} /\ Matches(bufs[p], id) \subseteq 1..Len(bufs[p])
  BY <1>1 DEF Replay, Matches, Sound
<1>3. PICK i \in Matches(bufs[p], id) : e = bufs[p][i]
  <2>. DEFINE M == Matches(bufs[p], id)
  <2>1. PICK m \in M : \A j \in M : m <= j
    <3>1. M \in SUBSET Nat /\ M # {}
      BY <1>1, <1>2 DEF Sound
    <3>. HIDE DEF M
    <3>. QED BY <3>1, LeastOfNat
  <2>. QED BY <2>1 DEF GetById
<1>4. e \in Entries /\ Describes(e, p, next, original, origin)
  BY <1>1, <1>2, <1>3 DEF Sound
<1>5. e.state = "available" /\ replays' = [replays EXCEPT ![s] = e]
  BY DEF Replay
<1>. HIDE DEF e
<1>6. ReplaySound(e, next, original)
  BY <1>4, <1>5 DEF Describes, ReplaySound
<1>7. \A t \in Slots : ReplaySound(replays'[t], next, original)
  BY <1>5, <1>6 DEF StoreInv, TypeOK
<1>8. TypeOK'
  BY <1>4, <1>5 DEF StoreInv, TypeOK, Replay, buffers, past
<1>9. UNCHANGED <<phase, bufs, file, next, original, origin, since>>
  BY DEF Replay, buffers, past
<1>10. EvictsOldest'
  BY <1>9 DEF StoreInv, EvictsOldest
<1>. QED BY <1>7, <1>8, <1>9, <1>10 DEF StoreInv

\* A new process takes up the file.
LEMMA LoadKeepsInvariant ==
  ASSUME StoreInv, Load
  PROVE  StoreInv'
<1>1. PICK fresh \in [Profiles -> UNION {Filtered(file[p]) : p \in Profiles}] :
        /\ \A p \in Profiles : fresh[p] \in Filtered(file[p])
        /\ bufs' = [p \in Profiles |-> RestoreFromMeta(fresh[p])]
  BY DEF Load
<1>2. UNCHANGED <<started, running, file, replays, target, next, original, origin>>
  BY DEF Load, inProgress, past
<1>3. ASSUME NEW p \in Profiles
      PROVE  Sound(bufs'[p], p, next, original, origin)
  <2>1. MetaSound(file[p], p, next, original, origin)
    BY DEF StoreInv
  <2>2. MetaSound(fresh[p], p, next, original, origin)
    BY <1>1, <2>1, FilteredSound
  <2>. QED BY <1>1, <2>2, RestoreSound
<1>4. phase' = "up" /\ since' = next /\ next \in Nat \ {0}
  <2>1. next \in 1..(MaxId + 1)
    BY DEF StoreInv, TypeOK
  <2>. QED BY <2>1, StoreAssumption DEF Load
<1>5. EvictsOldest'
  <2>1. since'..(next' - 1) = {}
    BY <1>2, <1>4
  <2>. QED BY <2>1 DEF EvictsOldest
<1>6. TypeOK'
  <2>1. bufs' \in [Profiles -> Seq(Entries)]
    BY <1>1, <1>3 DEF Sound
  <2>2. since' \in 1..next'
    BY <1>2, <1>4
  <2>. QED BY <1>2, <1>4, <2>1, <2>2 DEF StoreInv, TypeOK
<1>. QED BY <1>2, <1>3, <1>5, <1>6 DEF StoreInv

\* Every step keeps the invariant.
LEMMA InvariantStep == StoreInv /\ [StoreNext]_storeVars => StoreInv'
<1>. SUFFICES ASSUME StoreInv, [StoreNext]_storeVars PROVE StoreInv'
  OBVIOUS
<1>1. ASSUME NEW p \in Profiles, Capture(p)
      PROVE  StoreInv'
  BY <1>1, CaptureKeepsInvariant
<1>2. ASSUME NEW p \in Profiles, StartTunnel(p)
      PROVE  StoreInv'
  BY <1>2 DEF StartTunnel, StoreInv, TypeOK, EvictsOldest, buffers, inProgress, past
<1>3. ASSUME NEW p \in Profiles, StopTunnel(p)
      PROVE  StoreInv'
  BY <1>3 DEF StopTunnel, StoreInv, TypeOK, EvictsOldest, buffers, inProgress, past
<1>4. ASSUME NEW p \in Profiles, NEW s \in Slots, NEW id \in Ids, Replay(s, p, id)
      PROVE  StoreInv'
  BY <1>4, ReplayKeepsInvariant
<1>5. ASSUME NEW s \in Slots, ReplayDone(s)
      PROVE  StoreInv'
  BY <1>5, ReplayDoneKeepsInvariant
<1>6. ASSUME NEW s \in Slots, ReplayFails(s)
      PROVE  StoreInv'
  <2>1. /\ UNCHANGED <<phase, started, running, bufs, file, target, next, original, origin, since>>
        /\ replays' = [replays EXCEPT ![s] = NoReplay]
    BY <1>6 DEF ReplayFails, buffers, past
  <2>2. \A t \in Slots : ReplaySound(replays'[t], next, original)
    BY <2>1 DEF StoreInv, TypeOK, ReplaySound
  <2>3. TypeOK' /\ EvictsOldest'
    BY <2>1 DEF StoreInv, TypeOK, EvictsOldest
  <2>. QED BY <2>1, <2>2, <2>3 DEF StoreInv
<1>7. CASE Load
  BY <1>7, LoadKeepsInvariant
<1>8. CASE Shutdown
  <2>1. End /\ \A p \in Profiles : file'[p] = ToMeta(bufs[p])
    BY <1>8 DEF Shutdown
  <2>2. \A p \in Profiles : MetaSound(file'[p], p, next, original, origin)
    BY <2>1, ToMetaSound DEF StoreInv
  <2>3. file' \in [Profiles -> Seq(Entries)]
    BY <1>8, <2>1, <2>2 DEF Shutdown, MetaSound, Sound
  <2>. QED BY <2>1, <2>2, <2>3, EndKeepsInvariant
<1>9. CASE Crash
  <2>1. End /\ file' = file
    BY <1>9 DEF Crash
  <2>. QED BY <2>1, EndKeepsInvariant DEF StoreInv, TypeOK
<1>10. CASE UNCHANGED storeVars
  BY <1>10 DEF storeVars, StoreInv, TypeOK, EvictsOldest, buffers, inProgress, past
<1>. QED
  BY <1>1, <1>2, <1>3, <1>4, <1>5, <1>6, <1>7, <1>8, <1>9, <1>10 DEF StoreNext

\* The inductive invariant holds throughout, for any capacity, any number of
\* requests and replays and any sequence of restarts and crashes.
THEOREM StoreInvariant == StoreSpec => []StoreInv
BY InvariantInit, InvariantStep, PTL DEF StoreSpec

\* Every variable keeps its type.
THEOREM StoreTypeOK == StoreSpec => []TypeOK
<1>1. StoreInv => TypeOK
  BY DEF StoreInv
<1>. QED BY <1>1, StoreInvariant, PTL

\* The buffers and the metadata file never exceed the capacity.
THEOREM StoreBounded == StoreSpec => []Bounded
<1>1. StoreInv => Bounded
  BY DEF StoreInv, Bounded, MetaSound, Sound
<1>. QED BY <1>1, StoreInvariant, PTL

\* #handleReplay sends the request that was captured, if its body is text.
THEOREM StoreReplayFaithful == StoreSpec => []ReplayFaithful
<1>1. StoreInv => ReplayFaithful
  BY DEF StoreInv, ReplayFaithful, ReplaySound, Decode
<1>. QED BY <1>1, StoreInvariant, PTL

\* list-requests shows a profile's own requests, newest first, none twice.
THEOREM StoreListedNewestFirst == StoreSpec => []ListedNewestFirst
<1>1. ASSUME StoreInv
      PROVE  ListedNewestFirst
  <2>1. SUFFICES ASSUME NEW p \in Profiles, NEW limit \in 0..Capacity
                 PROVE  LET list == GetAll(bufs[p], limit) IN
                        \A i \in DOMAIN list :
                          /\ origin[list[i].id] = p
                          /\ \A j \in 1..(i - 1) : list[j].id > list[i].id
    BY DEF ListedNewestFirst
  <2>. DEFINE buf == bufs[p]
              n == IF limit = 0 \/ limit > Len(buf) THEN Len(buf) ELSE limit
              list == GetAll(buf, limit)
  <2>2. Sound(buf, p, next, original, origin)
    BY <1>1 DEF StoreInv
  <2>3. Len(buf) \in Nat /\ n \in 0..Len(buf)
    BY <2>2, CapacityAssumption DEF Sound
  <2>4. list = [i \in 1..n |-> buf[Len(buf) + 1 - i]]
    BY DEF GetAll
  <2>. HIDE DEF list, n, buf
  <2>5. DOMAIN list = 1..n /\ \A i \in 1..n : list[i] = buf[Len(buf) + 1 - i]
    BY <2>4
  <2>6. \A i \in 1..n : Len(buf) + 1 - i \in 1..Len(buf)
    BY <2>3
  <2>7. ASSUME NEW i \in 1..n
        PROVE  origin[list[i].id] = p
    BY <2>2, <2>5, <2>6 DEF Sound, Describes
  <2>8. ASSUME NEW i \in 1..n, NEW j \in 1..(i - 1)
        PROVE  list[j].id > list[i].id
    <3>1. j \in 1..n /\ Len(buf) + 1 - i < Len(buf) + 1 - j
      BY <2>3
    <3>2. buf[Len(buf) + 1 - i].id < buf[Len(buf) + 1 - j].id
      BY <2>2, <2>6, <3>1 DEF Sound, Ascending
    <3>3. buf[Len(buf) + 1 - i] \in Entries /\ buf[Len(buf) + 1 - j] \in Entries
      BY <2>2, <2>6, <3>1 DEF Sound
    <3>4. list[i].id \in Ids /\ list[j].id \in Ids /\ list[i].id < list[j].id
      BY <2>5, <3>1, <3>2, <3>3, EntryIsNumbered
    <3>. QED BY <3>4 DEF Ids
  <2>. QED BY <2>5, <2>7, <2>8 DEF list, buf
<1>. QED BY <1>1, StoreInvariant, PTL

\* Only newer requests evict one that this process recorded.
THEOREM StoreEvictsOldest == StoreSpec => []EvictsOldest
<1>1. StoreInv => EvictsOldest
  BY DEF StoreInv
<1>. QED BY <1>1, StoreInvariant, PTL
-----------------------------------------------------------------------------
(* Dashboard *)

Statuses == {"connecting", "connected", "disconnected", "error"}
Pcs == {"none", "attaching", "attached", "answered", "mounted", "hung"}
Msgs == {m \in [kind : {"ok", "response", "status", "closed"}, n : Nat, status : Statuses] :
           m.kind = "closed" => m.status = "disconnected"}
Attachments ==
  [tunnel : Tunnels \cup {NoTunnel}, pc : Pcs, open : BOOLEAN, count : Nat,
   status : Statuses, missed : BOOLEAN]

\* Attaches begin in order, each for a tunnel, and one that has not begun has no
\* socket.
Begun ==
  \A g \in Gens :
    /\ g > cur => attach[g].pc = "none"
    /\ attach[g].pc # "none" => attach[g].tunnel \in Tunnels
    /\ attach[g].pc = "none" => ~attach[g].open

\* What the theorems need of the types.
Types ==
  /\ alive \in BOOLEAN /\ active \subseteq Tunnels
  /\ status \in [Tunnels -> Statuses]
  /\ served \in [Tunnels -> Nat]
  /\ attach \in [Gens -> Attachments]
  /\ wire \in [Gens -> Seq(Msgs)]
  /\ cur \in Gens
  /\ prof \in Tunnels \cup {NoTunnel} /\ ear \in 0..cur /\ shown \in Statuses
  /\ batch \in Seq(Nat) /\ count \in Nat
  /\ crossed \in BOOLEAN
  /\ Begun

\* What a step of Next is, by name.
LEMMA StepCases ==
  ASSUME [Next]_vars,
         NEW G,
         \A t \in Tunnels : Serve(t) => G,
         \A t \in Tunnels : LinkUp(t) \/ LinkDown(t) \/ LinkRefused(t) => G,
         \A t \in Tunnels : Stop(t) => G,
         DaemonEnds => G,
         \A t \in Tunnels : SwitchTo(t) => G,
         \A g \in Gens : AttachOk(g) => G,
         \A g \in Gens : Read(g) => G,
         \A g \in Gens : Mount(g) => G,
         FlushBatch => G,
         OpenSwitcher \/ CloseSwitcher \/ TogglePause \/ MoveCursor
           \/ OpenDetail \/ CloseDetail \/ UNCHANGED vars => G
  PROVE  G
BY DEF Next

\* The keys of the main view and of the modals change none of this.
LEMMA KeysUnchanged ==
  ASSUME OpenSwitcher \/ CloseSwitcher \/ TogglePause \/ MoveCursor
           \/ OpenDetail \/ CloseDetail \/ UNCHANGED vars
  PROVE  UNCHANGED <<alive, active, status, served, wire, attach, cur, prof, ear, shown,
                     batch, count, crossed>>
BY DEF OpenSwitcher, CloseSwitcher, TogglePause, MoveCursor, OpenDetail, CloseDetail,
       vars, daemonSide, links, client, screen, history

\* A new attach is one, and nothing was heard of it.
LEMMA AttachingType ==
  ASSUME NEW t \in Tunnels
  PROVE  /\ Attaching(t) \in Attachments
         /\ Attaching(t).tunnel = t /\ Attaching(t).pc = "attaching"
         /\ Attaching(t).open /\ Attaching(t).count = 0
         /\ Attaching(t).status = "connecting" /\ ~Attaching(t).missed
BY DEF Attaching, None, Attachments, Pcs, Statuses

\* Who is told of an event of t: those attached to it, whose socket is open.
Hears(g, t) ==
  attach[g].tunnel = t /\ attach[g].open /\ attach[g].pc \notin {"none", "attaching"}

\* What an event of t leaves on the wires.
LEMMA ToldOf ==
  ASSUME Types, NEW t \in Tunnels, NEW m \in Msgs, Tell(t, m)
  PROVE  /\ wire' \in [Gens -> Seq(Msgs)]
         /\ \A g \in Gens : wire'[g] = IF Hears(g, t) THEN Append(wire[g], m) ELSE wire[g]
<1>. DEFINE W(g) == IF Hears(g, t) THEN Append(wire[g], m) ELSE wire[g]
<1>1. wire' = [g \in Gens |-> W(g)]
  BY DEF Tell, Hears
<1>2. ASSUME NEW g \in Gens PROVE W(g) \in Seq(Msgs)
  <2>1. wire[g] \in Seq(Msgs)
    BY DEF Types
  <2>2. Append(wire[g], m) \in Seq(Msgs)
    BY <2>1
  <2>. QED BY <2>1, <2>2
<1>. HIDE DEF W
<1>3. wire' \in [Gens -> Seq(Msgs)] /\ \A g \in Gens : wire'[g] = W(g)
  BY <1>1, <1>2
<1>. QED BY <1>3 DEF W

\* What a change of a link or a stop leaves: a status that everyone attached is
\* told, or no change of it.
LEMMA Reported ==
  ASSUME Types, NEW t \in Tunnels, LinkUp(t) \/ LinkDown(t) \/ LinkRefused(t) \/ Stop(t)
  PROVE  /\ UNCHANGED <<alive, served, attach, cur, prof, ear, shown, batch, count, crossed>>
         /\ active' \subseteq active
         /\ \/ status' = status /\ wire' = wire
            \/ \E m \in Msgs :
                 /\ m.kind = "status" /\ status' = [status EXCEPT ![t] = m.status]
                 /\ status' \in [Tunnels -> Statuses] /\ status'[t] = m.status
                 /\ wire' \in [Gens -> Seq(Msgs)]
                 /\ \A g \in Gens : wire'[g] = IF Hears(g, t) THEN Append(wire[g], m) ELSE wire[g]
<1>1. ASSUME NEW s \in Statuses, Report(t, s)
      PROVE  \E m \in Msgs :
               /\ m.kind = "status" /\ status' = [status EXCEPT ![t] = m.status]
               /\ status' \in [Tunnels -> Statuses] /\ status'[t] = m.status
               /\ wire' \in [Gens -> Seq(Msgs)]
               /\ \A g \in Gens : wire'[g] = IF Hears(g, t) THEN Append(wire[g], m) ELSE wire[g]
  <2>. DEFINE m == Message("status", 0, s)
  <2>1. m \in Msgs /\ m.kind = "status" /\ m.status = s
    BY DEF Message, Msgs
  <2>2. status' = [status EXCEPT ![t] = s] /\ Tell(t, m)
    BY <1>1 DEF Report
  <2>. HIDE DEF m
  <2>3. status' \in [Tunnels -> Statuses] /\ status'[t] = s
    BY <2>2 DEF Types
  <2>. QED BY <2>1, <2>2, <2>3, ToldOf
<1>2. UNCHANGED <<alive, served, attach, cur, prof, ear, shown, batch, count, crossed>>
      /\ active' \subseteq active
  BY DEF LinkUp, LinkDown, LinkRefused, Change, Stop, client, screen, history
<1>3. (\E s \in Statuses : Report(t, s)) \/ UNCHANGED <<status, wire>>
  BY DEF LinkUp, LinkDown, LinkRefused, Change, Stop, Statuses
<1>. QED BY <1>1, <1>2, <1>3

\* What the end of the daemon leaves.
LEMMA Ended ==
  ASSUME Types, DaemonEnds
  PROVE  /\ UNCHANGED <<served, cur, prof, ear, shown, batch, count, crossed>>
         /\ alive' = FALSE /\ active' = {} /\ status' \in [Tunnels -> Statuses]
         /\ \A t \in Tunnels : status'[t] = "disconnected"
         /\ attach' \in [Gens -> Attachments] /\ wire' \in [Gens -> Seq(Msgs)]
         /\ \A g \in Gens :
              /\ attach[g].pc = "attaching" =>
                   attach'[g] = [attach[g] EXCEPT !.pc = "hung", !.open = FALSE]
              /\ attach[g].pc # "attaching" => attach'[g] = attach[g]
              /\ wire'[g] = IF attach[g].open /\ attach[g].pc \notin {"none", "attaching"}
                            THEN Append(wire[g], Message("closed", 0, "disconnected"))
                            ELSE wire[g]
<1>. DEFINE m == Message("closed", 0, "disconnected")
            A(g) == IF attach[g].pc = "attaching"
                    THEN [attach[g] EXCEPT !.pc = "hung", !.open = FALSE] ELSE attach[g]
            W(g) == IF attach[g].open /\ attach[g].pc \notin {"none", "attaching"}
                    THEN Append(wire[g], m) ELSE wire[g]
<1>1. m \in Msgs
  BY DEF Message, Msgs, Statuses
<1>2. attach' = [g \in Gens |-> A(g)] /\ wire' = [g \in Gens |-> W(g)]
  BY DEF DaemonEnds
<1>3. ASSUME NEW g \in Gens PROVE A(g) \in Attachments /\ W(g) \in Seq(Msgs)
  <2>1. attach[g] \in Attachments /\ wire[g] \in Seq(Msgs)
    BY DEF Types
  <2>2. A(g) \in Attachments
    BY <2>1 DEF Attachments, Pcs
  <2>. HIDE DEF m
  <2>3. Append(wire[g], m) \in Seq(Msgs)
    BY <1>1, <2>1
  <2>. QED BY <2>1, <2>2, <2>3
<1>4. /\ UNCHANGED <<served, cur, prof, ear, shown, batch, count, crossed>>
      /\ alive' = FALSE /\ active' = {} /\ status' = [t \in Tunnels |-> "disconnected"]
  BY DEF DaemonEnds, screen, history
<1>5. status' \in [Tunnels -> Statuses] /\ \A t \in Tunnels : status'[t] = "disconnected"
  BY <1>4 DEF Statuses
<1>. HIDE DEF A, W, m
<1>6. /\ attach' \in [Gens -> Attachments] /\ wire' \in [Gens -> Seq(Msgs)]
      /\ \A g \in Gens : attach'[g] = A(g) /\ wire'[g] = W(g)
  BY <1>2, <1>3
<1>. QED BY <1>4, <1>5, <1>6 DEF A, W, m

\* What a switch leaves: a new attach, and the one before it cut off.
LEMMA Switched ==
  ASSUME Types, NEW t \in Tunnels, SwitchTo(t)
  PROVE  /\ UNCHANGED <<alive, active, status, served, prof, ear, batch, count>>
         /\ cur' = cur + 1 /\ cur' \in Gens /\ cur' # cur /\ cur' > cur
         /\ attach' \in [Gens -> Attachments] /\ wire' \in [Gens -> Seq(Msgs)]
         /\ attach'[cur'] = Attaching(t)
         /\ attach'[cur].tunnel = attach[cur].tunnel
         /\ attach'[cur].count = attach[cur].count /\ ~attach'[cur].open
         /\ attach'[cur].status = attach[cur].status
         /\ attach'[cur].pc = IF attach[cur].pc \in {"attaching", "attached"}
                                THEN "hung" ELSE attach[cur].pc
         /\ attach'[cur].missed = (attach[cur].missed \/ ear # cur)
         /\ \A g \in Gens \ {cur, cur'} : attach'[g] = attach[g]
         /\ wire'[cur] = <<>> /\ \A g \in Gens \ {cur} : wire'[g] = wire[g]
         /\ shown' = IF ear = cur /\ attach[cur].open THEN "disconnected" ELSE shown
<1>. DEFINE p == IF attach[cur].pc \in {"attaching", "attached"} THEN "hung" ELSE attach[cur].pc
            o == (attach[cur].missed \/ ear # cur)
            cut == [attach EXCEPT ![cur].open = FALSE, ![cur].pc = p, ![cur].missed = o]
<1>1. cur' = cur + 1 /\ cur' \in Gens /\ cur \in Gens /\ cur' # cur /\ cur' > cur
  BY DashboardAssumption DEF SwitchTo, Gens, Types
<1>2. attach[cur] \in Attachments /\ p \in Pcs /\ o \in BOOLEAN
  BY <1>1 DEF Types, Attachments, Pcs
<1>3. cut = [attach EXCEPT ![cur] = [attach[cur] EXCEPT !.open = FALSE, !.pc = p, !.missed = o]]
  BY <1>1 DEF Types
<1>4. [attach[cur] EXCEPT !.open = FALSE, !.pc = p, !.missed = o] \in Attachments
  BY <1>2 DEF Attachments
<1>5. cut \in [Gens -> Attachments]
  BY <1>1, <1>3, <1>4 DEF Types
<1>6. /\ cut[cur].tunnel = attach[cur].tunnel /\ cut[cur].count = attach[cur].count
      /\ cut[cur].status = attach[cur].status
      /\ cut[cur].pc = p /\ ~cut[cur].open /\ cut[cur].missed = o
      /\ \A g \in Gens \ {cur} : cut[g] = attach[g]
  BY <1>1, <1>2, <1>3 DEF Types, Attachments
<1>7. attach' = [cut EXCEPT ![cur'] = Attaching(t)]
  BY <1>1 DEF SwitchTo
<1>8. Attaching(t) \in Attachments
  BY AttachingType
<1>9. /\ wire' \in [Gens -> Seq(Msgs)]
      /\ wire'[cur] = <<>> /\ \A g \in Gens \ {cur} : wire'[g] = wire[g]
  <2>1. wire' = [wire EXCEPT ![cur] = <<>>] /\ <<>> \in Seq(Msgs)
    BY DEF SwitchTo
  <2>. QED BY <1>1, <2>1 DEF Types
<1>10. /\ UNCHANGED <<alive, active, status, served, prof, ear, batch, count>>
       /\ shown' = IF ear = cur /\ attach[cur].open THEN "disconnected" ELSE shown
  BY DEF SwitchTo, links
<1>. HIDE DEF cut, p, o
<1>. QED BY <1>1, <1>5, <1>6, <1>7, <1>8, <1>9, <1>10 DEF p, o

\* What the answer to an attach leaves.
LEMMA Answered ==
  ASSUME Types, NEW g \in Gens, AttachOk(g)
  PROVE  /\ UNCHANGED <<alive, active, status, served, cur, prof, ear, shown, batch, count, crossed>>
         /\ attach[g].pc = "attaching" /\ attach[g].open
         /\ attach' \in [Gens -> Attachments]
         /\ \A h \in Gens \ {g} : attach'[h] = attach[h] /\ wire'[h] = wire[h]
         /\ \/ /\ attach'[g] = [attach[g] EXCEPT !.pc = "attached"]
               /\ attach[g].tunnel \in active
               /\ wire'[g] = <<Message("ok", served[attach[g].tunnel], status[attach[g].tunnel])>>
               /\ wire' = [wire EXCEPT ![g] = wire'[g]]
            \/ /\ attach'[g] = [attach[g] EXCEPT !.pc = IF alive THEN "answered" ELSE "hung",
                                                 !.open = FALSE]
               /\ attach[g].tunnel \notin active /\ wire' = wire
<1>1. attach \in [Gens -> Attachments] /\ attach[g] \in Attachments
  BY DEF Types
<1>2. /\ UNCHANGED <<alive, active, status, served, cur, prof, ear, shown, batch, count, crossed>>
      /\ attach[g].pc = "attaching" /\ attach[g].open
  BY DEF AttachOk, links, screen, history
<1>. DEFINE t == attach[g].tunnel
<1>3. CASE /\ t \in active
           /\ attach' = [attach EXCEPT ![g].pc = "attached"]
           /\ wire' = [wire EXCEPT ![g] = <<Message("ok", served[t], status[t])>>]
  <2>1. [attach[g] EXCEPT !.pc = "attached"] \in Attachments
    BY <1>1 DEF Attachments, Pcs
  <2>2. attach' = [attach EXCEPT ![g] = [attach[g] EXCEPT !.pc = "attached"]]
    BY <1>1, <1>3
  <2>. QED BY <1>1, <1>2, <1>3, <2>1, <2>2 DEF Types
<1>4. CASE /\ t \notin active /\ UNCHANGED wire
           /\ attach' = [attach EXCEPT ![g].pc = IF alive THEN "answered" ELSE "hung",
                                       ![g].open = FALSE]
  <2>. DEFINE a == [attach[g] EXCEPT !.pc = IF alive THEN "answered" ELSE "hung", !.open = FALSE]
  <2>1. a \in Attachments
    BY <1>1 DEF Attachments, Pcs
  <2>2. attach' = [attach EXCEPT ![g] = a]
    BY <1>1, <1>4
  <2>. QED BY <1>1, <1>2, <1>4, <2>1, <2>2 DEF Types
<1>. QED BY <1>3, <1>4 DEF AttachOk

\* What reading a message leaves.
LEMMA ReadOf ==
  ASSUME Types, NEW g \in Gens, Read(g)
  PROVE  /\ UNCHANGED <<alive, active, status, served, cur, prof, ear, crossed>>
         /\ wire[g] # <<>> /\ Head(wire[g]) \in Msgs /\ attach[g].open
         /\ attach' \in [Gens -> Attachments] /\ wire' \in [Gens -> Seq(Msgs)]
         /\ wire'[g] = Tail(wire[g])
         /\ \A h \in Gens \ {g} : attach'[h] = attach[h] /\ wire'[h] = wire[h]
         /\ LET m == Head(wire[g]) IN
            \/ /\ m.kind = "ok" /\ UNCHANGED <<shown, batch, count>>
               /\ attach'[g] = [attach[g] EXCEPT !.pc = "answered", !.count = m.n, !.status = m.status]
            \/ /\ m.kind = "response" /\ attach' = attach /\ shown' = shown
               /\ \/ ear # g /\ batch' = batch /\ count' = count
                  \/ ear = g /\ batch' = batch /\ count' = count + 1
                  \/ ear = g /\ batch' = Append(batch, m.n) /\ count' = count
            \/ /\ m.kind \in {"status", "closed"} /\ UNCHANGED <<batch, count>>
               /\ attach'[g] = [attach[g] EXCEPT !.open = m.kind # "closed", !.missed = ear # g]
               /\ shown' = IF ear = g THEN m.status ELSE shown
<1>. DEFINE m == Head(wire[g])
<1>1. attach \in [Gens -> Attachments] /\ attach[g] \in Attachments
  BY DEF Types
<1>2. /\ wire[g] # <<>> /\ wire[g] \in Seq(Msgs) /\ wire \in [Gens -> Seq(Msgs)]
      /\ wire' = [wire EXCEPT ![g] = Tail(@)] /\ attach[g].open
      /\ UNCHANGED <<alive, active, status, served, cur, prof, ear, crossed>>
  BY DEF Types, Read, links
<1>3. m \in Msgs /\ Tail(wire[g]) \in Seq(Msgs)
  BY <1>2
<1>4. /\ wire' \in [Gens -> Seq(Msgs)] /\ wire'[g] = Tail(wire[g])
      /\ \A h \in Gens \ {g} : wire'[h] = wire[h]
  BY <1>2, <1>3
<1>. HIDE DEF m
<1>5. CASE m.kind = "ok"
  <2>. DEFINE a == [attach[g] EXCEPT !.pc = "answered", !.count = m.n, !.status = m.status]
  <2>1. /\ attach' = [attach EXCEPT ![g].pc = "answered", ![g].count = m.n, ![g].status = m.status]
        /\ UNCHANGED <<shown, batch, count>>
    BY <1>5 DEF Read, m
  <2>2. a \in Attachments
    BY <1>1, <1>3 DEF Attachments, Pcs, Msgs
  <2>3. attach' = [attach EXCEPT ![g] = a]
    BY <1>1, <2>1
  <2>4. attach' \in [Gens -> Attachments] /\ attach'[g] = a /\ \A h \in Gens \ {g} : attach'[h] = attach[h]
    BY <1>1, <2>2, <2>3
  <2>. QED BY <1>2, <1>3, <1>4, <1>5, <2>1, <2>4 DEF m
<1>6. CASE m.kind = "response"
  <2>1. /\ attach' = attach /\ shown' = shown
        /\ \/ ear # g /\ batch' = batch /\ count' = count
           \/ ear = g /\ batch' = batch /\ count' = count + 1
           \/ ear = g /\ batch' = Append(batch, m.n) /\ count' = count
    BY <1>6 DEF Read, Response, m
  <2>. QED BY <1>1, <1>2, <1>3, <1>4, <1>6, <2>1 DEF m
<1>7. CASE m.kind \in {"status", "closed"}
  <2>. DEFINE a == [attach[g] EXCEPT !.open = m.kind # "closed", !.missed = ear # g]
  <2>1. /\ attach' = [attach EXCEPT ![g].open = m.kind # "closed", ![g].missed = ear # g]
        /\ shown' = (IF ear = g THEN m.status ELSE shown) /\ UNCHANGED <<batch, count>>
    BY <1>7 DEF Read, m
  <2>2. a \in Attachments
    BY <1>1 DEF Attachments
  <2>3. attach' = [attach EXCEPT ![g] = a]
    BY <1>1, <2>1
  <2>4. attach' \in [Gens -> Attachments] /\ attach'[g] = a /\ \A h \in Gens \ {g} : attach'[h] = attach[h]
    BY <1>1, <2>2, <2>3
  <2>. QED BY <1>2, <1>3, <1>4, <1>7, <2>1, <2>4 DEF m
<1>8. m.kind \in {"ok", "response", "status", "closed"}
  BY <1>3 DEF Msgs
<1>. QED BY <1>5, <1>6, <1>7, <1>8

\* What mounting leaves.
LEMMA MountOf ==
  ASSUME Types, NEW g \in Gens, Mount(g)
  PROVE  /\ UNCHANGED <<alive, active, status, served, wire, cur, crossed>>
         /\ attach[g].pc = "answered"
         /\ attach' \in [Gens -> Attachments]
         /\ attach'[g] = [attach[g] EXCEPT !.pc = "mounted"]
         /\ \A h \in Gens \ {g} : attach'[h] = attach[h]
         /\ \/ /\ prof # attach[g].tunnel
               /\ prof' = attach[g].tunnel /\ ear' = g /\ shown' = Told(attach[g].status)
               /\ batch' = <<>> /\ count' = attach[g].count
            \/ prof = attach[g].tunnel /\ UNCHANGED <<prof, ear, shown, batch, count>>
<1>1. attach \in [Gens -> Attachments] /\ attach[g] \in Attachments
  BY DEF Types
<1>2. [attach[g] EXCEPT !.pc = "mounted"] \in Attachments
  BY <1>1 DEF Attachments, Pcs
<1>3. attach' = [attach EXCEPT ![g] = [attach[g] EXCEPT !.pc = "mounted"]]
  BY <1>1 DEF Mount
<1>4. UNCHANGED <<alive, active, status, served, wire, cur, crossed>> /\ attach[g].pc = "answered"
  BY DEF Mount, daemonSide, links
<1>5. \/ /\ prof # attach[g].tunnel
         /\ prof' = attach[g].tunnel /\ ear' = g /\ shown' = Told(attach[g].status)
         /\ batch' = <<>> /\ count' = attach[g].count
      \/ prof = attach[g].tunnel /\ UNCHANGED <<prof, ear, shown, batch, count>>
  BY DEF Mount, screen
<1>. QED BY <1>1, <1>2, <1>3, <1>4, <1>5

\* Attaches begin in order, each for a tunnel.
LEMMA BegunStep ==
  ASSUME Types, [Next]_vars
  PROVE  Begun'
<1>0. Begun /\ cur \in Gens
  BY DEF Types
<1>1. ASSUME UNCHANGED <<attach, cur>> PROVE Begun'
  BY <1>0, <1>1 DEF Begun
<1>a. ASSUME cur' = cur,
             \A g \in Gens : /\ attach'[g].tunnel = attach[g].tunnel
                             /\ attach[g].pc # "none" => attach'[g].pc # "none"
                             /\ attach[g].pc = "none" => attach'[g] = attach[g]
      PROVE  Begun'
  BY <1>0, <1>a DEF Begun
<1>2. ASSUME NEW t \in Tunnels, SwitchTo(t) PROVE Begun'
  <2>1. cur' > cur /\ cur' \in Gens /\ attach'[cur'] = Attaching(t) /\ cur' = cur + 1
    BY <1>2, Switched
  <2>2. /\ attach'[cur].tunnel = attach[cur].tunnel /\ ~attach'[cur].open
        /\ attach'[cur].pc = "none" <=> attach[cur].pc = "none"
    BY <1>2, Switched
  <2>3. \A g \in Gens \ {cur, cur'} : attach'[g] = attach[g]
    BY <1>2, Switched
  <2>. SUFFICES ASSUME NEW g \in Gens
                PROVE  /\ g > cur' => attach'[g].pc = "none"
                       /\ attach'[g].pc # "none" => attach'[g].tunnel \in Tunnels
                       /\ attach'[g].pc = "none" => ~attach'[g].open
    BY DEF Begun
  <2>4. CASE g = cur'
    BY <2>1, <2>4, AttachingType DEF Gens
  <2>5. CASE g = cur
    BY <1>0, <2>1, <2>2, <2>5 DEF Begun, Gens
  <2>6. CASE g \notin {cur, cur'}
    <3>1. attach'[g] = attach[g] /\ (g > cur' => g > cur)
      BY <1>0, <2>1, <2>3, <2>6 DEF Gens
    <3>. QED BY <1>0, <3>1 DEF Begun
  <2>. QED BY <2>4, <2>5, <2>6
<1>3. ASSUME NEW g \in Gens, AttachOk(g) \/ Read(g) \/ Mount(g) PROVE Begun'
  <2>1. cur' = cur /\ \A h \in Gens \ {g} : attach'[h] = attach[h]
    BY <1>3, Answered, ReadOf, MountOf
  <2>2. attach[g] \in Attachments
    BY DEF Types
  <2>3. attach'[g].tunnel = attach[g].tunnel /\ attach'[g].pc # "none" /\ attach[g].pc # "none"
    <3>1. CASE AttachOk(g)
      <4>1. /\ attach[g].pc = "attaching"
            /\ \/ attach'[g] = [attach[g] EXCEPT !.pc = "attached"]
               \/ attach'[g] = [attach[g] EXCEPT !.pc = IF alive THEN "answered" ELSE "hung",
                                                 !.open = FALSE]
        BY <3>1, Answered, Zenon
      <4>. QED BY <2>2, <4>1 DEF Attachments
    <3>2. CASE Mount(g)
      BY <2>2, <3>2, MountOf DEF Attachments
    <3>3. CASE Read(g)
      <4>1. attach[g].pc # "none"
        BY <1>0, <3>3 DEF Begun, Read
      <4>. DEFINE m == Head(wire[g])
      <4>2. \/ attach'[g] = [attach[g] EXCEPT !.pc = "answered", !.count = m.n, !.status = m.status]
            \/ attach' = attach
            \/ attach'[g] = [attach[g] EXCEPT !.open = m.kind # "closed", !.missed = ear # g]
        BY <3>3, ReadOf, Zenon
      <4>. QED BY <2>2, <4>1, <4>2 DEF Attachments
    <3>. QED BY <1>3, <3>1, <3>2, <3>3
  <2>. QED BY <1>a, <2>1, <2>3
<1>4. ASSUME DaemonEnds PROVE Begun'
  <2>1. cur' = cur
    BY <1>4, Ended
  <2>2. ASSUME NEW g \in Gens
        PROVE  /\ attach'[g].tunnel = attach[g].tunnel
               /\ attach[g].pc # "none" => attach'[g].pc # "none"
               /\ attach[g].pc = "none" => attach'[g] = attach[g]
    <3>1. attach[g] \in Attachments
      BY DEF Types
    <3>. QED BY <1>4, <3>1, Ended DEF Attachments
  <2>. QED BY <1>a, <2>1, <2>2
<1>5. ASSUME NEW t \in Tunnels, Serve(t) PROVE Begun'
  BY <1>1, <1>5 DEF Serve, client
<1>6. ASSUME NEW t \in Tunnels, LinkUp(t) \/ LinkDown(t) \/ LinkRefused(t) \/ Stop(t)
      PROVE  Begun'
  BY <1>1, <1>6, Reported
<1>7. ASSUME FlushBatch PROVE Begun'
  BY <1>1, <1>7 DEF FlushBatch, client
<1>8. ASSUME OpenSwitcher \/ CloseSwitcher \/ TogglePause \/ MoveCursor
             \/ OpenDetail \/ CloseDetail \/ UNCHANGED vars
      PROVE  Begun'
  BY <1>1, <1>8, KeysUnchanged
<1>. QED BY <1>2, <1>3, <1>4, <1>5, <1>6, <1>7, <1>8, StepCases

\* Every step keeps the types.
LEMMA TypesStep ==
  ASSUME Types, [Next]_vars
  PROVE  Types'
<1>0. Begun'
  BY BegunStep
<1>1. ASSUME NEW t \in Tunnels, Serve(t) PROVE Types'
  <2>. DEFINE m == Message("response", served[t] + 1, "connecting")
  <2>1. m \in Msgs /\ served' \in [Tunnels -> Nat] /\ Tell(t, m)
    BY <1>1 DEF Message, Msgs, Statuses, Serve, Types
  <2>. HIDE DEF m
  <2>2. wire' \in [Gens -> Seq(Msgs)]
    BY <2>1, ToldOf
  <2>. QED BY <1>0, <1>1, <2>1, <2>2 DEF Types, Serve, links, client, screen, history
<1>2. ASSUME NEW t \in Tunnels, LinkUp(t) \/ LinkDown(t) \/ LinkRefused(t) \/ Stop(t)
      PROVE  Types'
  <2>1. /\ UNCHANGED <<alive, served, attach, cur, prof, ear, shown, batch, count, crossed>>
        /\ active' \subseteq active
    BY <1>2, Reported
  <2>2. status' \in [Tunnels -> Statuses] /\ wire' \in [Gens -> Seq(Msgs)]
    <3>1. CASE status' = status /\ wire' = wire
      BY <3>1 DEF Types
    <3>. QED BY <1>2, <3>1, Reported
  <2>. QED BY <1>0, <2>1, <2>2 DEF Types
<1>3. ASSUME DaemonEnds PROVE Types'
  <2>1. /\ UNCHANGED <<served, cur, prof, ear, shown, batch, count, crossed>>
        /\ alive' = FALSE /\ active' = {} /\ status' \in [Tunnels -> Statuses]
        /\ attach' \in [Gens -> Attachments] /\ wire' \in [Gens -> Seq(Msgs)]
    BY <1>3, Ended
  <2>. QED BY <1>0, <2>1 DEF Types
<1>4. ASSUME NEW t \in Tunnels, SwitchTo(t) PROVE Types'
  <2>1. /\ UNCHANGED <<alive, active, status, served, prof, ear, batch, count>>
        /\ cur' \in Gens /\ cur' > cur /\ shown' \in {"disconnected", shown}
        /\ attach' \in [Gens -> Attachments] /\ wire' \in [Gens -> Seq(Msgs)]
    BY <1>4, Switched
  <2>2. ear' \in 0..cur' /\ shown' \in Statuses
    BY <2>1 DEF Types, Gens, Statuses
  <2>3. crossed' \in BOOLEAN
    BY <1>4 DEF SwitchTo, Types
  <2>. QED BY <1>0, <2>1, <2>2, <2>3 DEF Types
<1>5. ASSUME NEW g \in Gens, AttachOk(g) PROVE Types'
  <2>. DEFINE t == attach[g].tunnel
              m == Message("ok", served[t], status[t])
  <2>1. /\ UNCHANGED <<alive, active, status, served, cur, prof, ear, shown, batch, count, crossed>>
        /\ attach' \in [Gens -> Attachments]
    BY <1>5, Answered
  <2>2. wire' \in [Gens -> Seq(Msgs)]
    <3>1. CASE wire' = wire
      BY <3>1 DEF Types
    <3>2. CASE t \in active /\ wire'[g] = <<m>> /\ wire' = [wire EXCEPT ![g] = wire'[g]]
      <4>. HIDE DEF t
      <4>0. served[t] \in Nat /\ status[t] \in Statuses
        BY <3>2 DEF Types
      <4>1. m \in Msgs
        BY <4>0 DEF Message, Msgs
      <4>. HIDE DEF m
      <4>2. <<m>> \in Seq(Msgs)
        BY <4>1
      <4>. QED BY <3>2, <4>2 DEF Types
    <3>. QED BY <1>5, <3>1, <3>2, Answered
  <2>. QED BY <1>0, <2>1, <2>2 DEF Types
<1>6. ASSUME NEW g \in Gens, Read(g) PROVE Types'
  <2>1. /\ UNCHANGED <<alive, active, status, served, cur, prof, ear, crossed>>
        /\ attach' \in [Gens -> Attachments] /\ wire' \in [Gens -> Seq(Msgs)]
        /\ Head(wire[g]) \in Msgs
    BY <1>6, ReadOf
  <2>2. /\ shown' \in {shown, Head(wire[g]).status}
        /\ batch' \in {batch, Append(batch, Head(wire[g]).n)} /\ count' \in {count, count + 1}
    BY <1>6, ReadOf
  <2>3. Append(batch, Head(wire[g]).n) \in Seq(Nat)
    BY <2>1 DEF Types, Msgs
  <2>4. batch' \in Seq(Nat) /\ shown' \in Statuses
    BY <2>1, <2>2, <2>3 DEF Types, Msgs
  <2>5. count' \in Nat
    BY <2>2 DEF Types
  <2>. QED BY <1>0, <2>1, <2>4, <2>5 DEF Types
<1>7. ASSUME NEW g \in Gens, Mount(g) PROVE Types'
  <2>1. /\ UNCHANGED <<alive, active, status, served, wire, cur, crossed>>
        /\ attach' \in [Gens -> Attachments]
    BY <1>7, MountOf
  <2>2. attach[g] \in Attachments
    BY DEF Types
  <2>3. CASE UNCHANGED <<prof, ear, shown, batch, count>>
    BY <1>0, <2>1, <2>3 DEF Types
  <2>4. CASE /\ prof' = attach[g].tunnel /\ ear' = g /\ shown' = Told(attach[g].status)
             /\ batch' = <<>> /\ count' = attach[g].count
    <3>1. attach[g].pc = "answered"
      BY <1>7, MountOf
    <3>2. Told(attach[g].status) \in Statuses /\ <<>> \in Seq(Nat)
      BY DEF Told, Statuses
    <3>3. g \in 0..cur
      <4>1. Begun /\ cur \in Gens
        BY DEF Types
      <4>2. ~(g > cur)
        BY <3>1, <4>1 DEF Begun
      <4>. QED BY <4>1, <4>2 DEF Gens
    <3>. QED BY <1>0, <2>1, <2>2, <2>4, <3>2, <3>3 DEF Types, Attachments
  <2>. QED BY <1>7, <2>3, <2>4, MountOf
<1>8. ASSUME FlushBatch PROVE Types'
  <2>1. UNCHANGED <<alive, active, status, served, wire, attach, cur, prof, ear, shown, crossed>>
    BY <1>8 DEF FlushBatch, daemonSide, links, client, history
  <2>2. batch' = <<>> /\ count' = count + Len(batch)
    BY <1>8 DEF FlushBatch
  <2>. QED BY <1>0, <2>1, <2>2 DEF Types
<1>9. ASSUME OpenSwitcher \/ CloseSwitcher \/ TogglePause \/ MoveCursor
             \/ OpenDetail \/ CloseDetail \/ UNCHANGED vars
      PROVE  Types'
  BY <1>0, <1>9, KeysUnchanged DEF Types
<1>. QED BY <1>1, <1>2, <1>3, <1>4, <1>5, <1>6, <1>7, <1>8, <1>9, StepCases

-----------------------------------------------------------------------------
(* What is on a wire                                                       *)

\* Its responses have ascending numbers, in these bounds.
Ascending2(s) == \A i, j \in 1..Len(s) :
  i < j /\ s[i].kind = "response" /\ s[j].kind = "response" => s[i].n < s[j].n
Above(s, b) == \A i \in 1..Len(s) : s[i].kind = "response" => b < s[i].n
Below(s, b) == \A i \in 1..Len(s) : s[i].kind = "response" => s[i].n <= b

\* attach-ok is the first message, or there is none.
OkFirst(s) == s # <<>> /\ s[1].kind = "ok" /\ \A i \in 2..Len(s) : s[i].kind # "ok"
NoOk(s)    == \A i \in 1..Len(s) : s[i].kind # "ok"

\* Nothing but responses, and: the last other message says x.
Silent(s)    == \A i \in 1..Len(s) : s[i].kind = "response"
Latest(s, x) == \A i \in 1..Len(s) :
  s[i].kind # "response" /\ (\A j \in 1..Len(s) : j > i => s[j].kind = "response")
    => s[i].status = x

Closes(s) == \E i \in 1..Len(s) : s[i].kind = "closed"

\* A message is appended.
LEMMA AppendedTo ==
  ASSUME NEW s \in Seq(Msgs), NEW m \in Msgs
  PROVE  /\ Append(s, m) \in Seq(Msgs) /\ Append(s, m) # <<>>
         /\ Len(Append(s, m)) = Len(s) + 1 /\ Append(s, m)[Len(s) + 1] = m
         /\ \A i \in 1..Len(s) : Append(s, m)[i] = s[i]
         /\ Len(s) \in Nat /\ (s # <<>> => Len(s) # 0)
OBVIOUS

\* The next response of a tunnel that had b.
LEMMA ResponseTo ==
  ASSUME NEW s \in Seq(Msgs), NEW m \in Msgs, m.kind = "response",
         NEW b \in Nat, m.n = b + 1, Below(s, b)
  PROVE  /\ Ascending2(s) => Ascending2(Append(s, m))
         /\ Below(Append(s, m), b + 1)
         /\ \A a \in Nat : a <= b /\ Above(s, a) => Above(Append(s, m), a)
         /\ NoOk(s) => NoOk(Append(s, m))
         /\ OkFirst(s) => OkFirst(Append(s, m)) /\ Append(s, m)[1] = s[1]
         /\ \A x : Latest(s, x) => Latest(Append(s, m), x)
         /\ Silent(Append(s, m)) => Silent(s)
         /\ Closes(Append(s, m)) => Closes(s)
<1>. DEFINE t == Append(s, m)
            n == Len(s)
<1>1. /\ t \in Seq(Msgs) /\ t # <<>> /\ Len(t) = n + 1 /\ t[n + 1] = m
      /\ n \in Nat /\ (s # <<>> => n # 0) /\ \A i \in 1..n : t[i] = s[i] /\ s[i] \in Msgs
  BY AppendedTo
<1>. HIDE DEF t
<1>2. \A i \in 1..n + 1 : i = n + 1 \/ i \in 1..n
  BY <1>1
<1>3. \A i \in 1..n : s[i].n \in Nat
  BY <1>1 DEF Msgs
<1>. USE <1>1, <1>2
<1>. HIDE DEF n
<1>4. Ascending2(s) => Ascending2(t)
  BY <1>3 DEF Ascending2, Below, n
<1>5. Below(t, b + 1)
  BY <1>3 DEF Below, n
<1>6. \A a \in Nat : a <= b /\ Above(s, a) => Above(t, a)
  BY DEF Above, n
<1>7. (NoOk(s) => NoOk(t)) /\ (OkFirst(s) => OkFirst(t) /\ t[1] = s[1])
  BY DEF NoOk, OkFirst, n
<1>8. ASSUME NEW x, Latest(s, x) PROVE Latest(t, x)
  <2>. SUFFICES ASSUME NEW i \in 1..n + 1, t[i].kind # "response",
                       \A j \in 1..n + 1 : j > i => t[j].kind = "response"
                PROVE  t[i].status = x
    BY DEF Latest
  <2>1. i \in 1..n
    OBVIOUS
  <2>2. \A j \in 1..n : j > i => s[j].kind = "response"
    OBVIOUS
  <2>. QED BY <1>8, <2>1, <2>2 DEF Latest, n
<1>9. (Silent(t) => Silent(s)) /\ (Closes(t) => Closes(s))
  BY DEF Silent, Closes, n
<1>. QED BY <1>4, <1>5, <1>6, <1>7, <1>8, <1>9 DEF t

\* News of a tunnel.
LEMMA NewsTo ==
  ASSUME NEW s \in Seq(Msgs), NEW m \in Msgs, m.kind \in {"status", "closed"}
  PROVE  /\ Ascending2(s) => Ascending2(Append(s, m))
         /\ \A b : Below(s, b) => Below(Append(s, m), b)
         /\ \A a : Above(s, a) => Above(Append(s, m), a)
         /\ NoOk(s) => NoOk(Append(s, m))
         /\ OkFirst(s) => OkFirst(Append(s, m)) /\ Append(s, m)[1] = s[1]
         /\ Latest(Append(s, m), m.status)
         /\ ~Silent(Append(s, m))
         /\ Closes(Append(s, m)) => Closes(s) \/ m.kind = "closed"
<1>. DEFINE t == Append(s, m)
            n == Len(s)
<1>1. /\ t \in Seq(Msgs) /\ t # <<>> /\ Len(t) = n + 1 /\ t[n + 1] = m
      /\ n \in Nat /\ (s # <<>> => n # 0) /\ \A i \in 1..n : t[i] = s[i]
  BY AppendedTo
<1>. HIDE DEF t
<1>2. \A i \in 1..n + 1 : i = n + 1 \/ i \in 1..n
  BY <1>1
<1>. USE <1>1, <1>2
<1>. HIDE DEF n
<1>3. Ascending2(s) => Ascending2(t)
  BY DEF Ascending2, n
<1>4. \A b : Below(s, b) => Below(t, b)
  BY DEF Below, n
<1>5. \A a : Above(s, a) => Above(t, a)
  BY DEF Above, n
<1>6. (NoOk(s) => NoOk(t)) /\ (OkFirst(s) => OkFirst(t) /\ t[1] = s[1])
  BY DEF NoOk, OkFirst, n
<1>7. Latest(t, m.status)
  <2>. SUFFICES ASSUME NEW i \in 1..n + 1, t[i].kind # "response",
                       \A j \in 1..n + 1 : j > i => t[j].kind = "response"
                PROVE  t[i] = m
    BY DEF Latest
  <2>1. n + 1 \in 1..n + 1 /\ t[n + 1].kind # "response"
    OBVIOUS
  <2>. QED BY <2>1
<1>8. ~Silent(t) /\ (Closes(t) => Closes(s) \/ m.kind = "closed")
  BY DEF Silent, Closes, n
<1>. QED BY <1>3, <1>4, <1>5, <1>6, <1>7, <1>8 DEF t

\* The first message is taken.
LEMMA TakenFrom ==
  ASSUME NEW s \in Seq(Msgs), s # <<>>
  PROVE  /\ Tail(s) \in Seq(Msgs) /\ Head(s) = s[1] /\ s[1] \in Msgs
         /\ Ascending2(s) => Ascending2(Tail(s))
         /\ \A b : Below(s, b) => Below(Tail(s), b) /\ (s[1].kind = "response" => s[1].n <= b)
         /\ \A a : Above(s, a) => Above(Tail(s), a) /\ (s[1].kind = "response" => a < s[1].n)
         /\ Ascending2(s) /\ s[1].kind = "response" => Above(Tail(s), s[1].n)
         /\ NoOk(s) => NoOk(Tail(s)) /\ s[1].kind # "ok"
         /\ OkFirst(s) => NoOk(Tail(s)) /\ s[1].kind = "ok"
         /\ \A x : Latest(s, x) => Latest(Tail(s), x)
         /\ \A x : Latest(s, x) /\ Silent(Tail(s)) /\ s[1].kind # "response" => s[1].status = x
         /\ Silent(Tail(s)) /\ s[1].kind = "response" => Silent(s)
         /\ Closes(Tail(s)) => Closes(s)
         /\ s[1].kind = "closed" => Closes(s)
<1>. DEFINE t == Tail(s)
            n == Len(s)
<1>1. /\ t \in Seq(Msgs) /\ Len(t) = n - 1 /\ n \in Nat \ {0} /\ s[1] \in Msgs /\ Head(s) = s[1]
      /\ \A i \in 1..n - 1 : t[i] = s[i + 1]
  OBVIOUS
<1>. HIDE DEF t
<1>2. /\ \A i \in 1..n : i = 1 \/ (i - 1 \in 1..n - 1 /\ t[i - 1] = s[i])
      /\ \A i \in 1..n - 1 : i + 1 \in 1..n /\ i + 1 # 1 /\ i + 1 \in 2..n
      /\ 1 \in 1..n
  BY <1>1
<1>. USE <1>1, <1>2
<1>. HIDE DEF n
<1>3. Ascending2(s) => Ascending2(t)
  <2>. SUFFICES ASSUME Ascending2(s), NEW i \in 1..n - 1, NEW j \in 1..n - 1, i < j,
                       t[i].kind = "response", t[j].kind = "response"
                PROVE  t[i].n < t[j].n
    BY DEF Ascending2
  <2>1. i + 1 < j + 1 /\ t[i] = s[i + 1] /\ t[j] = s[j + 1] /\ i + 1 \in 1..n /\ j + 1 \in 1..n
    OBVIOUS
  <2>. QED BY <2>1 DEF Ascending2, n
<1>4. ASSUME NEW b, Below(s, b)
      PROVE  Below(t, b) /\ (s[1].kind = "response" => s[1].n <= b)
  <2>1. \A i \in 1..n : s[i].kind = "response" => s[i].n <= b
    BY <1>4 DEF Below, n
  <2>2. ASSUME NEW i \in 1..n - 1, t[i].kind = "response" PROVE t[i].n <= b
    <3>1. t[i] = s[i + 1] /\ i + 1 \in 1..n
      OBVIOUS
    <3>2. s[i + 1].n <= b
      BY <2>1, <2>2, <3>1, Zenon
    <3>. QED BY <3>1, <3>2, Zenon
  <2>3. Below(t, b)
    BY <2>2 DEF Below
  <2>4. s[1].kind = "response" => s[1].n <= b
    BY <2>1, <1>2, Zenon
  <2>. QED BY <2>3, <2>4
<1>5. \A a : Above(s, a) => Above(t, a) /\ (s[1].kind = "response" => a < s[1].n)
  BY DEF Above, n
<1>6. Ascending2(s) /\ s[1].kind = "response" => Above(t, s[1].n)
  <2>. SUFFICES ASSUME Ascending2(s), s[1].kind = "response", NEW i \in 1..n - 1,
                       t[i].kind = "response"
                PROVE  s[1].n < t[i].n
    BY DEF Above
  <2>1. 1 < i + 1 /\ t[i] = s[i + 1] /\ i + 1 \in 1..n
    OBVIOUS
  <2>. QED BY <2>1 DEF Ascending2, n
<1>7. /\ NoOk(s) => NoOk(t) /\ s[1].kind # "ok"
      /\ OkFirst(s) => NoOk(t) /\ s[1].kind = "ok"
  BY DEF NoOk, OkFirst, n
<1>8. ASSUME NEW x, Latest(s, x) PROVE Latest(t, x)
  <2>. SUFFICES ASSUME NEW i \in 1..n - 1, t[i].kind # "response",
                       \A j \in 1..n - 1 : j > i => t[j].kind = "response"
                PROVE  t[i].status = x
    BY DEF Latest
  <2>1. i + 1 \in 1..n /\ t[i] = s[i + 1]
    OBVIOUS
  <2>2. ASSUME NEW j \in 1..n, j > i + 1 PROVE s[j].kind = "response"
    <3>1. j # 1
      BY <2>2
    <3>2. j - 1 \in 1..n - 1 /\ t[j - 1] = s[j]
      BY <3>1, <2>2, <1>2
    <3>3. j - 1 > i
      BY <2>2
    <3>. QED BY <3>2, <3>3
  <2>. QED BY <1>8, <2>1, <2>2 DEF Latest, n
<1>9. ASSUME NEW x, Latest(s, x), Silent(t), s[1].kind # "response" PROVE s[1].status = x
  <2>1. ASSUME NEW j \in 1..n, j > 1 PROVE s[j].kind = "response"
    <3>1. j - 1 \in 1..n - 1 /\ t[j - 1] = s[j]
      BY <2>1
    <3>. QED BY <1>9, <3>1 DEF Silent
  <2>. QED BY <1>9, <2>1 DEF Latest, n
<1>10. /\ Silent(t) /\ s[1].kind = "response" => Silent(s)
       /\ Closes(t) => Closes(s)
       /\ s[1].kind = "closed" => Closes(s)
  BY DEF Silent, Closes, n
<1>. QED BY <1>3, <1>4, <1>5, <1>6, <1>7, <1>8, <1>9, <1>10 DEF t

\* Nothing is on an empty wire.
LEMMA EmptyWire ==
  /\ <<>> \in Seq(Msgs) /\ Ascending2(<<>>) /\ NoOk(<<>>) /\ ~Closes(<<>>)
  /\ \A x : Below(<<>>, x) /\ Above(<<>>, x) /\ Latest(<<>>, x)
BY DEF Ascending2, NoOk, Closes, Below, Above, Latest

\* attach-ok alone is on a wire.
LEMMA OkAlone ==
  ASSUME NEW m \in Msgs, m.kind = "ok"
  PROVE  /\ <<m>> \in Seq(Msgs) /\ <<m>>[1] = m /\ Ascending2(<<m>>) /\ OkFirst(<<m>>)
         /\ ~Closes(<<m>>) /\ Latest(<<m>>, m.status)
         /\ \A x : Below(<<m>>, x) /\ Above(<<m>>, x)
<1>. DEFINE w == <<m>>
<1>1. w \in Seq(Msgs) /\ w # <<>> /\ Len(w) = 1 /\ w[1] = m /\ \A i \in 1..1 : i = 1
  OBVIOUS
<1>. HIDE DEF w
<1>2. \A i \in 1..Len(w) : w[i].kind = "ok" /\ w[i] = m
  BY <1>1
<1>3. \A i \in 2..Len(w) : FALSE
  BY <1>1
<1>4. Ascending2(w) /\ ~Closes(w) /\ \A x : Below(w, x) /\ Above(w, x)
  BY <1>2 DEF Ascending2, Closes, Below, Above
<1>5. OkFirst(w) /\ Latest(w, m.status)
  BY <1>1, <1>2, <1>3 DEF OkFirst, Latest
<1>. QED BY <1>1, <1>4, <1>5 DEF w

\* A lower bound holds below itself.
LEMMA AboveLess ==
  ASSUME NEW w \in Seq(Msgs), NEW x \in Nat, NEW y \in Nat, x <= y, Above(w, y)
  PROVE  Above(w, x)
<1>1. \A i \in 1..Len(w) : w[i].n \in Nat
  BY DEF Msgs
<1>. QED BY <1>1 DEF Above

-----------------------------------------------------------------------------
(* The sockets                                                             *)

\* An attach a with what is on its wire, w, where the daemon has reported b
\* responses of its tunnel: attach-ok comes first, once, and every response
\* after it is of a higher number than it and than the ones before.
Counted(a, w, b) ==
  /\ a.pc \in {"none", "attaching", "hung"} => w = <<>>
  /\ a.pc = "hung" => ~a.open
  /\ a.pc = "attaching" => a.count = 0 /\ a.status = "connecting" /\ ~a.missed
  /\ a.pc = "attached" => OkFirst(w) /\ Above(w, w[1].n) /\ w[1].n <= b
  /\ a.pc \in {"answered", "mounted"} => NoOk(w)
  /\ a.pc = "answered" => Above(w, a.count) /\ a.count <= b
  /\ Ascending2(w) /\ Below(w, b)

\* The attach the component listens to, where it shows profile p and has
\* counted k: what is on the wire is not counted yet.
Heard(a, w, b, p, k) ==
  /\ a.pc = "mounted" /\ p = a.tunnel
  /\ Above(w, k) /\ k <= b

\* The attach where the status of its tunnel is s: the last news on its wire, or
\* else that of attach-ok, is s, unless it went by unheard.
News(a, w, s) ==
  /\ a.open /\ a.pc \in {"attached", "answered", "mounted"} => Latest(w, s)
  /\ a.pc = "answered" /\ ~a.missed =>
       IF a.open THEN Silent(w) => a.status = s ELSE a.status # "connected"

\* The attach the component listens to, where it shows status x.
Seen(a, w, s, x) ==
  ~a.missed => IF a.open THEN Silent(w) => x \in {s, Told(s)} ELSE x # "connected"

\* A response is sent.
LEMMA CountedServe ==
  ASSUME NEW a \in Attachments, NEW w \in Seq(Msgs), NEW b \in Nat, NEW m \in Msgs,
         m.kind = "response", m.n = b + 1, a.open, a.pc \notin {"none", "attaching"},
         Counted(a, w, b)
  PROVE  /\ Counted(a, Append(w, m), b + 1)
         /\ \A p, k : k \in Nat /\ Heard(a, w, b, p, k) => Heard(a, Append(w, m), b + 1, p, k)
<1>. DEFINE v == Append(w, m)
<1>1. a.pc \in {"attached", "answered", "mounted"} /\ a.count \in Nat
  BY DEF Counted, Attachments, Pcs
<1>2. Below(w, b) /\ Ascending2(w)
  BY DEF Counted
<1>3. /\ Ascending2(v) /\ Below(v, b + 1)
      /\ \A x \in Nat : x <= b /\ Above(w, x) => Above(v, x)
      /\ NoOk(w) => NoOk(v)
      /\ OkFirst(w) => OkFirst(v) /\ v[1] = w[1]
  BY <1>2, ResponseTo
<1>. HIDE DEF v
<1>4. CASE a.pc = "attached"
  <2>1. OkFirst(w) /\ Above(w, w[1].n) /\ w[1].n <= b
    BY <1>4 DEF Counted
  <2>2. w[1].n \in Nat
    BY <2>1 DEF OkFirst, Msgs
  <2>3. Above(v, v[1].n) /\ v[1].n <= b + 1 /\ OkFirst(v)
    BY <1>3, <2>1, <2>2
  <2>. QED BY <1>3, <1>4, <2>3 DEF Counted, Heard, v
<1>5. CASE a.pc \in {"answered", "mounted"}
  <2>1. Counted(a, v, b + 1)
    BY <1>1, <1>3, <1>5 DEF Counted
  <2>2. \A p, k : k \in Nat /\ Heard(a, w, b, p, k) => Heard(a, v, b + 1, p, k)
    BY <1>3 DEF Heard
  <2>. QED BY <2>1, <2>2 DEF v
<1>. QED BY <1>1, <1>4, <1>5

\* A response is sent to others.
LEMMA CountedGrows ==
  ASSUME NEW a \in Attachments, NEW w \in Seq(Msgs), NEW b \in Nat, Counted(a, w, b)
  PROVE  /\ Counted(a, w, b + 1)
         /\ \A p, k : k \in Nat /\ Heard(a, w, b, p, k) => Heard(a, w, b + 1, p, k)
<1>1. \A i \in 1..Len(w) : w[i].n \in Nat
  BY DEF Msgs
<1>2. Below(w, b + 1)
  BY <1>1 DEF Counted, Below
<1>3. a.pc = "attached" => w[1].n \in Nat
  BY DEF Counted, OkFirst, Msgs
<1>4. a.count \in Nat
  BY DEF Attachments
<1>5. Counted(a, w, b + 1)
  BY <1>2, <1>3, <1>4 DEF Counted
<1>6. \A p, k : k \in Nat /\ Heard(a, w, b, p, k) => Heard(a, w, b + 1, p, k)
  BY DEF Heard
<1>. QED BY <1>5, <1>6

\* News are sent.
LEMMA CountedNews ==
  ASSUME NEW a \in Attachments, NEW w \in Seq(Msgs), NEW b, NEW m \in Msgs,
         m.kind \in {"status", "closed"}, a.open, a.pc \notin {"none", "attaching"},
         Counted(a, w, b)
  PROVE  /\ Counted(a, Append(w, m), b)
         /\ \A p, k : Heard(a, w, b, p, k) => Heard(a, Append(w, m), b, p, k)
         /\ News(a, Append(w, m), m.status)
         /\ \A x : Seen(a, Append(w, m), m.status, x)
<1>. DEFINE v == Append(w, m)
<1>1. a.pc \in {"attached", "answered", "mounted"}
  BY DEF Counted, Attachments, Pcs
<1>2. Below(w, b) /\ Ascending2(w)
  BY DEF Counted
<1>3. /\ Ascending2(v) /\ Below(v, b) /\ \A x : Above(w, x) => Above(v, x)
      /\ NoOk(w) => NoOk(v)
      /\ OkFirst(w) => OkFirst(v) /\ v[1] = w[1]
      /\ Latest(v, m.status) /\ ~Silent(v)
  BY <1>2, NewsTo
<1>. HIDE DEF v
<1>4. Counted(a, v, b)
  BY <1>1, <1>3 DEF Counted
<1>5. \A p, k : Heard(a, w, b, p, k) => Heard(a, v, b, p, k)
  BY <1>3 DEF Heard
<1>6. News(a, v, m.status) /\ \A x : Seen(a, v, m.status, x)
  BY <1>3 DEF News, Seen
<1>. QED BY <1>4, <1>5, <1>6 DEF v

\* News are sent to others.
LEMMA NewsElsewhere ==
  ASSUME NEW a \in Attachments, NEW w, NEW s, NEW r, ~a.open \/ a.pc \in {"none", "attaching"},
         News(a, w, s)
  PROVE  /\ News(a, w, r)
         /\ \A x : a.pc = "mounted" /\ Seen(a, w, s, x) => Seen(a, w, r, x)
BY DEF News, Seen

\* A response is no news.
LEMMA NewsServe ==
  ASSUME NEW a \in Attachments, NEW w \in Seq(Msgs), NEW b \in Nat, NEW s, NEW m \in Msgs,
         m.kind = "response", m.n = b + 1, Below(w, b), News(a, w, s)
  PROVE  /\ News(a, Append(w, m), s)
         /\ \A x : Seen(a, w, s, x) => Seen(a, Append(w, m), s, x)
<1>. DEFINE v == Append(w, m)
<1>1. (\A x : Latest(w, x) => Latest(v, x)) /\ (Silent(v) => Silent(w))
  BY ResponseTo
<1>. HIDE DEF v
<1>2. News(a, v, s) /\ \A x : Seen(a, w, s, x) => Seen(a, v, s, x)
  BY <1>1 DEF News, Seen
<1>. QED BY <1>2 DEF v

\* An attach request is answered: attach-ok with the number of responses and the
\* status, or an error, or the daemon is gone.
LEMMA AnsweredSocket ==
  ASSUME NEW a \in Attachments, NEW w, NEW b \in Nat, NEW s \in Statuses,
         a.pc = "attaching", a.open, Counted(a, w, b), NEW c \in Attachments, NEW v,
         \/ c = [a EXCEPT !.pc = "attached"] /\ v = <<Message("ok", b, s)>>
         \/ c = [a EXCEPT !.pc = "answered", !.open = FALSE] /\ v = w
         \/ c = [a EXCEPT !.pc = "hung", !.open = FALSE] /\ v = w
  PROVE  Counted(c, v, b) /\ News(c, v, s)
<1>1. w = <<>> /\ a.count = 0 /\ a.status = "connecting" /\ ~a.missed
  BY DEF Counted
<1>2. CASE c = [a EXCEPT !.pc = "attached"] /\ v = <<Message("ok", b, s)>>
  <2>. DEFINE m == Message("ok", b, s)
  <2>1. m \in Msgs /\ m.kind = "ok" /\ m.n = b /\ m.status = s
    BY DEF Message, Msgs
  <2>2. c.pc = "attached"
    BY <1>2 DEF Attachments
  <2>. HIDE DEF m
  <2>3. v = <<m>>
    BY <1>2 DEF m
  <2>4. /\ v[1] = m /\ Ascending2(v) /\ OkFirst(v) /\ Latest(v, s)
        /\ \A x : Below(v, x) /\ Above(v, x)
    BY <2>1, <2>3, OkAlone
  <2>5. v[1].n <= b
    BY <2>1, <2>4
  <2>. QED BY <2>2, <2>4, <2>5 DEF Counted, News
<1>3. CASE c = [a EXCEPT !.pc = "answered", !.open = FALSE] /\ v = w
  <2>1. /\ c.pc = "answered" /\ ~c.open /\ c.count = 0 /\ c.status = "connecting"
        /\ v = <<>>
    BY <1>1, <1>3 DEF Attachments
  <2>2. 0 <= b
    OBVIOUS
  <2>. QED BY <2>1, <2>2, EmptyWire DEF Counted, News
<1>4. CASE c = [a EXCEPT !.pc = "hung", !.open = FALSE] /\ v = w
  <2>1. c.pc = "hung" /\ ~c.open /\ v = <<>>
    BY <1>1, <1>4 DEF Attachments
  <2>. QED BY <2>1, EmptyWire DEF Counted, News
<1>. QED BY <1>2, <1>3, <1>4

\* attach-ok is read.
LEMMA OkRead ==
  ASSUME NEW a \in Attachments, NEW w \in Seq(Msgs), w # <<>>, NEW b \in Nat, NEW s,
         a.open, w[1].kind = "ok", Counted(a, w, b), News(a, w, s),
         NEW c \in Attachments,
         c = [a EXCEPT !.pc = "answered", !.count = w[1].n, !.status = w[1].status]
  PROVE  a.pc = "attached" /\ Counted(c, Tail(w), b) /\ News(c, Tail(w), s)
<1>. DEFINE v == Tail(w)
<1>1. 1 \in 1..Len(w)
  OBVIOUS
<1>2. a.pc = "attached"
  BY <1>1 DEF Counted, NoOk, Attachments, Pcs
<1>3. OkFirst(w) /\ Above(w, w[1].n) /\ w[1].n <= b /\ Ascending2(w) /\ Below(w, b) /\ Latest(w, s)
  BY <1>2 DEF Counted, News
<1>4. /\ NoOk(v) /\ Above(v, w[1].n) /\ Ascending2(v) /\ Below(v, b) /\ Latest(v, s)
      /\ Silent(v) => w[1].status = s
  BY <1>3, TakenFrom
<1>5. c.pc = "answered" /\ c.count = w[1].n /\ c.status = w[1].status /\ c.open
  BY DEF Attachments
<1>. HIDE DEF v
<1>6. Counted(c, v, b) /\ News(c, v, s)
  BY <1>3, <1>4, <1>5 DEF Counted, News
<1>. QED BY <1>2, <1>6 DEF v

\* A response is read.
LEMMA ResponseRead ==
  ASSUME NEW a \in Attachments, NEW w \in Seq(Msgs), w # <<>>, NEW b \in Nat, NEW s,
         w[1].kind = "response", Counted(a, w, b), News(a, w, s)
  PROVE  /\ Counted(a, Tail(w), b) /\ News(a, Tail(w), s)
         /\ \A x : Seen(a, w, s, x) => Seen(a, Tail(w), s, x)
         /\ \A p, k : k \in Nat /\ Heard(a, w, b, p, k) => Heard(a, Tail(w), b, p, k + 1)
<1>. DEFINE v == Tail(w)
<1>1. /\ v \in Seq(Msgs) /\ w[1] \in Msgs
      /\ Ascending2(w) => Ascending2(v)
      /\ Ascending2(w) => Above(v, w[1].n)
      /\ Below(w, b) => Below(v, b) /\ w[1].n <= b
      /\ \A x : Above(w, x) => Above(v, x) /\ x < w[1].n
      /\ NoOk(w) => NoOk(v)
      /\ \A x : Latest(w, x) => Latest(v, x)
      /\ Silent(v) => Silent(w)
  BY TakenFrom
<1>2. a.pc \in {"answered", "mounted"}
  BY DEF Counted, OkFirst, Attachments, Pcs
<1>. HIDE DEF v
<1>3. Counted(a, v, b)
  BY <1>1, <1>2 DEF Counted
<1>4. News(a, v, s) /\ \A x : Seen(a, w, s, x) => Seen(a, v, s, x)
  BY <1>1 DEF News, Seen
<1>5. ASSUME NEW p, NEW k \in Nat, Heard(a, w, b, p, k) PROVE Heard(a, v, b, p, k + 1)
  <2>1. k < w[1].n /\ w[1].n \in Nat /\ w[1].n <= b /\ Above(v, w[1].n)
    BY <1>1, <1>5 DEF Heard, Counted, Msgs
  <2>2. k + 1 <= w[1].n /\ k + 1 <= b /\ k + 1 \in Nat
    BY <2>1
  <2>3. Above(v, k + 1)
    BY <1>1, <2>1, <2>2, AboveLess
  <2>. QED BY <1>5, <2>2, <2>3 DEF Heard
<1>. QED BY <1>3, <1>4, <1>5 DEF v

\* News are read, by the component or, unheard, by nobody.
LEMMA NewsRead ==
  ASSUME NEW a \in Attachments, NEW w \in Seq(Msgs), w # <<>>, NEW b, NEW s,
         w[1].kind \in {"status", "closed"}, a.open, Counted(a, w, b), News(a, w, s),
         NEW c \in Attachments,
         c.tunnel = a.tunnel, c.pc = a.pc, c.count = a.count, c.status = a.status,
         c.open <=> w[1].kind # "closed", a.pc = "mounted" \/ c.missed
  PROVE  /\ Counted(c, Tail(w), b) /\ News(c, Tail(w), s)
         /\ Seen(c, Tail(w), s, w[1].status)
         /\ \A p, k : Heard(a, w, b, p, k) => Heard(c, Tail(w), b, p, k)
<1>. DEFINE v == Tail(w)
<1>1. /\ w[1] \in Msgs
      /\ Ascending2(w) => Ascending2(v)
      /\ Below(w, b) => Below(v, b)
      /\ \A x : Above(w, x) => Above(v, x)
      /\ NoOk(w) => NoOk(v)
      /\ \A x : Latest(w, x) => Latest(v, x)
      /\ Latest(w, s) /\ Silent(v) => w[1].status = s
  BY TakenFrom
<1>2. a.pc \in {"answered", "mounted"}
  BY DEF Counted, OkFirst, Attachments, Pcs
<1>3. Latest(w, s)
  BY <1>2 DEF News
<1>. HIDE DEF v
<1>4. Counted(c, v, b)
  BY <1>1, <1>2 DEF Counted
<1>5. News(c, v, s)
  BY <1>1, <1>2, <1>3 DEF News
<1>6. Seen(c, v, s, w[1].status)
  <2>1. w[1].kind = "closed" => w[1].status # "connected"
    BY <1>1 DEF Msgs
  <2>. QED BY <1>1, <1>3, <2>1 DEF Seen
<1>7. \A p, k : Heard(a, w, b, p, k) => Heard(c, v, b, p, k)
  BY <1>1 DEF Heard
<1>. QED BY <1>4, <1>5, <1>6, <1>7 DEF v

\* The component is mounted, or asked to render its profile once more.
LEMMA MountedSocket ==
  ASSUME NEW a \in Attachments, NEW w, NEW b, NEW s, a.pc = "answered",
         Counted(a, w, b), News(a, w, s),
         NEW c \in Attachments, c = [a EXCEPT !.pc = "mounted"]
  PROVE  /\ Counted(c, w, b) /\ News(c, w, s)
         /\ Heard(c, w, b, a.tunnel, a.count) /\ Seen(c, w, s, Told(a.status))
<1>1. /\ c.pc = "mounted" /\ c.tunnel = a.tunnel /\ c.count = a.count /\ c.status = a.status
      /\ c.open = a.open /\ c.missed = a.missed
  BY DEF Attachments
<1>2. a.status # "connected" => Told(a.status) # "connected"
  BY DEF Told
<1>. QED BY <1>1, <1>2 DEF Counted, News, Heard, Seen

\* A socket is cut off; the component is told if it listens, else nobody is.
LEMMA CutSocket ==
  ASSUME NEW a \in Attachments, NEW w, NEW b \in Nat, NEW s, NEW c \in Attachments,
         Counted(a, w, b), a.pc # "mounted" => c.missed,
         c.tunnel = a.tunnel, c.count = a.count, ~c.open, c.status = a.status,
         c.pc \in {"hung", a.pc}, c.pc \notin {"attaching", "attached"},
         c.pc = "hung" \/ a.pc \notin {"attaching", "attached"}
  PROVE  /\ Counted(c, <<>>, b) /\ News(c, <<>>, s)
         /\ \A p, k : k \in Nat /\ Heard(a, w, b, p, k) /\ a.pc = c.pc => Heard(c, <<>>, b, p, k)
         /\ \A x : x # "connected" => Seen(c, <<>>, s, x)
         /\ \A x : (c.missed <=> a.missed) /\ ~a.open /\ Seen(a, w, s, x) => Seen(c, <<>>, s, x)
<1>1. c.pc # "attaching" /\ c.pc # "attached" /\ (c.pc = "answered" => c.missed)
  OBVIOUS
<1>2. Counted(c, <<>>, b)
  BY <1>1, EmptyWire DEF Counted
<1>3. News(c, <<>>, s)
  BY <1>1 DEF News
<1>4. \A p, k : k \in Nat /\ Heard(a, w, b, p, k) /\ a.pc = c.pc => Heard(c, <<>>, b, p, k)
  BY EmptyWire DEF Heard
<1>5. \A x : x # "connected" => Seen(c, <<>>, s, x)
  BY DEF Seen
<1>6. \A x : (c.missed <=> a.missed) /\ ~a.open /\ Seen(a, w, s, x) => Seen(c, <<>>, s, x)
  BY DEF Seen
<1>. QED BY <1>2, <1>3, <1>4, <1>5, <1>6

-----------------------------------------------------------------------------
(* What every step keeps                                                   *)

\* The attach g, and the component if it listens to it.
Sock(g) ==
  LET a == attach[g]
      t == attach[g].tunnel
  IN  /\ Counted(a, wire[g], served[t]) /\ News(a, wire[g], status[t])
      /\ ear = g => Heard(a, wire[g], served[t], prof, count + Len(batch)) /\ Seen(a, wire[g], status[t], shown)

DashInv == Types /\ \A g \in Gens : Sock(g)

\* The types of an attach.
LEMMA SockTypes ==
  ASSUME Types, NEW g \in Gens
  PROVE  /\ attach[g] \in Attachments /\ wire[g] \in Seq(Msgs)
         /\ count + Len(batch) \in Nat
         /\ attach[g].pc # "none" =>
              /\ attach[g].tunnel \in Tunnels
              /\ served[attach[g].tunnel] \in Nat /\ status[attach[g].tunnel] \in Statuses
BY DEF Types, Begun

\* One that has not begun, whatever its tunnel.
LEMMA Unbegun ==
  ASSUME Types', NEW g \in Gens, attach'[g].pc = "none", wire'[g] = <<>>, ear' # g
  PROVE  Sock(g)'
<1>1. ~attach'[g].open
  BY DEF Types, Begun
<1>. QED BY <1>1, EmptyWire DEF Sock, Counted, News

\* Nothing that concerns it changes.
LEMMA SockSame ==
  ASSUME Types, NEW g \in Gens, Sock(g), attach'[g] = attach[g], wire'[g] = wire[g],
         attach[g].pc # "none" =>
           /\ served'[attach[g].tunnel] = served[attach[g].tunnel]
           /\ status'[attach[g].tunnel] = status[attach[g].tunnel],
         ear' = g => UNCHANGED <<ear, prof, shown>> /\ (count + Len(batch))' = count + Len(batch),
         Types'
  PROVE  Sock(g)'
<1>1. CASE attach[g].pc = "none"
  <2>1. wire[g] = <<>> /\ (ear = g => FALSE)
    BY <1>1 DEF Sock, Counted, Heard
  <2>2. ear' # g
    BY <2>1
  <2>. QED BY <1>1, <2>1, <2>2, Unbegun
<1>2. CASE attach[g].pc # "none"
  BY <1>2 DEF Sock
<1>. QED BY <1>1, <1>2

\* A request is answered.
LEMMA SockServe ==
  ASSUME DashInv, Types', NEW t \in Tunnels, Serve(t), NEW g \in Gens
  PROVE  Sock(g)'
<1>. DEFINE m == Message("response", served[t] + 1, "connecting")
<1>0. Types /\ Sock(g)
  BY DEF DashInv
<1>1. /\ attach[g] \in Attachments /\ wire[g] \in Seq(Msgs) /\ count + Len(batch) \in Nat
      /\ served[t] \in Nat
  BY <1>0, SockTypes DEF Types
<1>2. m \in Msgs /\ m.kind = "response" /\ m.n = served[t] + 1
  BY <1>1 DEF Message, Msgs, Statuses
<1>3. /\ UNCHANGED <<attach, status, ear, prof, shown, count, batch>>
      /\ served' = [served EXCEPT ![t] = @ + 1] /\ Tell(t, m)
  BY DEF Serve, links, client, screen
<1>. HIDE DEF m
<1>4. wire'[g] = IF Hears(g, t) THEN Append(wire[g], m) ELSE wire[g]
  BY <1>0, <1>2, <1>3, ToldOf
<1>5. CASE attach[g].tunnel # t \/ attach[g].pc = "none"
  <2>1. wire'[g] = wire[g]
    BY <1>4, <1>5 DEF Hears
  <2>2. attach[g].pc # "none" => served'[attach[g].tunnel] = served[attach[g].tunnel]
    BY <1>0, <1>3, <1>5, SockTypes DEF Types
  <2>. QED BY <1>0, <1>3, <2>1, <2>2, SockSame
<1>6. CASE attach[g].tunnel = t /\ attach[g].pc # "none"
  <2>1. served'[t] = served[t] + 1
    BY <1>0, <1>3 DEF Types
  <2>2. CASE Hears(g, t)
    <3>1. Counted(attach[g], wire[g], served[t]) /\ News(attach[g], wire[g], status[t])
      BY <1>0, <1>6 DEF Sock
    <3>2. attach[g].open /\ attach[g].pc \notin {"none", "attaching"}
      BY <2>2 DEF Hears
    <3>3. /\ Counted(attach[g], wire'[g], served'[t])
          /\ \A p, k : k \in Nat /\ Heard(attach[g], wire[g], served[t], p, k) => Heard(attach[g], wire'[g], served'[t], p, k)
      BY <1>1, <1>2, <1>4, <2>1, <2>2, <3>1, <3>2, CountedServe
    <3>4. Below(wire[g], served[t])
      BY <3>1 DEF Counted
    <3>5. /\ News(attach[g], wire'[g], status[t])
          /\ \A x : Seen(attach[g], wire[g], status[t], x) => Seen(attach[g], wire'[g], status[t], x)
      BY <1>1, <1>2, <1>4, <2>2, <3>1, <3>4, NewsServe
    <3>. QED BY <1>0, <1>1, <1>3, <1>6, <3>3, <3>5 DEF Sock
  <2>3. CASE ~Hears(g, t)
    <3>1. /\ Counted(attach[g], wire[g], served[t] + 1)
          /\ \A p, k : k \in Nat /\ Heard(attach[g], wire[g], served[t], p, k) => Heard(attach[g], wire[g], served[t] + 1, p, k)
      BY <1>0, <1>1, <1>6, CountedGrows DEF Sock
    <3>. QED BY <1>0, <1>1, <1>3, <1>4, <1>6, <2>1, <2>3, <3>1 DEF Sock
  <2>. QED BY <2>2, <2>3
<1>. QED BY <1>5, <1>6

\* The links of a tunnel change, or it is stopped.
LEMMA SockReport ==
  ASSUME DashInv, Types', NEW t \in Tunnels, NEW g \in Gens,
         LinkUp(t) \/ LinkDown(t) \/ LinkRefused(t) \/ Stop(t)
  PROVE  Sock(g)'
<1>0. Types /\ Sock(g)
  BY DEF DashInv
<1>1. /\ attach[g] \in Attachments /\ wire[g] \in Seq(Msgs) /\ count + Len(batch) \in Nat
  BY <1>0, SockTypes
<1>2. UNCHANGED <<attach, served, ear, prof, shown, count, batch>>
  BY <1>0, Reported
<1>3. CASE UNCHANGED <<status, wire>>
  BY <1>0, <1>2, <1>3, SockSame
<1>4. ASSUME NEW m \in Msgs, m.kind = "status", status' = [status EXCEPT ![t] = m.status],
             wire'[g] = IF Hears(g, t) THEN Append(wire[g], m) ELSE wire[g]
      PROVE  Sock(g)'
  <2>1. CASE attach[g].tunnel # t \/ attach[g].pc = "none"
    <3>1. wire'[g] = wire[g]
      BY <1>4, <2>1 DEF Hears
    <3>2. attach[g].pc # "none" => status'[attach[g].tunnel] = status[attach[g].tunnel]
      BY <1>0, <1>4, <2>1, SockTypes DEF Types
    <3>. QED BY <1>0, <1>2, <3>1, <3>2, SockSame
  <2>2. CASE attach[g].tunnel = t /\ attach[g].pc # "none"
    <3>1. status'[t] = m.status
      BY <1>0, <1>4 DEF Types
    <3>2. CASE Hears(g, t)
      <4>1. /\ Counted(attach[g], wire'[g], served[t])
            /\ \A p, k : Heard(attach[g], wire[g], served[t], p, k) => Heard(attach[g], wire'[g], served[t], p, k)
            /\ News(attach[g], wire'[g], m.status)
            /\ \A x : Seen(attach[g], wire'[g], m.status, x)
        BY <1>0, <1>1, <1>4, <2>2, <3>2, CountedNews DEF Hears, Sock
      <4>. QED BY <1>0, <1>2, <2>2, <3>1, <4>1 DEF Sock
    <3>3. CASE ~Hears(g, t)
      <4>1. ~attach[g].open \/ attach[g].pc \in {"none", "attaching"}
        BY <2>2, <3>3 DEF Hears
      <4>2. /\ News(attach[g], wire[g], status'[t])
            /\ \A x : attach[g].pc = "mounted" /\ Seen(attach[g], wire[g], status[t], x) =>
                   Seen(attach[g], wire[g], status'[t], x)
        BY <1>0, <1>1, <2>2, <4>1, NewsElsewhere DEF Sock
      <4>. QED BY <1>0, <1>2, <1>4, <2>2, <3>3, <4>2 DEF Sock, Heard
    <3>. QED BY <3>2, <3>3
  <2>. QED BY <2>1, <2>2
<1>. QED BY <1>0, <1>3, <1>4, Reported

\* The daemon ends.
LEMMA SockEnds ==
  ASSUME DashInv, Types', NEW g \in Gens, DaemonEnds
  PROVE  Sock(g)'
<1>. DEFINE m == Message("closed", 0, "disconnected")
            t == attach[g].tunnel
<1>0. Types /\ Sock(g)
  BY DEF DashInv
<1>1. /\ attach[g] \in Attachments /\ wire[g] \in Seq(Msgs) /\ count + Len(batch) \in Nat
  BY <1>0, SockTypes
<1>2. m \in Msgs /\ m.kind = "closed" /\ m.status = "disconnected"
  BY DEF Message, Msgs, Statuses
<1>3. /\ UNCHANGED <<served, ear, prof, shown, count, batch>>
      /\ attach[g].pc # "none" => status'[t] = "disconnected"
  BY <1>0, Ended, SockTypes
<1>4. /\ attach[g].pc = "attaching" => attach'[g] = [attach[g] EXCEPT !.pc = "hung", !.open = FALSE]
      /\ attach[g].pc # "attaching" => attach'[g] = attach[g]
      /\ wire'[g] = IF attach[g].open /\ attach[g].pc \notin {"none", "attaching"}
                    THEN Append(wire[g], m) ELSE wire[g]
  BY <1>0, Ended
<1>. HIDE DEF m
<1>5. Counted(attach[g], wire[g], served[t]) /\ News(attach[g], wire[g], status[t])
  BY <1>0 DEF Sock
<1>6. CASE attach[g].pc = "none"
  <2>1. wire[g] = <<>> /\ ear # g
    BY <1>0, <1>5, <1>6 DEF Sock, Counted, Heard
  <2>. QED BY <1>3, <1>4, <1>6, <2>1, Unbegun
<1>7. CASE attach[g].pc = "attaching"
  <2>1. wire[g] = <<>> /\ ear # g
    BY <1>0, <1>5, <1>7 DEF Sock, Counted, Heard
  <2>2. attach'[g].pc = "hung" /\ ~attach'[g].open
    BY <1>1, <1>4, <1>7 DEF Attachments
  <2>. QED BY <1>3, <1>4, <1>7, <2>1, <2>2, EmptyWire DEF Sock, Counted, News
<1>8. CASE attach[g].pc \notin {"none", "attaching"} /\ attach[g].open
  <2>1. /\ Counted(attach[g], wire'[g], served[t])
        /\ \A p, k : Heard(attach[g], wire[g], served[t], p, k) => Heard(attach[g], wire'[g], served[t], p, k)
        /\ News(attach[g], wire'[g], m.status)
        /\ \A x : Seen(attach[g], wire'[g], m.status, x)
    BY <1>1, <1>2, <1>4, <1>5, <1>8, CountedNews
  <2>. QED BY <1>0, <1>2, <1>3, <1>4, <1>8, <2>1 DEF Sock
<1>9. CASE attach[g].pc \notin {"none", "attaching"} /\ ~attach[g].open
  <2>1. /\ News(attach[g], wire[g], status'[t])
        /\ \A x : attach[g].pc = "mounted" /\ Seen(attach[g], wire[g], status[t], x) =>
               Seen(attach[g], wire[g], status'[t], x)
    BY <1>1, <1>5, <1>9, NewsElsewhere
  <2>. QED BY <1>0, <1>3, <1>4, <1>9, <2>1 DEF Sock, Heard
<1>. QED BY <1>6, <1>7, <1>8, <1>9

\* A switch begins.
LEMMA SockSwitch ==
  ASSUME DashInv, Types', NEW t \in Tunnels, SwitchTo(t), NEW g \in Gens
  PROVE  Sock(g)'
<1>0. Types /\ Sock(g) /\ cur \in Gens /\ Sock(cur)
  BY DEF DashInv, Types
<1>1. /\ UNCHANGED <<status, served, prof, ear, batch, count>>
      /\ cur' \in Gens /\ cur' # cur /\ cur' > cur
  BY <1>0, Switched
<1>2. CASE g = cur'
  <2>1. attach[g].pc = "none"
    BY <1>0, <1>1, <1>2 DEF Types, Begun
  <2>2. wire[g] = <<>> /\ ear # g
    BY <1>0, <2>1 DEF Sock, Counted, Heard
  <2>3. wire'[g] = <<>> /\ attach'[g] = Attaching(t)
    BY <1>0, <1>1, <1>2, <2>2, Switched
  <2>4. /\ attach'[g].pc = "attaching" /\ attach'[g].count = 0
        /\ attach'[g].status = "connecting" /\ ~attach'[g].missed
    BY <2>3, AttachingType
  <2>. QED BY <1>1, <2>2, <2>3, <2>4, EmptyWire DEF Sock, Counted, News
<1>3. CASE g = cur
  <2>. DEFINE a == attach[cur]
              c == attach'[cur]
              u == attach[cur].tunnel
  <2>1. /\ c.tunnel = u /\ c.count = a.count /\ ~c.open /\ c.status = a.status
        /\ c.pc = (IF a.pc \in {"attaching", "attached"} THEN "hung" ELSE a.pc)
        /\ c.missed = (a.missed \/ ear # cur)
        /\ wire'[cur] = <<>> /\ c \in Attachments
        /\ shown' = IF ear = cur /\ a.open THEN "disconnected" ELSE shown
    BY <1>0, Switched
  <2>2. CASE a.pc = "none"
    <3>1. ear' # g
      BY <1>0, <1>1, <1>3, <2>2 DEF Sock, Heard
    <3>. QED BY <1>3, <2>1, <2>2, <3>1, Unbegun
  <2>3. CASE a.pc # "none"
    <3>1. served[u] \in Nat /\ a \in Attachments /\ count + Len(batch) \in Nat
      BY <1>0, <2>3, SockTypes
    <3>2. Counted(a, wire[cur], served[u]) /\ (ear = cur => a.pc = "mounted")
      BY <1>0 DEF Sock, Heard
    <3>. HIDE DEF a, c, u
    <3>3. /\ Counted(c, <<>>, served[u]) /\ News(c, <<>>, status[u])
          /\ \A p, k : k \in Nat /\ Heard(a, wire[cur], served[u], p, k) /\ a.pc = c.pc => Heard(c, <<>>, served[u], p, k)
          /\ \A x : x # "connected" => Seen(c, <<>>, status[u], x)
          /\ \A x : (c.missed <=> a.missed) /\ ~a.open /\ Seen(a, wire[cur], status[u], x) => Seen(c, <<>>, status[u], x)
      <4>1. a.pc # "mounted" => c.missed
        BY <2>1, <3>2
      <4>2. /\ c.pc \in {"hung", a.pc} /\ c.pc \notin {"attaching", "attached"}
            /\ c.pc = "hung" \/ a.pc \notin {"attaching", "attached"}
        BY <2>1
      <4>3. /\ c.tunnel = a.tunnel /\ c.count = a.count /\ ~c.open /\ c.status = a.status
            /\ c \in Attachments
        BY <2>1 DEF u, a
      <4>. QED BY <3>1, <3>2, <4>1, <4>2, <4>3, CutSocket
    <3>8. ear = cur => (c.missed <=> a.missed) /\ c.pc = a.pc
      BY <2>1, <3>1, <3>2 DEF Attachments
    <3>4. ear = cur => Heard(a, wire[cur], served[u], prof, count + Len(batch)) /\ Seen(a, wire[cur], status[u], shown)
      BY <1>0 DEF Sock, a, u
    <3>5. Counted(c, wire'[cur], served'[u]) /\ News(c, wire'[cur], status'[u])
      BY <1>1, <2>1, <3>3
    <3>6. ear' = cur => Heard(c, wire'[cur], served'[u], prof', (count + Len(batch))') /\ Seen(c, wire'[cur], status'[u], shown')
      BY <1>1, <2>1, <3>1, <3>3, <3>4, <3>8
    <3>7. attach'[g] = c /\ wire'[g] = wire'[cur] /\ attach'[g].tunnel = u
      BY <1>3, <2>1 DEF c
    <3>. QED BY <1>3, <3>5, <3>6, <3>7 DEF Sock
  <2>. QED BY <2>2, <2>3
<1>4. CASE g \notin {cur, cur'}
  <2>1. attach'[g] = attach[g] /\ wire'[g] = wire[g] /\ (ear = g => shown' = shown)
    BY <1>0, <1>1, <1>4, Switched
  <2>. QED BY <1>0, <1>1, <2>1, SockSame
<1>. QED BY <1>2, <1>3, <1>4

\* An attach request is answered.
LEMMA SockAnswered ==
  ASSUME DashInv, Types', NEW h \in Gens, AttachOk(h), NEW g \in Gens
  PROVE  Sock(g)'
<1>0. Types /\ Sock(g)
  BY DEF DashInv
<1>1. /\ UNCHANGED <<status, served, ear, prof, shown, count, batch>>
      /\ attach[h].pc = "attaching" /\ attach[h].open
  BY <1>0, Answered
<1>2. CASE g # h
  BY <1>0, <1>1, <1>2, SockSame, Answered
<1>3. CASE g = h
  <2>. DEFINE a == attach[g]
              t == a.tunnel
  <2>1. /\ a \in Attachments /\ t \in Tunnels /\ served[t] \in Nat /\ status[t] \in Statuses
        /\ Counted(a, wire[g], served[t]) /\ attach'[g] \in Attachments
    BY <1>0, <1>1, <1>3, SockTypes DEF Sock, Types
  <2>2. \/ attach'[g] = [a EXCEPT !.pc = "attached"] /\ wire'[g] = <<Message("ok", served[t], status[t])>>
        \/ attach'[g] = [a EXCEPT !.pc = "answered", !.open = FALSE] /\ wire'[g] = wire[g]
        \/ attach'[g] = [a EXCEPT !.pc = "hung", !.open = FALSE] /\ wire'[g] = wire[g]
    <3>1. \/ attach'[g] = [a EXCEPT !.pc = "attached"] /\ wire'[g] = <<Message("ok", served[t], status[t])>>
          \/ /\ attach'[g] = [a EXCEPT !.pc = IF alive THEN "answered" ELSE "hung", !.open = FALSE]
             /\ wire'[g] = wire[g]
      BY <1>0, <1>3, Answered, Zenon
    <3>. QED BY <3>1
  <2>3. a.pc = "attaching" /\ a.open
    BY <1>1, <1>3
  <2>4. attach'[g].tunnel = t /\ ear # g
    BY <1>0, <1>1, <1>3, <2>1, <2>2 DEF Attachments, Sock, Heard
  <2>. DEFINE c == attach'[g]
              v == wire'[g]
  <2>. HIDE DEF a, t, c, v
  <2>5. /\ a \in Attachments /\ served[t] \in Nat /\ status[t] \in Statuses
        /\ Counted(a, wire[g], served[t]) /\ c \in Attachments
    BY <2>1 DEF c
  <2>6. \/ c = [a EXCEPT !.pc = "attached"] /\ v = <<Message("ok", served[t], status[t])>>
        \/ c = [a EXCEPT !.pc = "answered", !.open = FALSE] /\ v = wire[g]
        \/ c = [a EXCEPT !.pc = "hung", !.open = FALSE] /\ v = wire[g]
    BY <2>2 DEF c, v
  <2>7. Counted(c, v, served[t]) /\ News(c, v, status[t])
    BY <2>3, <2>5, <2>6, AnsweredSocket
  <2>8. Counted(attach'[g], wire'[g], served[t]) /\ News(attach'[g], wire'[g], status[t])
    BY <2>7 DEF c, v
  <2>. QED BY <1>1, <2>4, <2>8 DEF Sock
<1>. QED BY <1>2, <1>3

\* A message is read.
LEMMA SockRead ==
  ASSUME DashInv, Types', NEW h \in Gens, Read(h), NEW g \in Gens
  PROVE  Sock(g)'
<1>0. Types /\ Sock(g)
  BY DEF DashInv
<1>1. /\ UNCHANGED <<status, served, ear, prof>>
      /\ wire[h] # <<>> /\ attach[h].open /\ Head(wire[h]) = wire[h][1]
  BY <1>0, ReadOf, SockTypes, TakenFrom
<1>. DEFINE m == Head(wire[h])
<1>2. CASE g # h
  <2>1. attach'[g] = attach[g] /\ wire'[g] = wire[g]
    BY <1>0, <1>2, ReadOf
  <2>2. ear # h => UNCHANGED <<shown, batch, count>>
    BY <1>0, ReadOf
  <2>3. ear' = g => UNCHANGED <<ear, prof, shown>> /\ (count + Len(batch))' = count + Len(batch)
    BY <1>1, <1>2, <2>2
  <2>. QED BY <1>0, <1>1, <2>1, <2>3, SockSame
<1>3. CASE g = h
  <2>. DEFINE a == attach[g]
              w == wire[g]
              t == a.tunnel
  <2>1. a \in Attachments /\ w \in Seq(Msgs) /\ w # <<>> /\ a.open
    BY <1>0, <1>1, <1>3, SockTypes
  <2>2. a.pc # "none"
    BY <2>1, <1>0 DEF Types, Begun
  <2>3. t \in Tunnels /\ served[t] \in Nat /\ status[t] \in Statuses /\ count + Len(batch) \in Nat
    BY <1>0, <2>2, SockTypes
  <2>4. Counted(a, w, served[t]) /\ News(a, w, status[t])
        /\ (ear = g => Heard(a, w, served[t], prof, count + Len(batch)) /\ Seen(a, w, status[t], shown))
    BY <1>0 DEF Sock
  <2>5. attach'[g] \in Attachments /\ wire'[g] = Tail(w)
    BY <1>0, <1>3, ReadOf
  <2>. HIDE DEF a, w, t
  <2>6. CASE w[1].kind = "ok"
    <3>1. /\ attach'[g] = [a EXCEPT !.pc = "answered", !.count = w[1].n, !.status = w[1].status]
          /\ UNCHANGED <<shown, batch, count>>
      BY <1>0, <1>1, <1>3, <2>6, ReadOf DEF a, w
    <3>2. a.pc = "attached" /\ Counted(attach'[g], Tail(w), served[t]) /\ News(attach'[g], Tail(w), status[t])
      BY <2>1, <2>3, <2>4, <2>5, <2>6, <3>1, OkRead
    <3>3. ear # g /\ attach'[g].tunnel = t
      BY <2>1, <2>4, <3>1, <3>2 DEF Heard, t, Attachments
    <3>. QED BY <1>1, <2>5, <3>2, <3>3 DEF Sock
  <2>7. CASE w[1].kind = "response"
    <3>1. /\ attach' = attach /\ shown' = shown
          /\ \/ ear # g
             \/ ear = g /\ batch' = batch /\ count' = count + 1
             \/ ear = g /\ batch' = Append(batch, w[1].n) /\ count' = count
      BY <1>0, <1>1, <1>3, <2>7, ReadOf DEF w
    <3>2. ear = g => (count + Len(batch))' = (count + Len(batch)) + 1
      <4>1. batch \in Seq(Nat) /\ count \in Nat /\ w[1].n \in Nat
        BY <1>0, <2>1 DEF Types, Msgs
      <4>. QED BY <3>1, <4>1
    <3>3. /\ Counted(a, Tail(w), served[t]) /\ News(a, Tail(w), status[t])
          /\ \A x : Seen(a, w, status[t], x) => Seen(a, Tail(w), status[t], x)
          /\ \A p, k : k \in Nat /\ Heard(a, w, served[t], p, k) => Heard(a, Tail(w), served[t], p, k + 1)
      BY <2>1, <2>3, <2>4, <2>7, ResponseRead
    <3>4. ear = g => Heard(a, Tail(w), served[t], prof, (count + Len(batch))') /\ Seen(a, Tail(w), status[t], shown')
      BY <2>3, <2>4, <3>1, <3>2, <3>3
    <3>5. attach'[g] = a /\ attach'[g].tunnel = t
      BY <3>1 DEF a, t
    <3>. QED BY <1>1, <2>5, <3>3, <3>4, <3>5 DEF Sock
  <2>8. CASE w[1].kind \in {"status", "closed"}
    <3>1. /\ attach'[g] = [a EXCEPT !.open = w[1].kind # "closed", !.missed = ear # g]
          /\ UNCHANGED <<batch, count>> /\ shown' = IF ear = g THEN w[1].status ELSE shown
      BY <1>0, <1>1, <1>3, <2>8, ReadOf DEF a, w
    <3>2. ear = g => a.pc = "mounted"
      BY <2>4 DEF Heard
    <3>. DEFINE c == attach'[g]
    <3>0. /\ c \in Attachments /\ c.tunnel = a.tunnel /\ c.pc = a.pc
          /\ c.count = a.count /\ c.status = a.status
          /\ (c.open <=> w[1].kind # "closed") /\ (a.pc = "mounted" \/ c.missed)
      BY <2>1, <2>5, <3>1, <3>2 DEF Attachments
    <3>. HIDE DEF c
    <3>9. /\ Counted(c, Tail(w), served[t]) /\ News(c, Tail(w), status[t])
          /\ Seen(c, Tail(w), status[t], w[1].status)
          /\ \A p, k : Heard(a, w, served[t], p, k) => Heard(c, Tail(w), served[t], p, k)
      BY <2>1, <2>4, <2>8, <3>0, NewsRead
    <3>3. /\ Counted(attach'[g], Tail(w), served[t]) /\ News(attach'[g], Tail(w), status[t])
          /\ ear = g => Seen(attach'[g], Tail(w), status[t], w[1].status)
          /\ ear = g => \A p, k : Heard(a, w, served[t], p, k) => Heard(attach'[g], Tail(w), served[t], p, k)
      BY <3>9 DEF c
    <3>4. attach'[g].tunnel = t
      BY <2>1, <3>1 DEF t, Attachments
    <3>. QED BY <1>1, <2>4, <2>5, <3>1, <3>3, <3>4 DEF Sock
  <2>9. w[1].kind \in {"ok", "response", "status", "closed"}
    BY <2>1 DEF Msgs
  <2>. QED BY <2>6, <2>7, <2>8, <2>9
<1>. QED BY <1>2, <1>3

\* The component is mounted.
LEMMA SockMount ==
  ASSUME DashInv, Types', NEW h \in Gens, Mount(h), NEW g \in Gens
  PROVE  Sock(g)'
<1>0. Types /\ Sock(g)
  BY DEF DashInv
<1>1. UNCHANGED <<status, served, wire>> /\ attach[h].pc = "answered"
  BY <1>0, MountOf
<1>2. CASE g # h
  <2>1. attach'[g] = attach[g] /\ (ear' = g => UNCHANGED <<ear, prof, shown, batch, count>>)
    BY <1>0, <1>2, MountOf
  <2>. QED BY <1>0, <1>1, <2>1, SockSame
<1>3. CASE g = h
  <2>. DEFINE a == attach[g]
              t == a.tunnel
  <2>1. a \in Attachments /\ attach'[g] \in Attachments /\ attach'[g] = [a EXCEPT !.pc = "mounted"]
    BY <1>0, <1>3, SockTypes, MountOf
  <2>2. Counted(a, wire[g], served[t]) /\ News(a, wire[g], status[t]) /\ ear # g
    BY <1>0, <1>1, <1>3 DEF Sock, Heard
  <2>3. /\ Counted(attach'[g], wire[g], served[t]) /\ News(attach'[g], wire[g], status[t])
        /\ Heard(attach'[g], wire[g], served[t], t, a.count) /\ Seen(attach'[g], wire[g], status[t], Told(a.status))
    BY <1>1, <1>3, <2>1, <2>2, MountedSocket
  <2>4. ear' = g => prof' = t /\ shown' = Told(a.status) /\ batch' = <<>> /\ count' = a.count
    BY <1>0, <1>3, <2>2, MountOf
  <2>5. batch' = <<>> /\ count' = a.count => (count + Len(batch))' = a.count
    BY <2>1 DEF Attachments
  <2>6. attach'[g].tunnel = t
    BY <2>1 DEF Attachments
  <2>. QED BY <1>1, <2>3, <2>4, <2>5, <2>6 DEF Sock
<1>. QED BY <1>2, <1>3

\* Every step keeps it.
LEMMA DashStep ==
  ASSUME DashInv, [Next]_vars
  PROVE  DashInv'
<1>0. Types /\ Types'
  BY TypesStep DEF DashInv
<1>. SUFFICES ASSUME NEW g \in Gens PROVE Sock(g)'
  BY <1>0 DEF DashInv
<1>1. Sock(g)
  BY DEF DashInv
<1>2. ASSUME FlushBatch PROVE Sock(g)'
  <2>1. UNCHANGED <<attach, wire, status, served, prof, ear, shown>>
    BY <1>2 DEF FlushBatch, daemonSide, links, client
  <2>2. batch' = <<>> /\ count' = count + Len(batch) /\ batch \in Seq(Nat) /\ count \in Nat
    BY <1>0, <1>2 DEF FlushBatch, Types
  <2>3. (count + Len(batch))' = count + Len(batch)
    BY <2>2
  <2>. QED BY <1>0, <1>1, <2>1, <2>3, SockSame
<1>3. ASSUME OpenSwitcher \/ CloseSwitcher \/ TogglePause \/ MoveCursor
             \/ OpenDetail \/ CloseDetail \/ UNCHANGED vars
      PROVE  Sock(g)'
  BY <1>0, <1>1, <1>3, KeysUnchanged, SockSame
<1>. QED BY <1>0, <1>2, <1>3, StepCases, SockServe, SockReport, SockEnds, SockSwitch,
            SockAnswered, SockRead, SockMount

LEMMA DashInit == Init => DashInv
<1>. SUFFICES ASSUME Init PROVE DashInv
  OBVIOUS
<1>1. PICK t \in Tunnels : attach = [[g \in Gens |-> None] EXCEPT ![1] = Attaching(t)]
  BY DEF Init
<1>2. 1 \in Gens /\ cur = 1 /\ ear = 0 /\ wire = [g \in Gens |-> <<>>]
  BY DashboardAssumption DEF Init, Gens
<1>3. None \in Attachments /\ Attaching(t) \in Attachments /\ None.pc = "none" /\ ~None.open
  BY AttachingType DEF None, Attachments, Pcs, Statuses
<1>4. attach[1] = Attaching(t) /\ \A g \in Gens \ {1} : attach[g] = None
  BY <1>1, <1>2
<1>5. attach \in [Gens -> Attachments]
  BY <1>1, <1>2, <1>3
<1>6. Begun
  BY <1>2, <1>3, <1>4, AttachingType DEF Begun, Gens
<1>7. Types
  <2>1. wire \in [Gens -> Seq(Msgs)] /\ batch \in Seq(Nat)
    BY <1>2 DEF Init
  <2>2. status \in [Tunnels -> Statuses] /\ served \in [Tunnels -> Nat]
    BY DEF Init, Statuses
  <2>3. /\ alive \in BOOLEAN /\ active \subseteq Tunnels /\ crossed \in BOOLEAN
        /\ prof \in Tunnels \cup {NoTunnel} /\ shown \in Statuses /\ count \in Nat
    BY DEF Init, Statuses
  <2>4. cur \in Gens /\ ear \in 0..cur
    BY <1>2
  <2>. QED BY <1>5, <1>6, <2>1, <2>2, <2>3, <2>4 DEF Types
<1>8. ASSUME NEW g \in Gens PROVE Sock(g)
  <2>1. wire[g] = <<>> /\ ear # g
    BY <1>2 DEF Gens
  <2>2. CASE g = 1
    BY <1>4, <2>1, <2>2, AttachingType, EmptyWire DEF Sock, Counted, News
  <2>3. CASE g # 1
    BY <1>3, <1>4, <2>1, <2>3, EmptyWire DEF Sock, Counted, News
  <2>. QED BY <2>2, <2>3
<1>. QED BY <1>7, <1>8 DEF DashInv

\* What has been sent to a dashboard and what it has counted and shown stay in
\* step: attach-ok comes first and once, later responses have higher numbers,
\* the last news on the wire, or else what is shown, is the status of the tunnel
\* (DaemonServer.ts:295-336, DaemonClient.ts, CommandDashboard.ts).
THEOREM DashboardInvariant == Spec => []DashInv
<1>1. Init => DashInv
  BY DashInit
<1>2. DashInv /\ [Next]_vars => DashInv'
  BY DashStep
<1>. QED BY <1>1, <1>2, PTL DEF Spec

\* What the component shows is of the socket it listens to.
LEMMA MountedSock ==
  ASSUME DashInv, Mounted
  PROVE  /\ ear \in Gens /\ attach[ear] \in Attachments /\ wire[ear] \in Seq(Msgs)
         /\ prof = attach[ear].tunnel
         /\ Heard(attach[ear], wire[ear], served[prof], prof, count + Len(batch))
         /\ Seen(attach[ear], wire[ear], status[prof], shown)
<1>1. ear \in Gens
  BY DashboardAssumption DEF DashInv, Types, Mounted, Gens
<1>2. Sock(ear) /\ Types
  BY <1>1 DEF DashInv
<1>3. prof = attach[ear].tunnel
  BY <1>2 DEF Sock, Heard
<1>. QED BY <1>1, <1>2, <1>3, SockTypes DEF Sock

\* The request counter is never ahead of the daemon, whatever is buffered,
\* paused, missed before the mount or counted by attach-ok (Dashboard.tsx).
THEOREM DashboardCountNeverAhead == Spec => []CountNeverAhead
<1>1. DashInv => CountNeverAhead
  BY MountedSock DEF CountNeverAhead, Heard
<1>. QED BY <1>1, DashboardInvariant, PTL

\* A dashboard that has read what was sent, and lost no event before it was
\* mounted, shows the status of its tunnel, and none without a socket shows it
\* online (CommandDashboard.ts:79-107, Dashboard.tsx:243-258).
THEOREM DashboardShownInStep == Spec => []ShownInStep
<1>1. DashInv => ShownInStep
  <2>. SUFFICES ASSUME DashInv, Mounted, wire[ear] = <<>>, ~attach[ear].missed
                PROVE  IF attach[ear].open THEN shown \in {status[prof], Told(status[prof])}
                                           ELSE shown # "connected"
    BY DEF ShownInStep
  <2>1. Seen(attach[ear], wire[ear], status[prof], shown)
    BY MountedSock
  <2>2. Silent(wire[ear])
    BY DEF Silent
  <2>. QED BY <2>1, <2>2 DEF Seen
<1>. QED BY <1>1, DashboardInvariant, PTL

-----------------------------------------------------------------------------
(* The attaches settle                                                     *)

\* As long as no two switches crossed, at most the last attach is under way, and
\* then the component is still that of another profile.
Settles ==
  ~crossed /\ alive =>
    \/ Pending = {} /\ ear = cur /\ prof = attach[cur].tunnel
    \/ Pending = {cur} /\ prof # attach[cur].tunnel

\* The last socket is open while its tunnel runs, once it is attached, and only
\* the end of the daemon closes one.
Opened ==
  /\ \A g \in Gens : Closes(wire[g]) => ~alive
  /\ ~alive => active = {}
  /\ attach[cur].pc \in {"attached", "answered", "mounted"} /\ attach[cur].tunnel \in active =>
       attach[cur].open

\* What is read ends no attach that was under way.
LEMMA ReadPending ==
  ASSUME DashInv, NEW h \in Gens, Read(h)
  PROVE  Pending' = Pending /\ \A g \in Gens : attach'[g].tunnel = attach[g].tunnel
<1>1. Types /\ Sock(h) /\ attach[h] \in Attachments /\ wire[h] \in Seq(Msgs)
  BY SockTypes DEF DashInv
<1>2. wire[h] # <<>> /\ attach[h].open /\ Head(wire[h]) = wire[h][1]
  BY <1>1, ReadOf, TakenFrom
<1>. DEFINE m == Head(wire[h])
<1>3. \/ attach'[h] = [attach[h] EXCEPT !.pc = "answered", !.count = m.n, !.status = m.status]
         /\ m.kind = "ok"
      \/ attach' = attach
      \/ attach'[h] = [attach[h] EXCEPT !.open = m.kind # "closed", !.missed = ear # h]
  BY <1>1, ReadOf, Zenon
<1>4. m.kind = "ok" => attach[h].pc = "attached"
  <2>1. News(attach[h], wire[h], status[attach[h].tunnel])
        /\ Counted(attach[h], wire[h], served[attach[h].tunnel])
    BY <1>1 DEF Sock
  <2>2. 1 \in 1..Len(wire[h])
    BY <1>1, <1>2
  <2>. QED BY <1>1, <1>2, <2>1, <2>2 DEF Counted, NoOk, Attachments, Pcs
<1>5. \A g \in Gens \ {h} : attach'[g] = attach[g]
  BY <1>1, ReadOf
<1>. HIDE DEF m
<1>6. /\ attach'[h].tunnel = attach[h].tunnel
      /\ \/ attach'[h].pc = attach[h].pc
         \/ attach'[h].pc = "answered" /\ attach[h].pc = "attached"
  BY <1>1, <1>3, <1>4 DEF Attachments
<1>. QED BY <1>5, <1>6 DEF Pending

\* Every step keeps the attaches settled.
LEMMA SettlesStep ==
  ASSUME DashInv, Settles, [Next]_vars
  PROVE  Settles'
<1>0. Types /\ cur \in Gens
  BY DEF DashInv, Types
<1>1. ASSUME UNCHANGED <<alive, attach, cur, prof, ear, crossed>> PROVE Settles'
  BY <1>1 DEF Settles, Pending
<1>2. ASSUME NEW t \in Tunnels, Serve(t) PROVE Settles'
  BY <1>1, <1>2 DEF Serve, links, client, screen, history
<1>3. ASSUME NEW t \in Tunnels, LinkUp(t) \/ LinkDown(t) \/ LinkRefused(t) \/ Stop(t)
      PROVE  Settles'
  BY <1>0, <1>1, <1>3, Reported
<1>4. ASSUME DaemonEnds PROVE Settles'
  BY <1>4 DEF DaemonEnds, Settles
<1>5. ASSUME NEW t \in Tunnels, SwitchTo(t) PROVE Settles'
  <2>. SUFFICES ASSUME ~crossed', alive' PROVE Pending' = {cur'} /\ prof' # attach'[cur'].tunnel
    BY DEF Settles
  <2>1. Pending = {} /\ prof' = prof /\ prof # t
    BY <1>5 DEF SwitchTo
  <2>2. attach'[cur'].tunnel = t /\ attach'[cur'].pc = "attaching" /\ cur' \in Gens
    BY <1>0, <1>5, Switched, AttachingType
  <2>3. attach'[cur].pc = attach[cur].pc \/ attach'[cur].pc = "hung"
    BY <1>0, <1>5, Switched
  <2>4. \A g \in Gens \ {cur, cur'} : attach'[g] = attach[g]
    BY <1>0, <1>5, Switched
  <2>. QED BY <1>0, <2>1, <2>2, <2>3, <2>4 DEF Pending
<1>6. ASSUME NEW g \in Gens, AttachOk(g) PROVE Settles'
  <2>. SUFFICES ASSUME alive' PROVE Settles'
    BY DEF Settles
  <2>1. /\ \A h \in Gens \ {g} : attach'[h] = attach[h]
        /\ attach[g].pc = "attaching" /\ UNCHANGED <<alive, cur, prof, ear, crossed>>
    BY <1>0, <1>6, Answered
  <2>2. attach'[g].tunnel = attach[g].tunnel /\ attach'[g].pc \in {"attached", "answered"}
    <3>1. attach[g] \in Attachments
      BY <1>0 DEF Types
    <3>2. \/ attach'[g] = [attach[g] EXCEPT !.pc = "attached"]
          \/ attach'[g] = [attach[g] EXCEPT !.pc = IF alive THEN "answered" ELSE "hung", !.open = FALSE]
      BY <1>0, <1>6, Answered, Zenon
    <3>. QED BY <2>1, <3>1, <3>2 DEF Attachments
  <2>3. Pending' = Pending
    BY <2>1, <2>2 DEF Pending
  <2>4. attach'[cur].tunnel = attach[cur].tunnel
    BY <1>0, <2>1, <2>2
  <2>. QED BY <2>1, <2>3, <2>4 DEF Settles
<1>7. ASSUME NEW g \in Gens, Read(g) PROVE Settles'
  <2>1. UNCHANGED <<alive, cur, prof, ear, crossed>>
    BY <1>7 DEF Read, links
  <2>2. Pending' = Pending /\ attach'[cur].tunnel = attach[cur].tunnel
    BY <1>0, <1>7, ReadPending
  <2>. QED BY <2>1, <2>2 DEF Settles
<1>8. ASSUME NEW g \in Gens, Mount(g) PROVE Settles'
  <2>1. /\ UNCHANGED <<alive, cur, crossed>> /\ attach[g].pc = "answered"
        /\ attach'[g] = [attach[g] EXCEPT !.pc = "mounted"]
        /\ \A h \in Gens \ {g} : attach'[h] = attach[h]
        /\ prof # attach[g].tunnel => prof' = attach[g].tunnel /\ ear' = g
    BY <1>0, <1>8, MountOf
  <2>. SUFFICES ASSUME ~crossed, alive
                PROVE  Pending' = {} /\ ear' = cur /\ prof' = attach'[cur].tunnel
    BY <2>1 DEF Settles
  <2>2. g \in Pending
    BY <2>1 DEF Pending
  <2>3. g = cur /\ Pending = {cur} /\ prof # attach[cur].tunnel
    BY <2>2 DEF Settles
  <2>4. attach'[g].pc = "mounted" /\ attach'[g].tunnel = attach[g].tunnel
    BY <1>0, <2>1 DEF Types, Attachments
  <2>5. ASSUME NEW h \in Gens PROVE attach'[h].pc \notin {"attaching", "attached", "answered"}
    <3>1. CASE h = g
      BY <2>4, <3>1
    <3>2. CASE h # g
      <4>1. h \notin Pending /\ attach'[h] = attach[h]
        BY <2>1, <2>3, <3>2
      <4>. QED BY <4>1 DEF Pending
    <3>. QED BY <3>1, <3>2
  <2>6. Pending' = {}
    BY <2>5 DEF Pending
  <2>. QED BY <2>1, <2>3, <2>4, <2>6
<1>9. ASSUME FlushBatch PROVE Settles'
  BY <1>1, <1>9 DEF FlushBatch, daemonSide, links, client, history
<1>10. ASSUME OpenSwitcher \/ CloseSwitcher \/ TogglePause \/ MoveCursor
              \/ OpenDetail \/ CloseDetail \/ UNCHANGED vars
       PROVE  Settles'
  BY <1>1, <1>10, KeysUnchanged
<1>. QED BY <1>2, <1>3, <1>4, <1>5, <1>6, <1>7, <1>8, <1>9, <1>10, StepCases

\* A message on no wire closes none.
LEMMA ClosedBy ==
  ASSUME NEW w \in Seq(Msgs), NEW m \in Msgs, Closes(Append(w, m))
  PROVE  Closes(w) \/ m.kind = "closed"
<1>. DEFINE v == Append(w, m)
<1>1. /\ Len(v) = Len(w) + 1 /\ v[Len(w) + 1] = m /\ \A i \in 1..Len(w) : v[i] = w[i]
      /\ Len(w) \in Nat
  BY AppendedTo
<1>. HIDE DEF v
<1>2. Closes(v)
  BY DEF v
<1>. QED BY <1>1, <1>2 DEF Closes

\* Every step keeps the last socket open.
LEMMA OpenedStep ==
  ASSUME DashInv, Opened, [Next]_vars
  PROVE  Opened'
<1>0. Types /\ Types' /\ cur \in Gens
  BY TypesStep DEF DashInv, Types
<1>1. ASSUME UNCHANGED <<alive, attach, cur>>, active' \subseteq active,
             \A g \in Gens : Closes(wire'[g]) => Closes(wire[g])
      PROVE  Opened'
  BY <1>0, <1>1 DEF Opened
\* One socket g changes.
<1>a. ASSUME NEW g \in Gens, UNCHANGED <<alive, active, cur>>,
             \A h \in Gens \ {g} : attach'[h] = attach[h] /\ wire'[h] = wire[h],
             Closes(wire'[g]) => ~alive,
             \/ attach'[g].open \/ attach'[g].tunnel \notin active
             \/ /\ attach'[g].tunnel = attach[g].tunnel /\ attach'[g].open = attach[g].open
                /\ attach[g].pc \in {"attached", "answered", "mounted"}
      PROVE  Opened'
  <2>1. \A h \in Gens : Closes(wire'[h]) => ~alive
    BY <1>a DEF Opened
  <2>2. ~alive => active = {}
    BY DEF Opened
  <2>3. attach'[cur].pc \in {"attached", "answered", "mounted"} /\ attach'[cur].tunnel \in active =>
          attach'[cur].open
    <3>1. CASE cur = g
      BY <1>a, <3>1 DEF Opened
    <3>2. CASE cur # g
      BY <1>0, <1>a, <3>2 DEF Opened
    <3>. QED BY <3>1, <3>2
  <2>. QED BY <1>a, <2>1, <2>2, <2>3 DEF Opened
<1>2. ASSUME NEW t \in Tunnels, Serve(t) PROVE Opened'
  <2>. DEFINE m == Message("response", served[t] + 1, "connecting")
  <2>1. m \in Msgs /\ m.kind = "response"
    BY <1>0 DEF Message, Msgs, Statuses, Types
  <2>2. UNCHANGED <<alive, active, attach, cur>> /\ Tell(t, m)
    BY <1>2 DEF Serve, links, client
  <2>. HIDE DEF m
  <2>3. \A g \in Gens : wire'[g] = IF Hears(g, t) THEN Append(wire[g], m) ELSE wire[g]
    BY <1>0, <2>1, <2>2, ToldOf
  <2>4. \A g \in Gens : wire[g] \in Seq(Msgs)
    BY <1>0 DEF Types
  <2>. QED BY <1>1, <2>1, <2>2, <2>3, <2>4, ClosedBy
<1>3. ASSUME NEW t \in Tunnels, LinkUp(t) \/ LinkDown(t) \/ LinkRefused(t) \/ Stop(t)
      PROVE  Opened'
  <2>1. UNCHANGED <<alive, attach, cur>> /\ active' \subseteq active
    BY <1>0, <1>3, Reported
  <2>2. \A g \in Gens : wire[g] \in Seq(Msgs)
    BY <1>0 DEF Types
  <2>3. ASSUME NEW g \in Gens, Closes(wire'[g]) PROVE Closes(wire[g])
    <3>1. ASSUME NEW m \in Msgs, m.kind = "status",
                 wire'[g] = IF Hears(g, t) THEN Append(wire[g], m) ELSE wire[g]
          PROVE  Closes(wire[g])
      BY <2>2, <2>3, <3>1, ClosedBy
    <3>. QED BY <1>0, <1>3, <2>3, <3>1, Reported
  <2>. QED BY <1>1, <2>1, <2>3
<1>4. ASSUME DaemonEnds PROVE Opened'
  BY <1>0, <1>4, Ended DEF Opened
<1>5. ASSUME NEW t \in Tunnels, SwitchTo(t) PROVE Opened'
  <2>1. /\ UNCHANGED <<alive, active>> /\ attach'[cur'] = Attaching(t)
        /\ wire'[cur] = <<>> /\ \A g \in Gens \ {cur} : wire'[g] = wire[g]
    BY <1>0, <1>5, Switched
  <2>2. attach'[cur'].pc = "attaching"
    BY <2>1, AttachingType
  <2>. QED BY <2>1, <2>2, EmptyWire DEF Opened
<1>6. ASSUME NEW g \in Gens, AttachOk(g) PROVE Opened'
  <2>. DEFINE t == attach[g].tunnel
              m == Message("ok", served[t], status[t])
  <2>1. /\ UNCHANGED <<alive, active, cur>> /\ attach[g].pc = "attaching" /\ attach[g].open
        /\ \A h \in Gens \ {g} : attach'[h] = attach[h] /\ wire'[h] = wire[h]
    BY <1>0, <1>6, Answered
  <2>2. attach[g] \in Attachments
    BY <1>0 DEF Types
  <2>3. CASE attach'[g] = [attach[g] EXCEPT !.pc = "attached"] /\ t \in active /\ wire'[g] = <<m>>
    <3>1. attach'[g].open
      BY <2>1, <2>2, <2>3 DEF Attachments
    <3>2. t \in Tunnels /\ served[t] \in Nat /\ status[t] \in Statuses
      BY <1>0, <2>1, SockTypes
    <3>3. m \in Msgs /\ m.kind = "ok"
      BY <3>2 DEF Message, Msgs
    <3>. HIDE DEF m
    <3>4. ~Closes(wire'[g])
      BY <2>3, <3>3, OkAlone
    <3>. QED BY <1>a, <2>1, <3>1, <3>4
  <2>4. CASE /\ attach'[g] = [attach[g] EXCEPT !.pc = IF alive THEN "answered" ELSE "hung",
                                               !.open = FALSE]
             /\ t \notin active /\ wire' = wire
    <3>1. attach'[g].tunnel \notin active
      BY <2>2, <2>4 DEF Attachments
    <3>2. Closes(wire'[g]) => ~alive
      BY <2>4 DEF Opened
    <3>. QED BY <1>a, <2>1, <3>1, <3>2
  <2>5. \/ attach'[g] = [attach[g] EXCEPT !.pc = "attached"] /\ t \in active /\ wire'[g] = <<m>>
        \/ /\ attach'[g] = [attach[g] EXCEPT !.pc = IF alive THEN "answered" ELSE "hung",
                                             !.open = FALSE]
           /\ t \notin active /\ wire' = wire
    BY <1>0, <1>6, Answered, Zenon
  <2>. QED BY <2>3, <2>4, <2>5
<1>7. ASSUME NEW g \in Gens, Read(g) PROVE Opened'
  <2>. DEFINE m == Head(wire[g])
  <2>1. /\ UNCHANGED <<alive, active, cur>> /\ wire[g] # <<>> /\ attach[g].open
        /\ \A h \in Gens \ {g} : attach'[h] = attach[h] /\ wire'[h] = wire[h]
        /\ wire'[g] = Tail(wire[g])
    BY <1>0, <1>7, ReadOf
  <2>2. attach[g] \in Attachments /\ wire[g] \in Seq(Msgs)
    BY <1>0 DEF Types
  <2>3. (Closes(Tail(wire[g])) => Closes(wire[g])) /\ (m.kind = "closed" => Closes(wire[g]))
    BY <2>1, <2>2, TakenFrom
  <2>4. \/ attach'[g] = [attach[g] EXCEPT !.pc = "answered", !.count = m.n, !.status = m.status]
        \/ attach' = attach
        \/ attach'[g] = [attach[g] EXCEPT !.open = m.kind # "closed", !.missed = ear # g]
    BY <1>0, <1>7, ReadOf, Zenon
  <2>. HIDE DEF m
  <2>5. attach'[g].open \/ m.kind = "closed"
    BY <2>1, <2>2, <2>4 DEF Attachments
  <2>6. ~attach'[g].open => active = {}
    BY <2>3, <2>5 DEF Opened
  <2>7. Closes(wire'[g]) => ~alive
    BY <2>1, <2>3 DEF Opened
  <2>8. attach'[g].open \/ attach'[g].tunnel \notin active
    BY <2>6
  <2>. QED BY <1>a, <2>1, <2>7, <2>8
<1>8. ASSUME NEW g \in Gens, Mount(g) PROVE Opened'
  <2>1. /\ UNCHANGED <<alive, active, wire, cur>> /\ attach[g].pc = "answered"
        /\ attach'[g] = [attach[g] EXCEPT !.pc = "mounted"]
        /\ \A h \in Gens \ {g} : attach'[h] = attach[h]
    BY <1>0, <1>8, MountOf
  <2>2. attach'[g].open = attach[g].open /\ attach'[g].tunnel = attach[g].tunnel
    BY <1>0, <2>1 DEF Types, Attachments
  <2>3. Closes(wire'[g]) => ~alive
    BY <2>1 DEF Opened
  <2>. QED BY <1>a, <2>1, <2>2, <2>3
<1>9. ASSUME FlushBatch PROVE Opened'
  BY <1>1, <1>9 DEF FlushBatch, daemonSide, links, client
<1>10. ASSUME OpenSwitcher \/ CloseSwitcher \/ TogglePause \/ MoveCursor
              \/ OpenDetail \/ CloseDetail \/ UNCHANGED vars
       PROVE  Opened'
  BY <1>1, <1>10, KeysUnchanged
<1>. QED BY <1>2, <1>3, <1>4, <1>5, <1>6, <1>7, <1>8, <1>9, <1>10, StepCases

\* While the daemon runs, once no attach is under way and no two switches
\* crossed, the dashboard listens to the last socket and shows its tunnel, and
\* the socket is open as long as that tunnel runs (CommandDashboard.ts).
THEOREM DashboardListens == Spec => []ListensToWhatItShows
<1>1. Init => Settles /\ Opened
  <2>. SUFFICES ASSUME Init PROVE Settles /\ Opened
    OBVIOUS
  <2>1. PICK t \in Tunnels : attach = [[g \in Gens |-> None] EXCEPT ![1] = Attaching(t)]
    BY DEF Init
  <2>2. 1 \in Gens /\ cur = 1 /\ prof = NoTunnel /\ alive = TRUE /\ wire = [g \in Gens |-> <<>>]
    BY DashboardAssumption DEF Init, Gens
  <2>3. /\ attach[1].pc = "attaching" /\ attach[1].tunnel = t
        /\ \A g \in Gens \ {1} : attach[g].pc = "none"
    BY <2>1, <2>2, AttachingType DEF None
  <2>4. Pending = {cur} /\ prof # attach[cur].tunnel
    BY <2>2, <2>3, DashboardAssumption DEF Pending
  <2>5. \A g \in Gens : ~Closes(wire[g])
    BY <2>2, EmptyWire
  <2>. QED BY <2>2, <2>3, <2>4, <2>5 DEF Settles, Opened
<1>2. DashInv /\ Settles /\ Opened /\ [Next]_vars => (Settles /\ Opened)'
  BY SettlesStep, OpenedStep
<1>3. DashInv /\ Settles /\ Opened => ListensToWhatItShows
  <2>. SUFFICES ASSUME DashInv, Settles, Opened, Mounted, Pending = {}, ~crossed, alive
                PROVE  /\ ear = cur /\ prof = attach[cur].tunnel
                       /\ prof \in active => attach[cur].open
    BY DEF ListensToWhatItShows
  <2>1. ear = cur /\ prof = attach[cur].tunnel
    BY DEF Settles
  <2>2. attach[cur].pc = "mounted"
    BY <2>1, MountedSock DEF Heard
  <2>. QED BY <2>1, <2>2 DEF Opened
<1>. QED BY <1>1, <1>2, <1>3, DashboardInvariant, PTL DEF Spec

-----------------------------------------------------------------------------
(* The end of a sequence                                                   *)

\* s is the end of t, by positions.
Ends(s, t) ==
  /\ Len(s) <= Len(t)
  /\ \A i \in 1..Len(s) : s[i] = t[Len(t) - Len(s) + i]

\* IsSuffix by positions.
LEMMA EndsSuffix ==
  ASSUME NEW s \in Seq(Nat), NEW t \in Seq(Nat), Ends(s, t)
  PROVE  IsSuffix(s, t)
<1>1. /\ Len(Reverse(s)) = Len(s) /\ Len(Reverse(t)) = Len(t)
      /\ Len(s) \in Nat /\ Len(t) \in Nat
      /\ Reverse(s) \in Seq(Nat) /\ Reverse(t) \in Seq(Nat)
  BY DEF Reverse
<1>2. \A i \in 1..Len(s) : Reverse(s)[i] = Reverse(t)[i]
  <2>. SUFFICES ASSUME NEW i \in 1..Len(s) PROVE Reverse(s)[i] = Reverse(t)[i]
    OBVIOUS
  <2>1. Reverse(s)[i] = s[(Len(s) - i) + 1] /\ Reverse(t)[i] = t[(Len(t) - i) + 1]
    BY <1>1 DEF Reverse, Ends
  <2>2. (Len(s) - i) + 1 \in 1..Len(s) /\ Len(t) - Len(s) + ((Len(s) - i) + 1) = (Len(t) - i) + 1
    BY <1>1
  <2>. QED BY <2>1, <2>2 DEF Ends
<1>3. Len(Reverse(s)) <= Len(Reverse(t))
  BY <1>1 DEF Ends
<1>. QED BY <1>1, <1>2, <1>3 DEF IsSuffix, IsPrefix

\* One more at the end of both.
LEMMA EndsAppend ==
  ASSUME NEW s \in Seq(Nat), NEW t \in Seq(Nat), NEW n \in Nat, Ends(s, t)
  PROVE  Ends(Append(s, n), Append(t, n))
<1>1. /\ Len(Append(s, n)) = Len(s) + 1 /\ Len(Append(t, n)) = Len(t) + 1
      /\ Len(s) \in Nat /\ Len(t) \in Nat /\ Len(s) <= Len(t)
      /\ Append(s, n)[Len(s) + 1] = n /\ Append(t, n)[Len(t) + 1] = n
  BY DEF Ends
<1>2. \A i \in 1..Len(s) : Append(s, n)[i] = s[i]
  OBVIOUS
<1>3. \A i \in 1..Len(t) : Append(t, n)[i] = t[i]
  OBVIOUS
<1>4. ASSUME NEW i \in 1..Len(s) + 1
      PROVE  Append(s, n)[i] = Append(t, n)[Len(t) + 1 - (Len(s) + 1) + i]
  <2>1. CASE i = Len(s) + 1
    <3>1. Len(t) + 1 - (Len(s) + 1) + i = Len(t) + 1
      BY <1>1, <2>1
    <3>. QED BY <1>1, <2>1, <3>1
  <2>2. CASE i \in 1..Len(s)
    <3>1. Len(t) + 1 - (Len(s) + 1) + i = Len(t) - Len(s) + i /\ Len(t) - Len(s) + i \in 1..Len(t)
      BY <1>1, <2>2
    <3>. QED BY <1>2, <1>3, <2>2, <3>1 DEF Ends
  <2>. QED BY <1>1, <2>1, <2>2
<1>5. Len(s) + 1 <= Len(t) + 1
  BY <1>1
<1>. DEFINE a == Append(s, n)
            b == Append(t, n)
<1>6. Len(a) = Len(s) + 1 /\ Len(b) = Len(t) + 1 /\ \A i \in 1..Len(s) + 1 : a[i] = b[Len(t) + 1 - (Len(s) + 1) + i]
  BY <1>1, <1>4
<1>. HIDE DEF a, b
<1>7. Len(s) \in Nat /\ Len(t) \in Nat
  OBVIOUS
<1>8. Ends(a, b)
  <2>1. Len(a) <= Len(b)
    BY <1>5, <1>6
  <2>2. ASSUME NEW i \in 1..Len(a) PROVE a[i] = b[Len(b) - Len(a) + i]
    <3>1. i \in 1..Len(s) + 1
      BY <1>6
    <3>2. a[i] = b[Len(t) + 1 - (Len(s) + 1) + i]
      BY <1>6, <3>1
    <3>. QED BY <1>6, <3>2
  <2>. QED BY <2>1, <2>2 DEF Ends
<1>. QED BY <1>8 DEF a, b

\* One more at the end of two sequences joined.
LEMMA AppendConcat ==
  ASSUME NEW s \in Seq(Nat), NEW t \in Seq(Nat), NEW n \in Nat
  PROVE  s \o Append(t, n) = Append(s \o t, n)
OBVIOUS

\* The same sequence at the end of both.
LEMMA EndsConcat ==
  ASSUME NEW r \in Seq(Nat), NEW s \in Seq(Nat), NEW q \in Seq(Nat), Ends(r, s)
  PROVE  Ends(r \o q, s \o q)
BY DEF Ends

\* The end of an end.
LEMMA EndsOfEnds ==
  ASSUME NEW r \in Seq(Nat), NEW s \in Seq(Nat), NEW t \in Seq(Nat), Ends(r, s), Ends(s, t)
  PROVE  Ends(r, t)
<1>1. Len(r) \in Nat /\ Len(s) \in Nat /\ Len(t) \in Nat /\ Len(r) <= Len(s) /\ Len(s) <= Len(t)
  BY DEF Ends
<1>2. ASSUME NEW i \in 1..Len(r) PROVE r[i] = t[Len(t) - Len(r) + i]
  <2>. DEFINE k == Len(s) - Len(r) + i
  <2>1. k \in 1..Len(s) /\ Len(t) - Len(s) + k = Len(t) - Len(r) + i
    BY <1>1
  <2>. HIDE DEF k
  <2>2. s[k] = t[Len(t) - Len(s) + k]
    BY <2>1 DEF Ends
  <2>3. r[i] = s[k]
    BY DEF Ends, k
  <2>. QED BY <2>1, <2>2, <2>3
<1>. QED BY <1>1, <1>2 DEF Ends

\* What the log keeps of a sequence.
LEMMA LastOfEnds ==
  ASSUME NEW s \in Seq(Nat)
  PROVE  /\ LastOf(s) \in Seq(Nat) /\ Ends(LastOf(s), s)
         /\ Len(LastOf(s)) = IF Len(s) > LogMax THEN LogMax ELSE Len(s)
         /\ Len(s) <= LogMax => LastOf(s) = s
<1>1. Len(s) \in Nat /\ LogMax \in Nat \ {0}
  BY DashboardAssumption
<1>. DEFINE m == IF Len(s) > LogMax THEN Len(s) - LogMax + 1 ELSE 1
            r == SubSeq(s, m, Len(s))
<1>2. m \in Nat \ {0} /\ m <= Len(s) + 1
  BY <1>1
<1>. HIDE DEF m
<1>3. \A i \in m..Len(s) : s[i] \in Nat
  BY <1>2
<1>4. /\ r \in Seq(Nat) /\ Len(r) = IF m <= Len(s) THEN Len(s) - m + 1 ELSE 0
      /\ \A i \in 1..Len(s) - m + 1 : r[i] = s[m + i - 1]
  BY <1>1, <1>2, <1>3, SubSeqProperties
<1>. HIDE DEF r
<1>5. Len(r) = Len(s) - m + 1
  BY <1>1, <1>2, <1>4
<1>6. \A i \in 1..Len(r) : Len(s) - Len(r) + i = m + i - 1
  BY <1>1, <1>2, <1>5
<1>7. LastOf(s) = r
  BY DEF LastOf, m, r
<1>8. Ends(r, s)
  <2>1. ASSUME NEW i \in 1..Len(r) PROVE r[i] = s[Len(s) - Len(r) + i]
    <3>1. Len(s) - Len(r) + i = m + i - 1
      BY <1>6
    <3>2. i \in 1..Len(s) - m + 1
      BY <1>5
    <3>3. r[i] = s[m + i - 1]
      BY <1>4, <3>2
    <3>. QED BY <3>1, <3>3
  <2>2. Len(r) <= Len(s)
    BY <1>1, <1>2, <1>5
  <2>. QED BY <2>1, <2>2 DEF Ends
<1>9. Len(r) = IF Len(s) > LogMax THEN LogMax ELSE Len(s)
  BY <1>1, <1>5 DEF m
<1>10. ASSUME Len(s) <= LogMax PROVE r = s
  <2>1. m = 1
    BY <1>1, <1>10 DEF m
  <2>. QED BY <2>1, SubSeqFull DEF r
<1>. QED BY <1>4, <1>7, <1>8, <1>9, <1>10

\* What LastOf leaves fits the log.
LEMMA ShortEnough ==
  ASSUME NEW s \in Seq(Nat), NEW t \in Seq(Nat)
  PROVE  LastOf(s \o t) \in Seq(Nat) /\ Len(LastOf(s \o t)) <= LogMax
<1>1. s \o t \in Seq(Nat) /\ Len(s \o t) \in Nat
  OBVIOUS
<1>2. LastOf(s \o t) \in Seq(Nat)
      /\ Len(LastOf(s \o t)) = IF Len(s \o t) > LogMax THEN LogMax ELSE Len(s \o t)
  BY <1>1, LastOfEnds
<1>3. LogMax \in Nat
  BY DashboardAssumption
<1>. QED BY <1>1, <1>2, <1>3

-----------------------------------------------------------------------------
(* The log                                                                 *)

LogTypes ==
  /\ log \in Seq(Nat) /\ pending \in Seq(Nat) /\ heard \in Seq(Nat)
  /\ timer \in BOOLEAN /\ paused \in BOOLEAN /\ shuffled \in BOOLEAN
  /\ Len(log) <= LogMax

Buffers == log \o batch \o pending

\* LogFaithful by positions, and what the three buffers owe to the timer and the
\* pause: a batch waits for its timer, and only a paused dashboard buffers.
LogInv ==
  /\ LogTypes
  /\ batch # <<>> => timer
  /\ pending # <<>> => paused
  /\ ~shuffled => Ends(Buffers, heard) /\ (Len(Buffers) < Len(heard) => Len(log) = LogMax)

\* LogFaithful is about the kept part in this form.
LEMMA LogKept == LogInv /\ batch \in Seq(Nat) => LogFaithful
<1>. SUFFICES ASSUME LogInv, batch \in Seq(Nat), ~shuffled
              PROVE  IsSuffix(Buffers, heard) /\ (Len(Buffers) < Len(heard) => Len(log) = LogMax)
  BY DEF LogFaithful, Buffers
<1>1. Buffers \in Seq(Nat) /\ heard \in Seq(Nat)
  BY DEF LogInv, LogTypes, Buffers
<1>. QED BY <1>1, EndsSuffix DEF LogInv

\* An answer is appended to what is shown, whichever buffer it goes to.
LEMMA ResponseLog ==
  ASSUME LogInv, batch \in Seq(Nat), NEW n \in Nat, Response(n),
         UNCHANGED <<log, paused, shuffled>>
  PROVE  LogInv'
<1>1. LogTypes /\ (~paused => pending = <<>>)
  BY DEF LogInv
<1>2. heard' = Append(heard, n) /\ Buffers' = Append(Buffers, n)
  <2>1. CASE paused /\ pending' = Append(pending, n) /\ batch' = batch
    <3>1. log \o batch \in Seq(Nat) /\ pending \in Seq(Nat)
      BY <1>1 DEF LogTypes
    <3>2. Buffers' = (log \o batch) \o Append(pending, n)
      BY <2>1 DEF Buffers
    <3>3. heard' = Append(heard, n)
      BY DEF Response
    <3>. QED BY <3>1, <3>2, <3>3, AppendConcat DEF Buffers
  <2>2. CASE ~paused /\ pending' = pending /\ batch' = Append(batch, n)
    <3>1. log \in Seq(Nat) /\ log \o batch \in Seq(Nat) /\ pending = <<>>
      BY <1>1, <2>2 DEF LogTypes
    <3>2. log' \o batch' = Append(log \o batch, n)
      BY <2>2, <3>1, AppendConcat
    <3>3. \A q \in Seq(Nat) : q \o <<>> = q
      BY ConcatEmptySeq
    <3>4. Append(log \o batch, n) \in Seq(Nat)
      BY <3>1
    <3>5. heard' = Append(heard, n)
      BY DEF Response
    <3>. QED BY <2>2, <3>1, <3>2, <3>3, <3>4, <3>5 DEF Buffers
  <2>. QED BY <2>1, <2>2 DEF Response
<1>3. Buffers \in Seq(Nat) /\ heard \in Seq(Nat)
  BY <1>1 DEF LogTypes, Buffers
<1>4. ~shuffled => Ends(Buffers', heard')
  BY <1>2, <1>3, EndsAppend DEF LogInv
<1>5. Len(Buffers') = Len(Buffers) + 1 /\ Len(heard') = Len(heard) + 1
      /\ Len(Buffers) \in Nat /\ Len(heard) \in Nat
  BY <1>2, <1>3
<1>6. ~shuffled => (Len(Buffers') < Len(heard') => Len(log) = LogMax)
  BY <1>5 DEF LogInv
<1>7. LogTypes'
  <2>1. log' = log /\ paused' = paused /\ shuffled' = shuffled
    OBVIOUS
  <2>2. heard' \in Seq(Nat)
    BY <1>2, <1>3
  <2>3. pending' \in Seq(Nat) /\ timer' \in BOOLEAN
    <3>1. pending' = Append(pending, n) \/ pending' = pending
      BY DEF Response
    <3>2. timer' = timer \/ timer' = TRUE
      BY DEF Response
    <3>3. pending' \in Seq(Nat)
      <4>1. pending \in Seq(Nat) /\ Append(pending, n) \in Seq(Nat)
        BY <1>1 DEF LogTypes
      <4>. QED BY <3>1, <4>1
    <3>4. timer' \in BOOLEAN
      BY <1>1, <3>2 DEF LogTypes
    <3>. QED BY <3>3, <3>4
  <2>. QED BY <1>1, <2>1, <2>2, <2>3 DEF LogTypes
<1>8. (batch' # <<>> => timer') /\ (pending' # <<>> => paused')
  BY <1>1 DEF Response, LogInv
<1>. QED BY <1>4, <1>6, <1>7, <1>8 DEF LogInv

\* Moving the next buffer to the log keeps what is shown, but for the oldest
\* entries of a full log.
LEMMA MovedToLog ==
  ASSUME NEW l \in Seq(Nat), NEW moved \in Seq(Nat), NEW rest \in Seq(Nat),
         NEW all \in Seq(Nat), Len(l) <= LogMax,
         Ends(l \o moved \o rest, all),
         Len(l \o moved \o rest) < Len(all) => Len(l) = LogMax
  PROVE  /\ LastOf(l \o moved) \in Seq(Nat) /\ Len(LastOf(l \o moved)) <= LogMax
         /\ Ends(LastOf(l \o moved) \o rest, all)
         /\ Len(LastOf(l \o moved) \o rest) < Len(all) => Len(LastOf(l \o moved)) = LogMax
<1>. DEFINE s == l \o moved
            k == LastOf(s)
<1>1. s \in Seq(Nat) /\ Len(s) = Len(l) + Len(moved) /\ Len(l) \in Nat /\ Len(moved) \in Nat
  OBVIOUS
<1>. HIDE DEF s
<1>2. k \in Seq(Nat) /\ Ends(k, s) /\ Len(k) = IF Len(s) > LogMax THEN LogMax ELSE Len(s)
  BY <1>1, LastOfEnds
<1>. HIDE DEF k
<1>3. Ends(s \o rest, all) /\ (Len(s \o rest) < Len(all) => Len(l) = LogMax)
  BY DEF s
<1>4. Ends(k \o rest, all)
  <2>1. k \o rest \in Seq(Nat) /\ s \o rest \in Seq(Nat)
    BY <1>1, <1>2
  <2>2. Ends(k \o rest, s \o rest)
    BY <1>1, <1>2, EndsConcat
  <2>. QED BY <1>3, <2>1, <2>2, EndsOfEnds
<1>5. /\ Len(k \o rest) = Len(k) + Len(rest) /\ Len(s \o rest) = Len(s) + Len(rest)
      /\ Len(k) \in Nat /\ Len(s) \in Nat /\ Len(rest) \in Nat /\ Len(all) \in Nat /\ LogMax \in Nat
  <2>1. LogMax \in Nat
    BY DashboardAssumption
  <2>2. k \in Seq(Nat) /\ s \in Seq(Nat)
    BY <1>1, <1>2
  <2>. QED BY <2>1, <2>2
<1>6. Len(k \o rest) < Len(all) => Len(k) = LogMax
  <2>1. CASE Len(s) > LogMax
    BY <1>2, <2>1
  <2>2. CASE ~(Len(s) > LogMax)
    BY <1>1, <1>2, <1>3, <1>5, <2>2
  <2>. QED BY <2>1, <2>2
<1>7. Len(k) <= LogMax
  BY <1>2, <1>5
<1>. QED BY <1>2, <1>4, <1>6, <1>7 DEF k, s

\* Every step keeps it.
LEMMA LogStep ==
  ASSUME Types, LogInv, [Next]_vars
  PROVE  LogInv'
<1>0. Types /\ batch \in Seq(Nat) /\ LogTypes
  BY DEF Types, LogInv
<1>1. ASSUME UNCHANGED <<log, batch, timer, pending, paused, heard, shuffled>> PROVE LogInv'
  BY <1>1 DEF LogInv, LogTypes, Buffers
<1>2. ASSUME NEW t \in Tunnels,
             \/ Serve(t) \/ LinkUp(t) \/ LinkDown(t) \/ LinkRefused(t)
             \/ Stop(t) \/ SwitchTo(t)
      PROVE  LogInv'
  BY <1>1, <1>2 DEF Serve, LinkUp, LinkDown, LinkRefused, Change, Stop, SwitchTo, screen, history
<1>3. ASSUME NEW g \in Gens, AttachOk(g) \/ DaemonEnds PROVE LogInv'
  BY <1>1, <1>3 DEF AttachOk, DaemonEnds, screen, history
<1>4. ASSUME NEW g \in Gens, Read(g) PROVE LogInv'
  <2>1. UNCHANGED <<log, paused, shuffled>>
    BY <1>4 DEF Read
  <2>2. Head(wire[g]).n \in Nat
    BY <1>0, <1>4, ReadOf DEF Msgs
  <2>3. CASE Response(Head(wire[g]).n)
    BY <1>0, <2>1, <2>2, <2>3, ResponseLog
  <2>4. CASE UNCHANGED <<batch, timer, pending, heard>>
    BY <1>1, <2>1, <2>4
  <2>. QED BY <1>4, <2>3, <2>4 DEF Read
<1>5. ASSUME NEW g \in Gens, Mount(g) PROVE LogInv'
  <2>1. CASE UNCHANGED <<screen, heard, shuffled>>
    BY <1>1, <2>1 DEF screen
  <2>2. CASE /\ log' = <<>> /\ batch' = <<>> /\ timer' = FALSE /\ pending' = <<>>
             /\ paused' = FALSE /\ heard' = <<>> /\ shuffled' = FALSE
    <3>1. Len(<<>>) = 0 /\ <<>> \in Seq(Nat) /\ 0 <= LogMax
      BY DashboardAssumption
    <3>2. Buffers' = <<>>
      BY <2>2, <3>1, ConcatEmptySeq DEF Buffers
    <3>3. Ends(<<>>, <<>>) /\ ~(Len(<<>>) < Len(<<>>))
      BY <3>1 DEF Ends
    <3>4. LogTypes'
      BY <2>2, <3>1 DEF LogTypes
    <3>. QED BY <2>2, <3>2, <3>3, <3>4 DEF LogInv
  <2>. QED BY <1>5, <2>1, <2>2 DEF Mount
<1>6. ASSUME FlushBatch PROVE LogInv'
  <2>1. /\ log' = LastOf(log \o batch) /\ batch' = <<>> /\ timer' = FALSE
        /\ UNCHANGED <<pending, paused, heard, shuffled>>
    BY <1>6 DEF FlushBatch, history
  <2>2. log' \in Seq(Nat) /\ Len(log') <= LogMax /\ Buffers' = log' \o pending
    <3>1. log' \in Seq(Nat) /\ Len(log') <= LogMax
      BY <1>0, <2>1, ShortEnough DEF LogTypes
    <3>. QED BY <2>1, <3>1, ConcatEmptySeq DEF Buffers
  <2>3. ~shuffled => /\ Ends(log' \o pending, heard)
                     /\ Len(log' \o pending) < Len(heard) => Len(log') = LogMax
    BY <1>0, <2>1, MovedToLog DEF LogInv, LogTypes, Buffers
  <2>. QED BY <1>0, <2>1, <2>2, <2>3 DEF LogInv, LogTypes
<1>7. ASSUME TogglePause PROVE LogInv'
  <2>1. /\ paused' = ~paused /\ UNCHANGED <<batch, timer, heard>>
        /\ log' = IF paused THEN LastOf(log \o pending) ELSE log
        /\ pending' = IF paused THEN <<>> ELSE pending
        /\ shuffled' = (shuffled \/ (paused /\ batch # <<>> /\ pending # <<>>))
    BY <1>7 DEF TogglePause
  <2>2. /\ log' \in Seq(Nat) /\ Len(log') <= LogMax
        /\ log' \o <<>> = log' /\ log \o <<>> = log /\ batch \o <<>> = batch
        /\ log \o pending \in Seq(Nat)
    <3>1. log' \in Seq(Nat) /\ Len(log') <= LogMax
      BY <1>0, <2>1, ShortEnough DEF LogTypes
    <3>2. log \o pending \in Seq(Nat)
      BY <1>0 DEF LogTypes
    <3>. QED BY <1>0, <3>1, <3>2, ConcatEmptySeq DEF LogTypes
  <2>3. LogTypes'
    BY <1>0, <2>1, <2>2 DEF LogTypes
  <2>4. pending' # <<>> => paused'
    BY <2>1 DEF LogInv
  <2>5. ASSUME ~shuffled' PROVE Ends(Buffers', heard) /\ (Len(Buffers') < Len(heard) => Len(log') = LogMax)
    <3>1. CASE ~paused
      BY <2>1, <2>5, <3>1 DEF LogInv, Buffers
    <3>2. CASE paused /\ batch = <<>>
      <4>1. Buffers' = log' \o <<>> /\ log' = LastOf(log \o pending)
        BY <2>1, <2>2, <3>2 DEF Buffers
      <4>2. log \o batch \o pending = log \o pending \o <<>>
        BY <1>0, <2>2, <3>2, ConcatEmptySeq DEF LogTypes
      <4>3. /\ Ends(log \o pending \o <<>>, heard)
            /\ Len(log \o pending \o <<>>) < Len(heard) => Len(log) = LogMax
        BY <2>1, <2>5, <4>2 DEF LogInv, Buffers
      <4>. QED BY <1>0, <4>1, <4>3, MovedToLog, EmptySeq DEF LogTypes
    <3>3. CASE paused /\ pending = <<>>
      <4>1. LastOf(log) = log
        BY <1>0, LastOfEnds DEF LogTypes
      <4>2. log' = log /\ pending' = pending
        BY <2>1, <2>2, <3>3, <4>1
      <4>. QED BY <2>1, <2>5, <4>2 DEF LogInv, Buffers
    <3>. QED BY <2>1, <2>5, <3>1, <3>2, <3>3
  <2>. QED BY <2>1, <2>3, <2>4, <2>5 DEF LogInv
<1>8. ASSUME OpenSwitcher \/ CloseSwitcher \/ MoveCursor \/ OpenDetail \/ CloseDetail
             \/ UNCHANGED vars
      PROVE  LogInv'
  BY <1>1, <1>8 DEF OpenSwitcher, CloseSwitcher, MoveCursor, OpenDetail, CloseDetail,
                    vars, screen, history
<1>9. Gens # {}
  BY DashboardAssumption DEF Gens
<1>. QED BY <1>2, <1>3, <1>4, <1>5, <1>6, <1>7, <1>8, <1>9, StepCases

\* What the dashboard was told is in the log, the batch and the pause buffer,
\* in order and once, but for the oldest entries of a full log, unless it was
\* resumed with a batch outstanding (Dashboard.tsx).
THEOREM DashboardLogFaithful == Spec => []LogFaithful
<1>1. Init => LogInv
  <2>. SUFFICES ASSUME Init PROVE LogInv
    OBVIOUS
  <2>1. Len(<<>>) = 0 /\ <<>> \in Seq(Nat) /\ 0 <= LogMax /\ <<>> \o <<>> \o <<>> = <<>>
    BY DashboardAssumption, ConcatEmptySeq, EmptySeq
  <2>2. Ends(<<>>, <<>>) /\ ~(Len(<<>>) < Len(<<>>))
    BY <2>1 DEF Ends
  <2>3. /\ log = <<>> /\ batch = <<>> /\ pending = <<>> /\ heard = <<>>
        /\ timer = FALSE /\ paused = FALSE /\ shuffled = FALSE
    BY DEF Init
  <2>4. LogTypes
    BY <2>1, <2>3 DEF LogTypes
  <2>. QED BY <2>1, <2>2, <2>3, <2>4 DEF LogInv, Buffers
<1>2. DashInv /\ LogInv /\ [Next]_vars => LogInv'
  BY LogStep DEF DashInv
<1>3. DashInv /\ LogInv => LogFaithful
  BY LogKept DEF DashInv, Types
<1>. QED BY <1>1, <1>2, <1>3, DashboardInvariant, PTL DEF Spec
=============================================================================
