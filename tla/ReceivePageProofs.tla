-------------------------- MODULE ReceivePageProofs --------------------------
(***************************************************************************)
(* Theorems about ReceivePage, for any number of files, upload loops,      *)
(* uploads, clicks and lost messages: no job is stranded, and a file       *)
(* arrives twice only if two loops ran for its job at once or the receiver *)
(* forgot a saved upload.                                                  *)
(*                                                                         *)
(* Every handler of a loop changes its own slot and its own job, then goes *)
(* on to an await or ends and lets pump() start the next job; the lemmas   *)
(* follow that shape, so that each handler is a few facts about one job    *)
(* and one slot.                                                           *)
(***************************************************************************)
EXTENDS ReceivePage, FiniteSetTheorems, WellFoundedInduction, TLAPS

-----------------------------------------------------------------------------
(* The inductive invariant                                                 *)

States == {"absent", "queued", "uploading", "paused", "error", "cancelled", "done", "left"}
Awaits == Requests \cup {"idle", "hash", "backoff"}
Codes  == {"none", "lost", "ok", "gone", "refused", "pending"}
Replies == [code : Codes, id : Ids \cup {0}, offset : Nat, saved : BOOLEAN]
JobRecs == [state : States, id : Ids \cup {0}, offset : Nat, xhr : Runs \cup {0}]
RunRecs == [pc : Awaits, job : Jobs \cup {0}, id : Ids \cup {0}, off : Nat, try : Nat,
            reply : Replies]
UploadRecs == [file : Jobs \cup {0}, offset : Nat, busy : BOOLEAN,
               status : {"free", "open", "saved", "dropped", "past"}]

\* The part of the types the rest of the invariant speaks of.
Shapes(jb, st, rn, up, ov) ==
  /\ jb \in [Jobs -> JobRecs] /\ st \in [Jobs -> Ids \cup {0}]
  /\ rn \in [Runs -> RunRecs] /\ up \in [Ids -> UploadRecs] /\ ov \subseteq Jobs

Counters ==
  /\ cancelling \in [Jobs -> Nat] /\ full \in BOOLEAN /\ clicks \in Nat /\ lost \in Nat
  /\ gaveUp \subseteq Jobs

TypeOK == Shapes(job, stored, run, uploads, overlapped) /\ Counters

\* The states a job never leaves for the queue.
Closed == {"cancelled", "done", "left"}

\* The uploads of job j that were saved.
Saves(up, j) == {i \in Ids : up[i].file = j /\ up[i].status \in {"saved", "past"}}
\* Those the receiver remembers as saved or may still save.
Holds(up, j) == {i \in Ids : up[i].file = j /\ (up[i].status = "saved" \/ up[i].busy)}
\* The jobs with a saved upload that the receiver no longer knows, and with
\* them the jobs of which nothing more is claimed.
Forgot(up) == {j \in Jobs : \E i \in Ids : up[i].file = j /\ up[i].status = "past"}
Out == overlapped \cup Forgot(uploads)

\* What a job remembers is an upload of its own file, and done was saved.
JobOwn(b, s, up, j) ==
  /\ b.id # 0 => up[b.id].file = j
  /\ s # 0 => up[s].file = j
  /\ b.state = "done" => Saves(up, j) # {}

\* A loop asks for uploads of its job's file, and an answer that says saved is
\* about one that is.
RunOwn(q, up) ==
  /\ IF q.pc = "idle" THEN q = Idle ELSE q.job \in Jobs
  /\ q.id # 0 => up[q.id].file = q.job
  /\ q.reply.id # 0 => up[q.reply.id].file = q.job
  /\ q.reply.code = "ok" => q.reply.id # 0
  /\ q.reply.code = "ok" /\ q.reply.saved => up[q.reply.id].status \in {"saved", "past"}
  /\ q.reply.code = "ok" /\ q.pc = "complete" => q.reply.saved

\* A loop drops an upload only for a job that is over.
Drops(q, b) == q.pc = "drop" => b.state \in {"cancelled", "done"}

\* A job no two loops ever shared, none of whose saves is forgotten: the
\* receiver holds one upload of it at most, and until the job is closed that
\* is the upload session() would resume.
JobSole(b, s, up, j) ==
  /\ \A i, k \in Holds(up, j) : i = k
  /\ b.state \notin Closed =>
       /\ Holds(up, j) \subseteq {Known(b, s)}
       /\ b.id # 0 => s = b.id

\* And its loop: while it looks, the held upload is the one it looks for;
\* while it opens one there is none; afterwards it is the job's.
RunSole(q, b, s, up) ==
  LET mine == Holds(up, q.job)
  IN  /\ q.pc = "open" => mine = {}
      /\ q.pc = "look" =>
           /\ q.id # 0 /\ mine \subseteq {q.id}
           /\ b.state \notin Closed => s = q.id
           /\ q.reply.code = "gone" => up[q.id].status = "dropped"
      /\ q.pc \notin {"open", "look"} => mine \subseteq {b.id}
      /\ q.pc \in {"put", "ask", "complete", "confirm", "drop"} => q.id = b.id
      /\ q.pc # "open" /\ q.reply.code = "ok" => q.reply.id = q.id

Owned(jb, st, rn, up) ==
  /\ \A j \in Jobs : JobOwn(jb[j], st[j], up, j)
  /\ \A r \in Runs : RunOwn(rn[r], up)
  /\ \A r \in Runs : rn[r].pc # "idle" => Drops(rn[r], jb[rn[r].job])
  /\ \A i \in Ids : up[i].status = "free" <=> up[i].file = 0
  /\ \A i \in Ids : up[i].busy => up[i].status = "open"

Sole(jb, st, rn, up, ov) ==
  /\ \A j \in Jobs \ ov : JobSole(jb[j], st[j], up, j)
  /\ \A r \in Runs : rn[r].job \in Jobs \ ov =>
                       RunSole(rn[r], jb[rn[r].job], st[rn[r].job], up)
  /\ \A r, t \in Runs : rn[r].job \in Jobs \ ov /\ rn[t].job = rn[r].job => r = t

\* NoJobStranded, of values that are not yet those of the variables.
Worked(jb, rn) ==
  \A j \in Jobs : jb[j].state = "uploading" => \E r \in Runs : rn[r].job = j
Taken(jb, rn) ==
  \A j \in Jobs : jb[j].state = "queued" => \A r \in Runs : rn[r].pc # "idle"

Good(jb, st, rn, up, ov) ==
  Shapes(jb, st, rn, up, ov) /\ Owned(jb, st, rn, up) /\ Sole(jb, st, rn, up, ov) /\ Worked(jb, rn)

\* A loop whose request a handler holds: the upload is busy, and unfinished
\* exactly when it is a chunk that is held.
Waited(rn, up) ==
  \A r \in Runs : rn[r].reply = Pending =>
    /\ rn[r].id \in Ids /\ up[rn[r].id].busy
    /\ \/ rn[r].pc = "put" /\ up[rn[r].id].offset < Size
       \/ rn[r].pc = "complete" /\ up[rn[r].id].offset = Size

IInv ==
  Good(job, stored, run, uploads, Out) /\ Taken(job, run) /\ Waited(run, uploads)

-----------------------------------------------------------------------------
(* Lemmas                                                                  *)

\* Min is the least element of a set of numbers that has one.
LEMMA MinIsIn ==
  ASSUME NEW M \in SUBSET Nat, M # {}
  PROVE  Min(M) \in M
<1>. DEFINE R == {p \in Nat \X Nat : p[1] < p[2]}
<1>1. R = OpToRel(<, Nat)
  BY DEF OpToRel
<1>2. PICK m \in M : \A j \in M : ~(<<j, m>> \in R)
  <2>. HIDE DEF R
  <2>. QED BY <1>1, NatLessThanWellFounded, WFMin
<1>3. ASSUME NEW j \in M PROVE m <= j
  <2>1. <<j, m>> \in Nat \X Nat /\ <<j, m>>[1] = j /\ <<j, m>>[2] = m
    OBVIOUS
  <2>2. ~(j < m)
    BY <1>2, <2>1
  <2>. QED BY <2>2
<1>. QED BY <1>3 DEF Min

\* The records the model starts from have their types.
LEMMA RecordTypes ==
  /\ NoReply \in Replies /\ Lost \in Replies /\ Lost.id = 0 /\ Lost.code = "lost"
  /\ Pending \in Replies /\ Pending.id = 0 /\ Pending.code = "pending"
  /\ NoReply # Pending /\ Lost # Pending
  /\ Idle \in RunRecs /\ Absent \in JobRecs
BY DEF NoReply, Lost, Pending, Replies, Codes, Idle, RunRecs, Awaits, Requests, Absent, JobRecs, States

\* Zero names no job, slot or upload.
LEMMA NoZero == 0 \notin Jobs /\ 0 \notin Runs /\ 0 \notin Ids
BY PageAssumption

\* The upload session() resumes is one of the job's, or none.
LEMMA KnownOwn ==
  ASSUME NEW b \in JobRecs, NEW s \in Ids \cup {0}, NEW up, NEW j, JobOwn(b, s, up, j)
  PROVE  Known(b, s) \in Ids \cup {0} /\ (Known(b, s) # 0 => up[Known(b, s)].file = j)
BY DEF Known, JobOwn, JobRecs

\* pump() starts at most one job, and leaves the queue empty or every slot
\* taken, when at most one slot was free or at most one job queued.
LEMMA PumpKeeps ==
  ASSUME NEW jb, NEW st, NEW rn, Good(jb, st, rn, uploads, Out), Waited(rn, uploads),
         UNCHANGED uploads,
         \/ Taken(jb, rn)
         \/ \E k \in Jobs : \A j \in Jobs : jb[j].state = "queued" => j = k
         \/ \E t \in Runs : \A r \in Runs : rn[r].pc = "idle" => r = t,
         Pump(jb, st, rn)
  PROVE  Good(job', st, run', uploads, Out') /\ Taken(job', run') /\ Waited(run', uploads)
<1>. DEFINE queued == {j \in Jobs : jb[j].state = "queued"}
            free   == {r \in Runs : rn[r].pc = "idle"}
<1>1. CASE queued = {} \/ free = {}
  <2>1. job' = jb /\ run' = rn /\ Out' = Out
    BY <1>1 DEF Pump, Out
  <2>. QED BY <1>1, <2>1 DEF Taken
<1>2. CASE queued # {} /\ free # {}
  <2>1. queued \in SUBSET Nat /\ free \in SUBSET Nat
    BY PageAssumption
  <2>2. PICK j \in Jobs : j = Min(queued) /\ jb[j].state = "queued"
    BY <1>2, <2>1, MinIsIn
  <2>3. PICK r \in Runs : r = Min(free) /\ rn[r].pc = "idle"
    BY <1>2, <2>1, MinIsIn
  <2>4. PICK k : k = Known(jb[j], st[j])
    OBVIOUS
  <2>5. PICK new : new = [Idle EXCEPT !.pc = IF k = 0 THEN "open" ELSE "look", !.job = j, !.id = k]
    OBVIOUS
  <2>6. /\ job' = [jb EXCEPT ![j].state = "uploading"]
        /\ run' = [rn EXCEPT ![r] = new]
        /\ Out' = Out \cup {i \in {j} : \E t \in Runs : rn[t].job = i}
    <3>1. /\ job' = [jb EXCEPT ![j].state = "uploading"]
          /\ run' = [rn EXCEPT ![r] = new]
          /\ overlapped' = overlapped \cup {i \in {j} : \E t \in Runs : rn[t].job = i}
      <4>. HIDE DEF queued, free
      <4>. QED BY <1>2, <2>2, <2>3, <2>4, <2>5 DEF Pump, queued, free
    <3>2. Forgot(uploads') = Forgot(uploads)
      OBVIOUS
    <3>. QED BY <3>1, <3>2 DEF Out
  <2>7. Shapes(jb, st, rn, uploads, Out) /\ Owned(jb, st, rn, uploads)
        /\ Sole(jb, st, rn, uploads, Out) /\ Worked(jb, rn)
    BY DEF Good
  <2>8. jb[j] \in JobRecs /\ st[j] \in Ids \cup {0} /\ JobOwn(jb[j], st[j], uploads, j)
    BY <2>7 DEF Shapes, Owned
  <2>9. k \in Ids \cup {0} /\ (k # 0 => uploads[k].file = j)
    BY <2>4, <2>8, KnownOwn
  <2>10. /\ new.pc = (IF k = 0 THEN "open" ELSE "look") /\ new.job = j /\ new.id = k
         /\ new.reply = NoReply /\ new \in RunRecs
    BY <2>5, <2>9, RecordTypes DEF Idle, RunRecs, Awaits, Requests
  <2>11. /\ job'[j] \in JobRecs /\ job'[j].id = jb[j].id /\ job'[j].state = "uploading"
         /\ \A i \in Jobs \ {j} : job'[i] = jb[i]
    BY <2>6, <2>7, <2>8 DEF Shapes, JobRecs, States
  <2>12. run'[r] = new /\ \A t \in Runs \ {r} : run'[t] = rn[t]
    BY <2>6, <2>7 DEF Shapes
  <2>13. Shapes(job', st, run', uploads, Out')
    BY <2>6, <2>7, <2>10, <2>11 DEF Shapes
  <2>14. rn[r] = Idle /\ rn[r].job = 0
    BY <2>3, <2>7 DEF Owned, RunOwn, Idle
  <2>15. Owned(job', st, run', uploads)
    <3>1. ASSUME NEW i \in Jobs PROVE JobOwn(job'[i], st[i], uploads, i)
      BY <2>7, <2>8, <2>11 DEF Owned, JobOwn
    <3>2. RunOwn(new, uploads)
      BY <2>9, <2>10 DEF RunOwn, NoReply
    <3>3. ASSUME NEW t \in Runs PROVE RunOwn(run'[t], uploads)
      BY <3>2, <2>7, <2>12 DEF Owned
    <3>4. ASSUME NEW t \in Runs, run'[t].pc # "idle" PROVE Drops(run'[t], job'[run'[t].job])
      <4>1. CASE t = r
        BY <4>1, <2>10, <2>12 DEF Drops
      <4>2. CASE t # r
        <5>1. Drops(rn[t], jb[rn[t].job]) /\ rn[t].job \in Jobs /\ run'[t] = rn[t]
          BY <4>2, <3>4, <2>7, <2>12 DEF Owned, RunOwn
        <5>. QED BY <5>1, <2>2, <2>11 DEF Drops
      <4>. QED BY <4>1, <4>2
    <3>. QED BY <3>1, <3>3, <3>4, <2>7 DEF Owned
  <2>16. Sole(job', st, run', uploads, Out')
    <3>1. ASSUME NEW i \in Jobs \ Out' PROVE JobSole(job'[i], st[i], uploads, i)
      <4>1. i \notin Out /\ JobSole(jb[i], st[i], uploads, i)
        BY <2>6, <2>7 DEF Sole
      <4>2. CASE i # j
        BY <4>1, <4>2, <2>11
      <4>3. CASE i = j
        BY <4>1, <4>3, <2>2, <2>11 DEF JobSole, Closed, Known
      <4>. QED BY <4>2, <4>3
    <3>2. ASSUME j \notin Out' PROVE RunSole(new, job'[j], st[j], uploads)
      <4>1. JobSole(jb[j], st[j], uploads, j)
        BY <3>2, <2>6, <2>7 DEF Sole
      <4>2. Holds(uploads, j) \subseteq {k} /\ (jb[j].id # 0 => st[j] = jb[j].id)
        BY <4>1, <2>2, <2>4 DEF JobSole, Closed
      <4>3. k = 0 => Holds(uploads, j) = {}
        BY <4>2, NoZero DEF Holds
      <4>4. k # 0 => st[j] = k
        BY <4>2, <2>4 DEF Known
      <4>. QED BY <4>2, <4>3, <4>4, <2>10 DEF RunSole, NoReply
    <3>3. ASSUME NEW t \in Runs, run'[t].job \in Jobs \ Out'
          PROVE  RunSole(run'[t], job'[run'[t].job], st[run'[t].job], uploads)
      <4>1. CASE t = r
        BY <4>1, <3>2, <3>3, <2>10, <2>12
      <4>2. CASE t # r
        <5>1. run'[t] = rn[t]
          BY <4>2, <2>12
        <5>2. rn[t].job # j /\ rn[t].job \in Jobs \ Out
          BY <5>1, <3>3, <2>6
        <5>3. RunSole(rn[t], jb[rn[t].job], st[rn[t].job], uploads)
          BY <5>2, <2>7 DEF Sole
        <5>. QED BY <5>1, <5>2, <5>3, <2>11
      <4>. QED BY <4>1, <4>2
    <3>4. ASSUME NEW s \in Runs, NEW t \in Runs, run'[s].job \in Jobs \ Out',
                 run'[t].job = run'[s].job
          PROVE  s = t
      <4>1. j \notin Out' => \A u \in Runs : rn[u].job # j
        BY <2>6
      <4>2. CASE s # r /\ t # r
        BY <4>2, <3>4, <2>6, <2>7, <2>12 DEF Sole
      <4>3. CASE s = r \/ t = r
        BY <4>1, <4>3, <3>4, <2>10, <2>12
      <4>. QED BY <4>2, <4>3
    <3>. QED BY <3>1, <3>3, <3>4 DEF Sole
  <2>17. Worked(job', run')
    <3>1. ASSUME NEW i \in Jobs, job'[i].state = "uploading"
          PROVE  \E t \in Runs : run'[t].job = i
      <4>1. CASE i = j
        BY <4>1, <2>10, <2>12
      <4>2. CASE i # j
        <5>1. PICK t \in Runs : rn[t].job = i
          BY <4>2, <3>1, <2>7, <2>11 DEF Worked
        <5>2. t # r
          BY <5>1, <2>14, NoZero
        <5>. QED BY <5>1, <5>2, <2>12
      <4>. QED BY <4>1, <4>2
    <3>. QED BY <3>1 DEF Worked
  <2>18. Taken(job', run')
    <3>1. ASSUME NEW i \in Jobs, job'[i].state = "queued", NEW t \in Runs
          PROVE  run'[t].pc # "idle"
      <4>1. i # j /\ jb[i].state = "queued"
        BY <3>1, <2>11
      <4>2. ~Taken(jb, rn)
        BY <2>2, <2>3 DEF Taken
      <4>3. PICK u \in Runs : \A v \in Runs : rn[v].pc = "idle" => v = u
        BY <4>1, <4>2, <2>2
      <4>4. u = r
        BY <4>3, <2>3
      <4>. QED BY <4>3, <4>4, <2>10, <2>12
    <3>. QED BY <3>1 DEF Taken
  <2>19. Waited(run', uploads)
    BY <2>10, <2>12, RecordTypes DEF Waited
  <2>. QED BY <2>13, <2>15, <2>16, <2>17, <2>18, <2>19 DEF Good
<1>. QED BY <1>1, <1>2

-----------------------------------------------------------------------------
(* A loop changes its own job and its own slot                             *)

\* jb and st differ from the variables in the job of slot r only, and leave
\* that job as a loop may leave it.
Local(r, jb, st) ==
  LET j == run[r].job
  IN  /\ r \in Runs /\ run[r].pc # "idle"
      /\ jb \in [Jobs -> JobRecs] /\ st \in [Jobs -> Ids \cup {0}]
      /\ \A i \in Jobs \ {j} : jb[i] = job[i] /\ st[i] = stored[i]
      /\ \/ jb[j].state = job[j].state
         \/ jb[j].state = "done"
         \/ job[j].state = "uploading" /\ jb[j].state = "error"
      /\ JobOwn(jb[j], st[j], uploads, j)
      /\ j \notin Out => JobSole(jb[j], st[j], uploads, j)

\* What the other slots know stays true.
LEMMA OthersKeep ==
  ASSUME IInv, NEW r, NEW jb, NEW st, Local(r, jb, st),
         NEW t \in Runs \ {r}
  PROVE  /\ run[t].pc # "idle" => Drops(run[t], jb[run[t].job])
         /\ run[t].job \in Jobs \ Out =>
              /\ RunSole(run[t], jb[run[t].job], st[run[t].job], uploads)
              /\ run[t].job # run[r].job
<1>1. Owned(job, stored, run, uploads) /\ Sole(job, stored, run, uploads, Out)
  BY DEF IInv, Good
<1>2. ASSUME run[t].pc # "idle" PROVE Drops(run[t], jb[run[t].job])
  <2>1. Drops(run[t], job[run[t].job]) /\ run[t].job \in Jobs
    BY <1>1, <1>2 DEF Owned, RunOwn
  <2>2. CASE run[t].job = run[r].job
    BY <2>1, <2>2 DEF Drops, Local
  <2>3. CASE run[t].job # run[r].job
    BY <2>1, <2>3 DEF Local
  <2>. QED BY <2>2, <2>3
<1>3. ASSUME run[t].job \in Jobs \ Out
      PROVE  /\ RunSole(run[t], jb[run[t].job], st[run[t].job], uploads)
             /\ run[t].job # run[r].job
  <2>1. RunSole(run[t], job[run[t].job], stored[run[t].job], uploads)
    BY <1>1, <1>3 DEF Sole
  <2>2. run[t].job # run[r].job
    BY <1>1, <1>3 DEF Sole, Local
  <2>. QED BY <2>1, <2>2, <1>3 DEF Local
<1>. QED BY <1>2, <1>3

\* The slot goes on to its next await, with a job as it may leave it.
LEMMA AwaitKeeps ==
  ASSUME IInv, NEW r, NEW jb, NEW st, NEW next \in RunRecs, Local(r, jb, st),
         next.job = run[r].job, next.pc # "idle", next.reply = NoReply,
         RunOwn(next, uploads), Drops(next, jb[run[r].job]),
         run[r].job \notin Out =>
           RunSole(next, jb[run[r].job], st[run[r].job], uploads),
         Await(jb, st, r, next), UNCHANGED uploads
  PROVE  IInv'
<1>1. /\ Shapes(job, stored, run, uploads, Out) /\ Owned(job, stored, run, uploads)
      /\ Sole(job, stored, run, uploads, Out) /\ Worked(job, run) /\ Taken(job, run)
      /\ Waited(run, uploads)
  BY DEF IInv, Good
<1>2. PICK j : j = run[r].job
  OBVIOUS
<1>3. j \in Jobs /\ r \in Runs /\ run[r].pc # "idle"
  BY <1>1, <1>2 DEF Local, Owned, RunOwn
<1>4. job' = jb /\ stored' = st /\ run' = [run EXCEPT ![r] = next] /\ Out' = Out
  BY DEF Await, Out
<1>5. run'[r] = next /\ \A t \in Runs \ {r} : run'[t] = run[t]
  BY <1>1, <1>3, <1>4 DEF Shapes
<1>6. Shapes(job', stored', run', uploads', Out')
  BY <1>1, <1>3, <1>4 DEF Shapes, Local
<1>7. \A t \in Runs \ {r} :
        /\ run[t].pc # "idle" => Drops(run[t], jb[run[t].job])
        /\ run[t].job \in Jobs \ Out =>
             RunSole(run[t], jb[run[t].job], st[run[t].job], uploads) /\ run[t].job # j
  BY <1>2, OthersKeep
<1>8. Owned(job', stored', run', uploads')
  <2>1. ASSUME NEW i \in Jobs PROVE JobOwn(jb[i], st[i], uploads, i)
    BY <1>1, <1>2 DEF Owned, Local
  <2>2. ASSUME NEW t \in Runs PROVE RunOwn(run'[t], uploads)
    BY <1>1, <1>5 DEF Owned
  <2>3. ASSUME NEW t \in Runs, run'[t].pc # "idle" PROVE Drops(run'[t], jb[run'[t].job])
    BY <2>3, <1>5, <1>7
  <2>. QED BY <2>1, <2>2, <2>3, <1>1, <1>4 DEF Owned
<1>9. Sole(job', stored', run', uploads', Out')
  <2>1. ASSUME NEW i \in Jobs \ Out PROVE JobSole(jb[i], st[i], uploads, i)
    BY <1>1, <1>2 DEF Sole, Local
  <2>2. ASSUME NEW t \in Runs, run'[t].job \in Jobs \ Out
        PROVE  RunSole(run'[t], jb[run'[t].job], st[run'[t].job], uploads)
    BY <2>2, <1>2, <1>5, <1>7
  <2>3. ASSUME NEW s \in Runs, NEW t \in Runs, run'[s].job \in Jobs \ Out,
               run'[t].job = run'[s].job
        PROVE  s = t
    BY <2>3, <1>1, <1>2, <1>5 DEF Sole
  <2>. QED BY <2>1, <2>2, <2>3, <1>4 DEF Sole
<1>10. Worked(job', run')
  <2>1. ASSUME NEW i \in Jobs, jb[i].state = "uploading" PROVE \E t \in Runs : run'[t].job = i
    <3>1. CASE i = j
      BY <3>1, <1>2, <1>3, <1>5
    <3>2. CASE i # j
      <4>1. PICK t \in Runs : run[t].job = i
        BY <3>2, <2>1, <1>1, <1>2 DEF Worked, Local
      <4>. QED BY <4>1, <3>2, <1>2, <1>5
    <3>. QED BY <3>1, <3>2
  <2>. QED BY <2>1, <1>4 DEF Worked
<1>11. Taken(job', run')
  <2>1. ASSUME NEW i \in Jobs, jb[i].state = "queued", NEW t \in Runs PROVE run'[t].pc # "idle"
    <3>1. job[i].state = "queued"
      BY <2>1, <1>2 DEF Local
    <3>. QED BY <3>1, <1>1, <1>5 DEF Taken
  <2>. QED BY <2>1, <1>4 DEF Taken
<1>12. Waited(run', uploads')
  BY <1>1, <1>5, RecordTypes DEF Waited
<1>. QED BY <1>6, <1>8, <1>9, <1>10, <1>11, <1>12 DEF IInv, Good

\* The loop ends with a job that is not uploading, and pump() goes on.
LEMMA ReturnKeeps ==
  ASSUME IInv, NEW r, NEW jb, NEW st, Local(r, jb, st),
         jb[run[r].job].state # "uploading",
         Return(jb, st, r), UNCHANGED uploads
  PROVE  IInv'
<1>1. /\ Shapes(job, stored, run, uploads, Out) /\ Owned(job, stored, run, uploads)
      /\ Sole(job, stored, run, uploads, Out) /\ Worked(job, run) /\ Taken(job, run)
      /\ Waited(run, uploads)
  BY DEF IInv, Good
<1>2. PICK j : j = run[r].job
  OBVIOUS
<1>3. j \in Jobs /\ r \in Runs /\ run[r].pc # "idle"
  BY <1>1, <1>2 DEF Local, Owned, RunOwn
<1>4. PICK rn : rn = [run EXCEPT ![r] = Idle]
  OBVIOUS
<1>5. rn[r] = Idle /\ \A t \in Runs \ {r} : rn[t] = run[t]
  BY <1>1, <1>3, <1>4 DEF Shapes
<1>6. Idle.job = 0 /\ Idle.pc = "idle" /\ 0 \notin Jobs
  BY NoZero DEF Idle
<1>7. Shapes(jb, st, rn, uploads, Out)
  BY <1>1, <1>3, <1>4, RecordTypes DEF Shapes, Local
<1>8. \A t \in Runs \ {r} :
        /\ run[t].pc # "idle" => Drops(run[t], jb[run[t].job])
        /\ run[t].job \in Jobs \ Out =>
             RunSole(run[t], jb[run[t].job], st[run[t].job], uploads)
  BY OthersKeep
<1>9. Owned(jb, st, rn, uploads)
  <2>1. ASSUME NEW i \in Jobs PROVE JobOwn(jb[i], st[i], uploads, i)
    BY <1>1, <1>2 DEF Owned, Local
  <2>2. RunOwn(Idle, uploads)
    BY DEF RunOwn, Idle, NoReply
  <2>3. ASSUME NEW t \in Runs PROVE RunOwn(rn[t], uploads)
    BY <2>2, <1>1, <1>5 DEF Owned
  <2>4. ASSUME NEW t \in Runs, rn[t].pc # "idle" PROVE Drops(rn[t], jb[rn[t].job])
    BY <2>4, <1>5, <1>6, <1>8
  <2>. QED BY <2>1, <2>3, <2>4, <1>1 DEF Owned
<1>10. Sole(jb, st, rn, uploads, Out)
  <2>1. ASSUME NEW i \in Jobs \ Out PROVE JobSole(jb[i], st[i], uploads, i)
    BY <1>1, <1>2 DEF Sole, Local
  <2>2. ASSUME NEW t \in Runs, rn[t].job \in Jobs \ Out
        PROVE  RunSole(rn[t], jb[rn[t].job], st[rn[t].job], uploads)
    BY <2>2, <1>5, <1>6, <1>8
  <2>3. ASSUME NEW s \in Runs, NEW t \in Runs, rn[s].job \in Jobs \ Out,
               rn[t].job = rn[s].job
        PROVE  s = t
    BY <2>3, <1>1, <1>5, <1>6 DEF Sole
  <2>. QED BY <2>1, <2>2, <2>3 DEF Sole
<1>11. Worked(jb, rn)
  <2>1. ASSUME NEW i \in Jobs, jb[i].state = "uploading" PROVE \E t \in Runs : rn[t].job = i
    <3>1. i # j /\ job[i].state = "uploading"
      BY <2>1, <1>2 DEF Local
    <3>2. PICK t \in Runs : run[t].job = i
      BY <3>1, <1>1 DEF Worked
    <3>. QED BY <3>1, <3>2, <1>2, <1>5
  <2>. QED BY <2>1 DEF Worked
<1>12. \/ Taken(jb, rn)
       \/ \E k \in Jobs : \A i \in Jobs : jb[i].state = "queued" => i = k
       \/ \E t \in Runs : \A s \in Runs : rn[s].pc = "idle" => s = t
  <2>1. CASE \E i \in Jobs : jb[i].state = "queued"
    <3>1. PICK i \in Jobs : jb[i].state = "queued"
      BY <2>1
    <3>2. job[i].state = "queued"
      BY <3>1, <1>2 DEF Local
    <3>3. \A s \in Runs : rn[s].pc = "idle" => s = r
      BY <3>2, <1>1, <1>5 DEF Taken
    <3>. QED BY <3>3, <1>3
  <2>2. CASE ~ \E i \in Jobs : jb[i].state = "queued"
    BY <2>2 DEF Taken
  <2>. QED BY <2>1, <2>2
<1>13. stored' = st /\ Pump(jb, st, rn)
  BY <1>4 DEF Return
<1>14. Good(jb, st, rn, uploads, Out)
  BY <1>7, <1>9, <1>10, <1>11 DEF Good
<1>15. Waited(rn, uploads)
  BY <1>1, <1>5, RecordTypes DEF Waited, Idle
<1>16. Good(job', st, run', uploads, Out') /\ Taken(job', run') /\ Waited(run', uploads)
  BY <1>12, <1>13, <1>14, <1>15, PumpKeeps
<1>. QED BY <1>13, <1>16 DEF IInv

\* The await a slot goes on to.
LEMMA AskIs ==
  ASSUME IInv, NEW r \in Runs, run[r].pc # "idle",
         NEW pc \in Awaits \ {"idle"}, NEW id \in Ids \cup {0}
  PROVE  /\ Ask(r, pc, id) \in RunRecs
         /\ Ask(r, pc, id).pc = pc /\ Ask(r, pc, id).job = run[r].job
         /\ Ask(r, pc, id).id = id /\ Ask(r, pc, id).reply = NoReply
         /\ run[r] \in RunRecs /\ run[r].job \in Jobs /\ job[run[r].job] \in JobRecs
<1>1. run[r] \in RunRecs /\ run[r].job \in Jobs /\ job \in [Jobs -> JobRecs]
  BY DEF IInv, Good, Shapes, Owned, RunOwn
<1>. QED BY <1>1, RecordTypes DEF Ask, RunRecs

\* An await without an answer claims nothing of it.
LEMMA UnansweredOwn ==
  ASSUME NEW q, q.reply = NoReply, q.pc # "idle", q.job \in Jobs,
         q.id # 0 => uploads[q.id].file = q.job
  PROVE  RunOwn(q, uploads)
BY DEF RunOwn, NoReply

\* A loop that changes neither its job's upload nor what is stored of it.
LEMMA SameUploadLocal ==
  ASSUME IInv, NEW r \in Runs, run[r].pc # "idle", NEW jb \in [Jobs -> JobRecs],
         \A i \in Jobs \ {run[r].job} : jb[i] = job[i],
         jb[run[r].job].id = job[run[r].job].id,
         \/ jb[run[r].job].state = job[run[r].job].state
         \/ job[run[r].job].state = "uploading" /\ jb[run[r].job].state = "error"
  PROVE  Local(r, jb, stored)
<1>1. PICK j : j = run[r].job
  OBVIOUS
<1>2. j \in Jobs /\ stored \in [Jobs -> Ids \cup {0}] /\ JobOwn(job[j], stored[j], uploads, j)
  BY <1>1 DEF IInv, Good, Shapes, Owned, RunOwn
<1>3. j \notin Out => JobSole(job[j], stored[j], uploads, j)
  BY <1>2 DEF IInv, Good, Sole
<1>4. JobOwn(jb[j], stored[j], uploads, j)
  BY <1>1, <1>2 DEF JobOwn
<1>5. j \notin Out => JobSole(jb[j], stored[j], uploads, j)
  BY <1>1, <1>3 DEF JobSole, Closed, Known
<1>. QED BY <1>1, <1>2, <1>4, <1>5 DEF Local

\* What a slot that is not idle knows.
LEMMA SlotKnows ==
  ASSUME IInv, NEW r \in Runs, run[r].pc # "idle"
  PROVE  /\ run[r].job \in Jobs /\ run[r] \in RunRecs /\ RunOwn(run[r], uploads)
         /\ job[run[r].job] \in JobRecs /\ stored[run[r].job] \in Ids \cup {0}
         /\ JobOwn(job[run[r].job], stored[run[r].job], uploads, run[r].job)
         /\ Drops(run[r], job[run[r].job])
         /\ run[r].job \notin Out =>
              /\ JobSole(job[run[r].job], stored[run[r].job], uploads, run[r].job)
              /\ RunSole(run[r], job[run[r].job], stored[run[r].job], uploads)
BY DEF IInv, Good, Shapes, Owned, Sole, RunOwn

\* The receiver holds no upload of slot r's job but the one the job is at.
Held(r, jb) ==
  run[r].job \notin Out => Holds(uploads, run[r].job) \subseteq {jb[run[r].job].id}

\* The head of the chunk loop.
LEMMA LoopKeeps ==
  ASSUME IInv, NEW r \in Runs, NEW jb, NEW st, Local(r, jb, st), Held(r, jb),
         Loop(jb, st, r), UNCHANGED uploads
  PROVE  IInv'
<1>1. PICK j : j = run[r].job
  OBVIOUS
<1>2. run[r].pc # "idle"
  BY DEF Local
<1>3. j \in Jobs /\ run[r] \in RunRecs
  BY <1>1, <1>2, SlotKnows
<1>4. jb[j] \in JobRecs /\ JobOwn(jb[j], st[j], uploads, j)
  BY <1>1, <1>3 DEF Local
<1>5. CASE jb[j].state # "uploading" /\ Return(jb, st, r)
  BY <1>1, <1>5, ReturnKeeps
<1>6. CASE /\ jb[j].state = "uploading" /\ jb[j].offset < Size
           /\ Await(jb, st, r, [Ask(r, "hash", 0) EXCEPT !.off = jb[j].offset, !.try = 0])
  <2>1. PICK q : q = Ask(r, "hash", 0)
    OBVIOUS
  <2>2. q \in RunRecs /\ q.pc = "hash" /\ q.job = j /\ q.id = 0 /\ q.reply = NoReply
    BY <2>1, <1>1, <1>2, AskIs DEF Awaits
  <2>3. PICK next : next = [q EXCEPT !.off = jb[j].offset, !.try = 0]
    OBVIOUS
  <2>4. /\ next \in RunRecs /\ next.pc = "hash" /\ next.job = j /\ next.id = 0
        /\ next.reply = NoReply
    BY <2>2, <2>3, <1>4 DEF RunRecs, JobRecs
  <2>5. Await(jb, st, r, next)
    BY <1>6, <2>1, <2>3
  <2>6. RunOwn(next, uploads)
    BY <2>4, <1>3, UnansweredOwn
  <2>7. Drops(next, jb[j])
    BY <2>4 DEF Drops
  <2>8. j \notin Out => RunSole(next, jb[j], st[j], uploads)
    BY <2>4, <1>1 DEF RunSole, Held, NoReply
  <2>. QED BY <2>4, <2>5, <2>6, <2>7, <2>8, <1>1, AwaitKeeps
<1>7. CASE /\ jb[j].state = "uploading" /\ jb[j].offset >= Size
           /\ Await(jb, st, r, Ask(r, "complete", jb[j].id))
  <2>1. PICK next : next = Ask(r, "complete", jb[j].id)
    OBVIOUS
  <2>2. jb[j].id \in Ids \cup {0}
    BY <1>4 DEF JobRecs
  <2>3. /\ next \in RunRecs /\ next.pc = "complete" /\ next.job = j /\ next.id = jb[j].id
        /\ next.reply = NoReply
    BY <2>1, <2>2, <1>1, <1>2, AskIs DEF Awaits, Requests
  <2>4. RunOwn(next, uploads)
    BY <2>3, <1>3, <1>4, UnansweredOwn DEF JobOwn
  <2>5. Drops(next, jb[j])
    BY <2>3 DEF Drops
  <2>6. j \notin Out => RunSole(next, jb[j], st[j], uploads)
    BY <2>3, <1>1 DEF RunSole, Held, NoReply
  <2>. QED BY <1>7, <2>1, <2>3, <2>4, <2>5, <2>6, <1>1, AwaitKeeps
<1>. QED BY <1>1, <1>5, <1>6, <1>7 DEF Loop

\* After session(): the cancelled job's upload is dropped, or the loop begins.
LEMMA AfterSessionKeeps ==
  ASSUME IInv, NEW r \in Runs, NEW jb, NEW st, Local(r, jb, st), Held(r, jb),
         AfterSession(jb, st, r), UNCHANGED uploads
  PROVE  IInv'
<1>1. PICK j : j = run[r].job
  OBVIOUS
<1>2. run[r].pc # "idle"
  BY DEF Local
<1>3. j \in Jobs
  BY <1>1, <1>2, SlotKnows
<1>4. jb[j] \in JobRecs /\ JobOwn(jb[j], st[j], uploads, j)
  BY <1>1, <1>3 DEF Local
<1>5. CASE jb[j].state # "cancelled" /\ Loop(jb, st, r)
  BY <1>5, LoopKeeps
<1>6. CASE jb[j].state = "cancelled" /\ Await(jb, st, r, Ask(r, "drop", jb[j].id))
  <2>1. PICK next : next = Ask(r, "drop", jb[j].id)
    OBVIOUS
  <2>2. jb[j].id \in Ids \cup {0}
    BY <1>4 DEF JobRecs
  <2>3. /\ next \in RunRecs /\ next.pc = "drop" /\ next.job = j /\ next.id = jb[j].id
        /\ next.reply = NoReply
    BY <2>1, <2>2, <1>1, <1>2, AskIs DEF Awaits, Requests
  <2>4. RunOwn(next, uploads)
    BY <2>3, <1>3, <1>4, UnansweredOwn DEF JobOwn
  <2>5. Drops(next, jb[j])
    BY <1>6 DEF Drops
  <2>6. j \notin Out => RunSole(next, jb[j], st[j], uploads)
    BY <2>3, <1>1 DEF RunSole, Held, NoReply
  <2>. QED BY <1>6, <2>1, <2>3, <2>4, <2>5, <2>6, <1>1, AwaitKeeps
<1>. QED BY <1>1, <1>5, <1>6 DEF AfterSession

\* The outer catch.
LEMMA FailKeeps ==
  ASSUME IInv, NEW r \in Runs, run[r].pc # "idle", Fail(r), UNCHANGED uploads
  PROVE  IInv'
<1>1. PICK j : j = run[r].job
  OBVIOUS
<1>2. j \in Jobs /\ job[j] \in JobRecs /\ job \in [Jobs -> JobRecs]
  BY <1>1, SlotKnows DEF IInv, Good, Shapes
<1>3. PICK jb : jb = [job EXCEPT ![j].state = IF @ = "uploading" THEN "error" ELSE @]
  OBVIOUS
<1>4. /\ jb \in [Jobs -> JobRecs] /\ jb[j].id = job[j].id
      /\ jb[j].state = (IF job[j].state = "uploading" THEN "error" ELSE job[j].state)
      /\ \A i \in Jobs \ {j} : jb[i] = job[i]
  BY <1>2, <1>3 DEF JobRecs, States
<1>5. Local(r, jb, stored)
  BY <1>1, <1>4, SameUploadLocal
<1>6. Return(jb, stored, r)
  BY <1>1, <1>3 DEF Fail
<1>. QED BY <1>1, <1>4, <1>5, <1>6, ReturnKeeps

\* A job is done when the receiver said that its upload is saved.
LEMMA DoneKeeps ==
  ASSUME IInv, NEW r \in Runs, run[r].pc # "idle",
         run[r].reply.code = "ok", run[r].reply.saved, Done(r), UNCHANGED uploads
  PROVE  IInv'
<1>1. PICK j : j = run[r].job
  OBVIOUS
<1>2. /\ j \in Jobs /\ job[j] \in JobRecs /\ job \in [Jobs -> JobRecs]
      /\ stored \in [Jobs -> Ids \cup {0}]
  BY <1>1, SlotKnows DEF IInv, Good, Shapes
<1>3. PICK jb : jb = [job EXCEPT ![j].offset = Size, ![j].state = "done"]
  OBVIOUS
<1>4. PICK st : st = [stored EXCEPT ![j] = 0]
  OBVIOUS
<1>5. /\ jb \in [Jobs -> JobRecs] /\ jb[j].id = job[j].id /\ jb[j].state = "done"
      /\ \A i \in Jobs \ {j} : jb[i] = job[i]
  BY <1>2, <1>3, PageAssumption DEF JobRecs, States
<1>6. st \in [Jobs -> Ids \cup {0}] /\ st[j] = 0 /\ \A i \in Jobs \ {j} : st[i] = stored[i]
  BY <1>2, <1>4
<1>7. RunOwn(run[r], uploads) /\ JobOwn(job[j], stored[j], uploads, j) /\ run[r] \in RunRecs
  BY <1>1, SlotKnows
<1>8. run[r].reply.id \in Saves(uploads, j)
  <2>1. run[r].reply.id \in Ids \cup {0}
    BY <1>7 DEF RunRecs, Replies
  <2>. QED BY <2>1, <1>1, <1>7 DEF RunOwn, Saves
<1>9. JobOwn(jb[j], st[j], uploads, j)
  BY <1>5, <1>6, <1>7, <1>8 DEF JobOwn
<1>10. j \notin Out => JobSole(job[j], stored[j], uploads, j)
  BY <1>1, SlotKnows
<1>11. j \notin Out => JobSole(jb[j], st[j], uploads, j)
  BY <1>5, <1>10 DEF JobSole, Closed
<1>12. Local(r, jb, st)
  BY <1>1, <1>5, <1>6, <1>9, <1>11 DEF Local
<1>13. Return(jb, st, r)
  BY <1>1, <1>3, <1>4 DEF Done
<1>. QED BY <1>1, <1>5, <1>12, <1>13, ReturnKeeps

-----------------------------------------------------------------------------
(* The handlers of a loop                                                  *)

\* session() has the answer to its GET.
LEMMA LookKeeps ==
  ASSUME IInv, NEW r \in Runs, Look(r), UNCHANGED uploads
  PROVE  IInv'
<1>1. PICK j : j = run[r].job
  OBVIOUS
<1>2. PICK q : q = run[r].reply
  OBVIOUS
<1>3. run[r].pc = "look" /\ run[r].pc # "idle"
  BY DEF Look, Reply
<1>4. /\ j \in Jobs /\ run[r] \in RunRecs /\ q \in Replies /\ job[j] \in JobRecs
      /\ job \in [Jobs -> JobRecs] /\ stored \in [Jobs -> Ids \cup {0}]
  BY <1>1, <1>2, <1>3, SlotKnows DEF IInv, Good, Shapes, RunRecs
<1>5. /\ RunOwn(run[r], uploads) /\ JobOwn(job[j], stored[j], uploads, j)
      /\ j \notin Out => /\ JobSole(job[j], stored[j], uploads, j)
                                /\ RunSole(run[r], job[j], stored[j], uploads)
  BY <1>1, <1>3, SlotKnows
<1>6. j \notin Out =>
        /\ run[r].id # 0 /\ Holds(uploads, j) \subseteq {run[r].id}
        /\ job[j].state \notin Closed => stored[j] = run[r].id
        /\ q.code = "gone" => uploads[run[r].id].status = "dropped"
        /\ q.code = "ok" => q.id = run[r].id
  BY <1>1, <1>2, <1>3, <1>5 DEF RunSole
<1>7. CASE q.code = "lost" /\ Fail(r)
  BY <1>3, <1>7, FailKeeps
<1>8. CASE q.code = "gone" /\ Await([job EXCEPT ![j].id = 0], [stored EXCEPT ![j] = 0], r,
                                    Ask(r, "open", 0))
  <2>1. PICK jb : jb = [job EXCEPT ![j].id = 0]
    OBVIOUS
  <2>2. PICK st : st = [stored EXCEPT ![j] = 0]
    OBVIOUS
  <2>3. PICK next : next = Ask(r, "open", 0)
    OBVIOUS
  <2>4. /\ jb \in [Jobs -> JobRecs] /\ jb[j].id = 0 /\ jb[j].state = job[j].state
        /\ \A i \in Jobs \ {j} : jb[i] = job[i]
    BY <2>1, <1>4 DEF JobRecs
  <2>5. st \in [Jobs -> Ids \cup {0}] /\ st[j] = 0 /\ \A i \in Jobs \ {j} : st[i] = stored[i]
    BY <2>2, <1>4
  <2>6. /\ next \in RunRecs /\ next.pc = "open" /\ next.job = j /\ next.id = 0
        /\ next.reply = NoReply
    BY <2>3, <1>1, <1>3, AskIs DEF Awaits, Requests
  <2>7. j \notin Out => Holds(uploads, j) = {}
    BY <1>6, <1>8 DEF Holds, IInv, Good, Owned
  <2>8. JobOwn(jb[j], st[j], uploads, j)
    BY <2>4, <2>5, <1>5 DEF JobOwn
  <2>9. j \notin Out => JobSole(jb[j], st[j], uploads, j)
    BY <2>4, <2>7 DEF JobSole
  <2>10. Local(r, jb, st)
    BY <2>4, <2>5, <2>8, <2>9, <1>1, <1>3 DEF Local
  <2>11. RunOwn(next, uploads)
    BY <2>6, <1>4, UnansweredOwn
  <2>12. Drops(next, jb[j])
    BY <2>6 DEF Drops
  <2>13. j \notin Out => RunSole(next, jb[j], st[j], uploads)
    BY <2>6, <2>7 DEF RunSole
  <2>. QED BY <2>1, <2>2, <2>3, <2>6, <2>10, <2>11, <2>12, <2>13, <1>1, <1>8, AwaitKeeps
<1>9. CASE /\ q.code = "ok"
           /\ AfterSession([job EXCEPT ![j].id = q.id, ![j].offset = q.offset,
                                       ![j].state = IF q.saved THEN "done" ELSE @],
                           [stored EXCEPT ![j] = IF q.saved THEN 0 ELSE @], r)
  <2>1. PICK jb : jb = [job EXCEPT ![j].id = q.id, ![j].offset = q.offset,
                                   ![j].state = IF q.saved THEN "done" ELSE @]
    OBVIOUS
  <2>2. PICK st : st = [stored EXCEPT ![j] = IF q.saved THEN 0 ELSE @]
    OBVIOUS
  <2>3. q.id \in Ids /\ q.offset \in Nat /\ q.saved \in BOOLEAN /\ uploads[q.id].file = j
        /\ (q.saved => q.id \in Saves(uploads, j))
    BY <1>1, <1>2, <1>4, <1>5, <1>9 DEF Replies, RunOwn, Saves
  <2>4. /\ jb \in [Jobs -> JobRecs] /\ jb[j].id = q.id
        /\ jb[j].state = (IF q.saved THEN "done" ELSE job[j].state)
        /\ \A i \in Jobs \ {j} : jb[i] = job[i]
    BY <2>1, <2>3, <1>4 DEF JobRecs, States
  <2>5. /\ st \in [Jobs -> Ids \cup {0}] /\ st[j] = (IF q.saved THEN 0 ELSE stored[j])
        /\ \A i \in Jobs \ {j} : st[i] = stored[i]
    BY <2>2, <1>4
  <2>6. JobOwn(jb[j], st[j], uploads, j)
    BY <2>3, <2>4, <2>5, <1>5 DEF JobOwn
  <2>7. q.id # 0
    BY <2>3, NoZero
  <2>8. j \notin Out => JobSole(jb[j], st[j], uploads, j)
    <3>1. SUFFICES ASSUME j \notin Out PROVE JobSole(jb[j], st[j], uploads, j)
      OBVIOUS
    <3>2. \A i, k \in Holds(uploads, j) : i = k
      BY <3>1, <1>5 DEF JobSole
    <3>3. ASSUME jb[j].state \notin Closed
          PROVE  Holds(uploads, j) \subseteq {Known(jb[j], st[j])} /\ st[j] = jb[j].id
      <4>1. ~q.saved /\ job[j].state \notin Closed
        BY <3>3, <2>4 DEF Closed
      <4>2. st[j] = q.id /\ Holds(uploads, j) \subseteq {q.id}
        BY <4>1, <3>1, <2>5, <1>6, <1>9
      <4>3. Known(jb[j], st[j]) = q.id
        BY <2>4, <2>7 DEF Known
      <4>. QED BY <4>2, <4>3, <2>4
    <3>. QED BY <3>2, <3>3 DEF JobSole
  <2>9. Local(r, jb, st)
    BY <2>4, <2>5, <2>6, <2>8, <1>1, <1>3 DEF Local
  <2>10. Held(r, jb)
    BY <2>4, <1>1, <1>6, <1>9 DEF Held
  <2>11. AfterSession(jb, st, r)
    BY <2>1, <2>2, <1>9
  <2>. QED BY <2>9, <2>10, <2>11, AfterSessionKeeps
<1>. QED BY <1>1, <1>2, <1>7, <1>8, <1>9 DEF Look

\* session() has the answer to its POST.
LEMMA OpenKeeps ==
  ASSUME IInv, NEW r \in Runs, Open(r), UNCHANGED uploads
  PROVE  IInv'
<1>1. PICK j : j = run[r].job
  OBVIOUS
<1>2. PICK q : q = run[r].reply
  OBVIOUS
<1>3. run[r].pc = "open" /\ run[r].pc # "idle"
  BY DEF Open, Reply
<1>4. /\ j \in Jobs /\ run[r] \in RunRecs /\ q \in Replies /\ job[j] \in JobRecs
      /\ job \in [Jobs -> JobRecs] /\ stored \in [Jobs -> Ids \cup {0}]
  BY <1>1, <1>2, <1>3, SlotKnows DEF IInv, Good, Shapes, RunRecs
<1>5. /\ RunOwn(run[r], uploads) /\ JobOwn(job[j], stored[j], uploads, j)
      /\ j \notin Out => Holds(uploads, j) = {}
  BY <1>1, <1>3, SlotKnows DEF RunSole
<1>6. CASE q.code # "ok" /\ Fail(r)
  BY <1>3, <1>6, FailKeeps
<1>7. CASE /\ q.code = "ok"
           /\ AfterSession([job EXCEPT ![j].id = q.id, ![j].offset = q.offset],
                           [stored EXCEPT ![j] = q.id], r)
  <2>1. PICK jb : jb = [job EXCEPT ![j].id = q.id, ![j].offset = q.offset]
    OBVIOUS
  <2>2. PICK st : st = [stored EXCEPT ![j] = q.id]
    OBVIOUS
  <2>3. q.id \in Ids /\ q.offset \in Nat /\ uploads[q.id].file = j
    BY <1>1, <1>2, <1>4, <1>5, <1>7 DEF Replies, RunOwn
  <2>4. /\ jb \in [Jobs -> JobRecs] /\ jb[j].id = q.id /\ jb[j].state = job[j].state
        /\ \A i \in Jobs \ {j} : jb[i] = job[i]
    BY <2>1, <2>3, <1>4 DEF JobRecs
  <2>5. st \in [Jobs -> Ids \cup {0}] /\ st[j] = q.id /\ \A i \in Jobs \ {j} : st[i] = stored[i]
    BY <2>2, <2>3, <1>4
  <2>6. JobOwn(jb[j], st[j], uploads, j)
    BY <2>3, <2>4, <2>5, <1>5 DEF JobOwn
  <2>7. j \notin Out => JobSole(jb[j], st[j], uploads, j)
    BY <2>4, <2>5, <1>5 DEF JobSole
  <2>8. Local(r, jb, st)
    BY <2>4, <2>5, <2>6, <2>7, <1>1, <1>3 DEF Local
  <2>9. Held(r, jb)
    BY <1>1, <1>5 DEF Held
  <2>10. AfterSession(jb, st, r)
    BY <2>1, <2>2, <1>7
  <2>. QED BY <2>8, <2>9, <2>10, AfterSessionKeeps
<1>. QED BY <1>1, <1>2, <1>6, <1>7 DEF Open

\* The head of an attempt, after the hash or the pause.
LEMMA AttemptKeeps ==
  ASSUME IInv, NEW r \in Runs, run[r].pc \in {"hash", "backoff"}, NEW try \in Nat,
         Attempt(r, try), UNCHANGED uploads
  PROVE  IInv'
<1>1. PICK j : j = run[r].job
  OBVIOUS
<1>2. run[r].pc # "idle"
  OBVIOUS
<1>3. /\ j \in Jobs /\ job[j] \in JobRecs /\ job \in [Jobs -> JobRecs]
      /\ JobOwn(job[j], stored[j], uploads, j)
  BY <1>1, <1>2, SlotKnows DEF IInv, Good, Shapes
<1>4. CASE job[j].state # "uploading" /\ Return(job, stored, r)
  <2>1. Local(r, job, stored)
    BY <1>2, <1>3, SameUploadLocal
  <2>. QED BY <2>1, <1>1, <1>4, ReturnKeeps
<1>5. CASE Await([job EXCEPT ![j].xhr = r], stored, r,
                 [Ask(r, "put", job[j].id) EXCEPT !.try = try])
  <2>1. PICK jb : jb = [job EXCEPT ![j].xhr = r]
    OBVIOUS
  <2>2. PICK q : q = Ask(r, "put", job[j].id)
    OBVIOUS
  <2>3. PICK next : next = [q EXCEPT !.try = try]
    OBVIOUS
  <2>4. /\ jb \in [Jobs -> JobRecs] /\ jb[j].id = job[j].id /\ jb[j].state = job[j].state
        /\ \A i \in Jobs \ {j} : jb[i] = job[i]
    BY <2>1, <1>3 DEF JobRecs
  <2>5. job[j].id \in Ids \cup {0}
    BY <1>3 DEF JobRecs
  <2>6. /\ q \in RunRecs /\ q.pc = "put" /\ q.job = j /\ q.id = job[j].id /\ q.reply = NoReply
    BY <2>2, <2>5, <1>1, <1>2, AskIs DEF Awaits, Requests
  <2>7. /\ next \in RunRecs /\ next.pc = "put" /\ next.job = j /\ next.id = job[j].id
        /\ next.reply = NoReply
    BY <2>3, <2>6 DEF RunRecs
  <2>8. Local(r, jb, stored)
    BY <2>4, <1>1, <1>2, SameUploadLocal
  <2>9. RunOwn(next, uploads)
    BY <2>7, <1>3, UnansweredOwn DEF JobOwn
  <2>10. Drops(next, jb[j])
    BY <2>7 DEF Drops
  <2>11. j \notin Out => Holds(uploads, j) \subseteq {job[j].id}
    BY <1>1, <1>2, SlotKnows DEF RunSole
  <2>12. j \notin Out => RunSole(next, jb[j], stored[j], uploads)
    BY <2>4, <2>7, <2>11 DEF RunSole, NoReply
  <2>13. Await(jb, stored, r, next)
    BY <1>5, <2>1, <2>2, <2>3
  <2>. QED BY <2>7, <2>8, <2>9, <2>10, <2>12, <2>13, <1>1, AwaitKeeps
<1>. QED BY <1>1, <1>4, <1>5 DEF Attempt

\* The request of a chunk is over.
LEMMA PutKeeps ==
  ASSUME IInv, NEW r \in Runs, Put(r), UNCHANGED uploads
  PROVE  IInv'
<1>1. PICK j : j = run[r].job
  OBVIOUS
<1>2. PICK q : q = run[r].reply
  OBVIOUS
<1>3. run[r].pc = "put" /\ run[r].pc # "idle"
  BY DEF Put, Reply
<1>4. /\ j \in Jobs /\ run[r] \in RunRecs /\ q \in Replies /\ job[j] \in JobRecs
      /\ job \in [Jobs -> JobRecs] /\ JobOwn(job[j], stored[j], uploads, j)
  BY <1>1, <1>2, <1>3, SlotKnows DEF IInv, Good, Shapes, RunRecs
<1>5. j \notin Out => Holds(uploads, j) \subseteq {job[j].id}
  BY <1>1, <1>3, SlotKnows DEF RunSole
<1>6. PICK b : b = [job EXCEPT ![j].xhr = 0]
  OBVIOUS
<1>7. /\ b \in [Jobs -> JobRecs] /\ b[j].id = job[j].id /\ b[j].state = job[j].state
      /\ \A i \in Jobs \ {j} : b[i] = job[i]
  BY <1>4, <1>6 DEF JobRecs
<1>8. Local(r, b, stored)
  BY <1>1, <1>3, <1>7, SameUploadLocal
<1>9. CASE q.code = "ok" /\ Loop([b EXCEPT ![j].offset = q.offset], stored, r)
  <2>1. PICK jb : jb = [b EXCEPT ![j].offset = q.offset]
    OBVIOUS
  <2>2. q.offset \in Nat
    BY <1>4 DEF Replies
  <2>3. /\ jb \in [Jobs -> JobRecs] /\ jb[j].id = job[j].id /\ jb[j].state = job[j].state
        /\ \A i \in Jobs \ {j} : jb[i] = job[i]
    BY <2>1, <2>2, <1>4, <1>7 DEF JobRecs
  <2>4. Local(r, jb, stored)
    BY <2>3, <1>1, <1>3, SameUploadLocal
  <2>5. Held(r, jb)
    BY <2>3, <1>1, <1>5 DEF Held
  <2>. QED BY <2>1, <2>4, <2>5, <1>9, LoopKeeps
<1>10. CASE b[j].state # "uploading" /\ Return(b, stored, r)
  BY <1>1, <1>8, <1>10, ReturnKeeps
<1>11. CASE Await(b, stored, r, Ask(r, "ask", b[j].id))
  <2>1. PICK next : next = Ask(r, "ask", b[j].id)
    OBVIOUS
  <2>2. b[j].id \in Ids \cup {0}
    BY <1>4, <1>7 DEF JobRecs
  <2>3. /\ next \in RunRecs /\ next.pc = "ask" /\ next.job = j /\ next.id = job[j].id
        /\ next.reply = NoReply
    BY <2>1, <2>2, <1>1, <1>3, <1>7, AskIs DEF Awaits, Requests
  <2>4. RunOwn(next, uploads)
    BY <2>3, <1>4, UnansweredOwn DEF JobOwn
  <2>5. Drops(next, b[j])
    BY <2>3 DEF Drops
  <2>6. j \notin Out => RunSole(next, b[j], stored[j], uploads)
    BY <2>3, <1>5, <1>7 DEF RunSole, NoReply
  <2>. QED BY <2>1, <2>3, <2>4, <2>5, <2>6, <1>1, <1>8, <1>11, AwaitKeeps
<1>12. \/ q.code = "ok" /\ Loop([b EXCEPT ![j].offset = q.offset], stored, r)
       \/ b[j].state # "uploading" /\ Return(b, stored, r)
       \/ Await(b, stored, r, Ask(r, "ask", b[j].id))
  BY <1>1, <1>2, <1>6 DEF Put
<1>. QED BY <1>9, <1>10, <1>11, <1>12

\* The offset the receiver has decides how a chunk goes on.
LEMMA AskedKeeps ==
  ASSUME IInv, NEW r \in Runs, Asked(r), UNCHANGED uploads
  PROVE  IInv'
<1>1. PICK j : j = run[r].job
  OBVIOUS
<1>2. PICK q : q = run[r].reply
  OBVIOUS
<1>3. run[r].pc = "ask" /\ run[r].pc # "idle"
  BY DEF Asked, Reply
<1>4. /\ j \in Jobs /\ run[r] \in RunRecs /\ q \in Replies /\ job[j] \in JobRecs
      /\ job \in [Jobs -> JobRecs]
  BY <1>1, <1>2, <1>3, SlotKnows DEF IInv, Good, Shapes, RunRecs
<1>5. j \notin Out => Holds(uploads, j) \subseteq {job[j].id}
  BY <1>1, <1>3, SlotKnows DEF RunSole
<1>6. PICK b : b = [job EXCEPT ![j].offset = q.offset]
  OBVIOUS
<1>7. q.offset \in Nat
  BY <1>4 DEF Replies
<1>8. /\ b \in [Jobs -> JobRecs] /\ b[j].id = job[j].id /\ b[j].state = job[j].state
      /\ \A i \in Jobs \ {j} : b[i] = job[i]
  BY <1>4, <1>6, <1>7 DEF JobRecs
<1>9. Local(r, b, stored)
  BY <1>1, <1>3, <1>8, SameUploadLocal
<1>10. CASE Fail(r)
  BY <1>3, <1>10, FailKeeps
<1>11. CASE Loop(b, stored, r)
  <2>1. Held(r, b)
    BY <1>1, <1>5, <1>8 DEF Held
  <2>. QED BY <2>1, <1>9, <1>11, LoopKeeps
<1>12. CASE Await(b, stored, r, Ask(r, "backoff", 0))
  <2>1. PICK next : next = Ask(r, "backoff", 0)
    OBVIOUS
  <2>2. /\ next \in RunRecs /\ next.pc = "backoff" /\ next.job = j /\ next.id = 0
        /\ next.reply = NoReply
    BY <2>1, <1>1, <1>3, AskIs DEF Awaits
  <2>3. RunOwn(next, uploads)
    BY <2>2, <1>4, UnansweredOwn
  <2>4. Drops(next, b[j])
    BY <2>2 DEF Drops
  <2>5. j \notin Out => RunSole(next, b[j], stored[j], uploads)
    BY <2>2, <1>5, <1>8 DEF RunSole, NoReply
  <2>. QED BY <2>1, <2>2, <2>3, <2>4, <2>5, <1>1, <1>9, <1>12, AwaitKeeps
<1>13. CASE Return([b EXCEPT ![j].state = IF @ = "uploading" THEN "error" ELSE @], stored, r)
  <2>1. PICK jb : jb = [b EXCEPT ![j].state = IF @ = "uploading" THEN "error" ELSE @]
    OBVIOUS
  <2>2. /\ jb \in [Jobs -> JobRecs] /\ jb[j].id = job[j].id
        /\ jb[j].state = (IF job[j].state = "uploading" THEN "error" ELSE job[j].state)
        /\ \A i \in Jobs \ {j} : jb[i] = job[i]
    BY <2>1, <1>4, <1>8 DEF JobRecs, States
  <2>3. Local(r, jb, stored)
    BY <2>2, <1>1, <1>3, SameUploadLocal
  <2>4. Return(jb, stored, r)
    BY <2>1, <1>13
  <2>5. jb[run[r].job].state # "uploading"
    BY <2>2, <1>1
  <2>. QED BY <2>3, <2>4, <2>5, ReturnKeeps
<1>14. \/ Fail(r)
       \/ Loop(b, stored, r)
       \/ Await(b, stored, r, Ask(r, "backoff", 0))
       \/ Return([b EXCEPT ![j].state = IF @ = "uploading" THEN "error" ELSE @], stored, r)
  BY <1>1, <1>2, <1>6 DEF Asked
<1>. QED BY <1>10, <1>11, <1>12, <1>13, <1>14

\* The completion is answered, or its answer is lost.
LEMMA CompletedKeeps ==
  ASSUME IInv, NEW r \in Runs, Completed(r), UNCHANGED uploads
  PROVE  IInv'
<1>1. PICK j : j = run[r].job
  OBVIOUS
<1>2. run[r].pc = "complete" /\ run[r].pc # "idle"
  BY DEF Completed, Reply
<1>3. /\ j \in Jobs /\ RunOwn(run[r], uploads) /\ job[j] \in JobRecs /\ job \in [Jobs -> JobRecs]
      /\ JobOwn(job[j], stored[j], uploads, j)
  BY <1>1, <1>2, SlotKnows DEF IInv, Good, Shapes
<1>4. CASE run[r].reply.code = "ok" /\ Done(r)
  <2>1. run[r].reply.saved
    BY <1>2, <1>3, <1>4 DEF RunOwn
  <2>. QED BY <2>1, <1>2, <1>4, DoneKeeps
<1>5. CASE Await(job, stored, r, Ask(r, "confirm", job[j].id))
  <2>1. PICK next : next = Ask(r, "confirm", job[j].id)
    OBVIOUS
  <2>2. job[j].id \in Ids \cup {0}
    BY <1>3 DEF JobRecs
  <2>3. /\ next \in RunRecs /\ next.pc = "confirm" /\ next.job = j /\ next.id = job[j].id
        /\ next.reply = NoReply
    BY <2>1, <2>2, <1>1, <1>2, AskIs DEF Awaits, Requests
  <2>4. Local(r, job, stored)
    BY <1>2, <1>3, SameUploadLocal
  <2>5. RunOwn(next, uploads)
    BY <2>3, <1>3, UnansweredOwn DEF JobOwn
  <2>6. Drops(next, job[j])
    BY <2>3 DEF Drops
  <2>7. j \notin Out => Holds(uploads, j) \subseteq {job[j].id}
    BY <1>1, <1>2, SlotKnows DEF RunSole
  <2>8. j \notin Out => RunSole(next, job[j], stored[j], uploads)
    BY <2>3, <2>7 DEF RunSole, NoReply
  <2>. QED BY <2>1, <2>3, <2>4, <2>5, <2>6, <2>8, <1>1, <1>5, AwaitKeeps
<1>. QED BY <1>1, <1>4, <1>5 DEF Completed

\* The receiver says whether the upload was saved after all.
LEMMA ConfirmedKeeps ==
  ASSUME IInv, NEW r \in Runs, Confirmed(r), UNCHANGED uploads
  PROVE  IInv'
<1>1. run[r].pc # "idle"
  BY DEF Confirmed, Reply
<1>2. CASE Fail(r)
  BY <1>1, <1>2, FailKeeps
<1>3. CASE run[r].reply.code = "ok" /\ run[r].reply.saved /\ Done(r)
  BY <1>1, <1>3, DoneKeeps
<1>. QED BY <1>2, <1>3 DEF Confirmed

\* The upload a cancelled job had opened is dropped.
LEMMA DroppedKeeps ==
  ASSUME IInv, NEW r \in Runs, Dropped(r), UNCHANGED uploads
  PROVE  IInv'
<1>1. run[r].pc = "drop" /\ run[r].pc # "idle" /\ Return(job, stored, r)
  BY DEF Dropped, Reply
<1>2. Local(r, job, stored)
  BY <1>1, SameUploadLocal DEF IInv, Good, Shapes
<1>3. job[run[r].job].state # "uploading"
  BY <1>1, SlotKnows DEF Drops
<1>. QED BY <1>1, <1>2, <1>3, ReturnKeeps

\* Every handler of a loop.
LEMMA HandleKeeps ==
  ASSUME IInv, NEW r \in Runs, Handle(r)
  PROVE  IInv'
<1>1. UNCHANGED uploads
  BY DEF Handle
<1>2. CASE Look(r)
  BY <1>1, <1>2, LookKeeps
<1>3. CASE Open(r)
  BY <1>1, <1>3, OpenKeeps
<1>4. CASE Hashed(r)
  BY <1>1, <1>4, AttemptKeeps DEF Hashed
<1>5. CASE Put(r)
  BY <1>1, <1>5, PutKeeps
<1>6. CASE Asked(r)
  BY <1>1, <1>6, AskedKeeps
<1>7. CASE Backoff(r)
  <2>1. run[r].try + 1 \in Nat
    BY DEF IInv, Good, Shapes, RunRecs
  <2>. QED BY <2>1, <1>1, <1>7, AttemptKeeps DEF Backoff
<1>8. CASE Completed(r)
  BY <1>1, <1>8, CompletedKeeps
<1>9. CASE Confirmed(r)
  BY <1>1, <1>9, ConfirmedKeeps
<1>10. CASE Dropped(r)
  BY <1>1, <1>10, DroppedKeeps
<1>. QED BY <1>2, <1>3, <1>4, <1>5, <1>6, <1>7, <1>8, <1>9, <1>10 DEF Handle

-----------------------------------------------------------------------------
(* The receiver and the network                                            *)

\* Uploads that go on without one being taken up: files stay, saves and drops
\* are final.
Onward(up, nu) ==
  \A i \in Ids :
    /\ up[i].file # 0 => nu[i].file = up[i].file
    /\ nu[i].status = "saved" \/ nu[i].busy => up[i].status = "saved" \/ up[i].busy
    /\ up[i].status \in {"saved", "past"} => nu[i].status \in {"saved", "past"}
    /\ up[i].status = "dropped" => nu[i].status = "dropped"
    /\ nu[i].status = "free" <=> nu[i].file = 0
    /\ nu[i].busy => nu[i].status = "open"

\* Nothing the page knows depends on more than that.
LEMMA OnwardKeeps ==
  ASSUME NEW jb, NEW st, NEW rn, NEW up, NEW ov, Good(jb, st, rn, up, ov),
         NEW nu \in [Ids -> UploadRecs], Onward(up, nu)
  PROVE  Good(jb, st, rn, nu, ov)
<1>1. /\ Shapes(jb, st, rn, up, ov) /\ Owned(jb, st, rn, up)
      /\ Sole(jb, st, rn, up, ov) /\ Worked(jb, rn)
  BY DEF Good
<1>2. \A i \in Ids : up[i].file # 0 => nu[i].file = up[i].file
  BY DEF Onward
<1>3. ASSUME NEW j \in Jobs PROVE Saves(up, j) \subseteq Saves(nu, j)
  <2>1. j # 0
    BY NoZero
  <2>. QED BY <2>1, <1>2 DEF Saves, Onward
<1>4. ASSUME NEW j \in Jobs PROVE Holds(nu, j) \subseteq Holds(up, j)
  <2>1. SUFFICES ASSUME NEW i \in Ids, nu[i].file = j, nu[i].status = "saved" \/ nu[i].busy
                 PROVE  up[i].file = j /\ (up[i].status = "saved" \/ up[i].busy)
    BY DEF Holds
  <2>2. up[i].status = "saved" \/ up[i].busy
    BY <2>1 DEF Onward
  <2>3. up[i].status # "free"
    BY <2>2, <1>1 DEF Owned
  <2>4. up[i].file # 0
    BY <2>3, <1>1 DEF Owned
  <2>. QED BY <2>1, <2>2, <2>4, <1>2
<1>5. ASSUME NEW j \in Jobs PROVE JobOwn(jb[j], st[j], nu, j)
  <2>1. JobOwn(jb[j], st[j], up, j) /\ jb[j].id \in Ids \cup {0} /\ st[j] \in Ids \cup {0} /\ j # 0
    BY <1>1, NoZero DEF Owned, Shapes, JobRecs
  <2>2. Saves(up, j) \subseteq Saves(nu, j)
    BY <1>3
  <2>. QED BY <2>1, <2>2, <1>2 DEF JobOwn
<1>6. ASSUME NEW r \in Runs PROVE RunOwn(rn[r], nu)
  <2>1. RunOwn(rn[r], up) /\ rn[r] \in RunRecs
    BY <1>1 DEF Owned, Shapes
  <2>2. rn[r].id \in Ids \cup {0} /\ rn[r].reply \in Replies
    BY <2>1 DEF RunRecs
  <2>3. rn[r].reply.id \in Ids \cup {0}
    BY <2>2 DEF Replies
  <2>4. CASE rn[r].pc = "idle"
    BY <2>1, <2>4 DEF RunOwn, Idle, NoReply
  <2>5. CASE rn[r].pc # "idle"
    <3>1. rn[r].job \in Jobs /\ rn[r].job # 0
      BY <2>1, <2>5, NoZero DEF RunOwn
    <3>2. rn[r].id # 0 => nu[rn[r].id].file = rn[r].job
      BY <3>1, <2>1, <2>2, <1>2 DEF RunOwn
    <3>3. rn[r].reply.id # 0 => nu[rn[r].reply.id].file = rn[r].job
      BY <3>1, <2>1, <2>3, <1>2 DEF RunOwn
    <3>4. rn[r].reply.code = "ok" => rn[r].reply.id # 0
      BY <2>1 DEF RunOwn
    <3>5. rn[r].reply.code = "ok" /\ rn[r].reply.saved
            => nu[rn[r].reply.id].status \in {"saved", "past"}
      BY <3>4, <2>1, <2>3 DEF RunOwn, Onward
    <3>. QED BY <3>1, <3>2, <3>3, <3>4, <3>5, <2>1, <2>5 DEF RunOwn
  <2>. QED BY <2>4, <2>5
<1>7. Owned(jb, st, rn, nu)
  BY <1>1, <1>5, <1>6 DEF Owned, Onward
<1>8. ASSUME NEW j \in Jobs \ ov PROVE JobSole(jb[j], st[j], nu, j)
  <2>1. JobSole(jb[j], st[j], up, j) /\ Holds(nu, j) \subseteq Holds(up, j)
    BY <1>1, <1>4 DEF Sole
  <2>. QED BY <2>1 DEF JobSole
<1>9. ASSUME NEW r \in Runs, rn[r].job \in Jobs \ ov
      PROVE  RunSole(rn[r], jb[rn[r].job], st[rn[r].job], nu)
  <2>1. RunSole(rn[r], jb[rn[r].job], st[rn[r].job], up) /\ rn[r].id \in Ids \cup {0}
    BY <1>1, <1>9 DEF Sole, Shapes, RunRecs
  <2>2. Holds(nu, rn[r].job) \subseteq Holds(up, rn[r].job)
    BY <1>4, <1>9
  <2>. QED BY <2>1, <2>2 DEF RunSole, Onward
<1>10. Sole(jb, st, rn, nu, ov)
  BY <1>1, <1>8, <1>9 DEF Sole
<1>. QED BY <1>1, <1>7, <1>10 DEF Good, Shapes

\* Of fewer jobs less is claimed.
LEMMA FewerKeeps ==
  ASSUME NEW jb, NEW st, NEW rn, NEW up, NEW ov, Good(jb, st, rn, up, ov),
         NEW more, ov \subseteq more, more \subseteq Jobs
  PROVE  Good(jb, st, rn, up, more)
BY DEF Good, Shapes, Sole

\* Which jobs have a forgotten save depends on the past uploads only.
LEMMA ForgotSame ==
  ASSUME NEW up, NEW nu,
         \A i \in Ids : nu[i].status = "past" <=> up[i].status = "past",
         \A i \in Ids : up[i].status = "past" => nu[i].file = up[i].file
  PROVE  Forgot(nu) = Forgot(up)
BY DEF Forgot

\* A loop waits for a handler as long as the upload is busy with it.
LEMMA WaitedStays ==
  ASSUME NEW rn, NEW rm, NEW up, NEW nu, Waited(rn, up),
         \A r \in Runs : rm[r].reply = Pending =>
            rn[r].reply = Pending /\ rm[r].pc = rn[r].pc /\ rm[r].id = rn[r].id,
         \A i \in Ids : up[i].busy => nu[i].busy /\ nu[i].offset = up[i].offset
  PROVE  Waited(rm, nu)
BY DEF Waited

\* Slots that differ in their answers only, and know what they must of them.
LEMMA AnswersKeep ==
  ASSUME NEW jb, NEW st, NEW rn, NEW up, NEW ov, Good(jb, st, rn, up, ov),
         NEW rm \in [Runs -> RunRecs],
         \A r \in Runs : rm[r].pc = rn[r].pc /\ rm[r].job = rn[r].job,
         \A r \in Runs : RunOwn(rm[r], up),
         \A r \in Runs : rm[r].job \in Jobs \ ov =>
                           RunSole(rm[r], jb[rm[r].job], st[rm[r].job], up)
  PROVE  Good(jb, st, rm, up, ov) /\ (Taken(jb, rn) => Taken(jb, rm))
<1>1. /\ Shapes(jb, st, rn, up, ov) /\ Owned(jb, st, rn, up)
      /\ Sole(jb, st, rn, up, ov) /\ Worked(jb, rn)
  BY DEF Good
<1>2. Shapes(jb, st, rm, up, ov)
  BY <1>1 DEF Shapes
<1>3. \A r \in Runs : rm[r].pc # "idle" => Drops(rm[r], jb[rm[r].job])
  BY <1>1 DEF Owned, Drops
<1>4. Owned(jb, st, rm, up)
  BY <1>1, <1>3 DEF Owned
<1>5. Sole(jb, st, rm, up, ov)
  BY <1>1 DEF Sole
<1>6. Worked(jb, rm)
  BY <1>1 DEF Worked
<1>7. Taken(jb, rn) => Taken(jb, rm)
  BY DEF Taken
<1>. QED BY <1>2, <1>4, <1>5, <1>6, <1>7 DEF Good

\* A lost answer claims nothing.
LEMMA LostOwn ==
  ASSUME NEW q \in RunRecs, NEW b, NEW s, NEW up, q.pc # "idle", RunOwn(q, up)
  PROVE  LET m == [q EXCEPT !.reply = Lost]
         IN  /\ m \in RunRecs /\ m.pc = q.pc /\ m.job = q.job
             /\ RunOwn(m, up)
             /\ RunSole(q, b, s, up) => RunSole(m, b, s, up)
<1>1. PICK m : m = [q EXCEPT !.reply = Lost]
  OBVIOUS
<1>2. /\ m \in RunRecs /\ m.pc = q.pc /\ m.job = q.job /\ m.id = q.id /\ m.reply = Lost
      /\ Lost.id = 0 /\ Lost.code = "lost"
  BY <1>1, RecordTypes DEF RunRecs
<1>3. RunOwn(m, up)
  BY <1>2 DEF RunOwn
<1>4. RunSole(q, b, s, up) => RunSole(m, b, s, up)
  BY <1>2 DEF RunSole
<1>. QED BY <1>1, <1>2, <1>3, <1>4

\* A request or its answer is lost on the way.
LEMMA LoseKeeps ==
  ASSUME IInv, NEW r \in Runs, Lose(r)
  PROVE  IInv'
<1>1. PICK m : m = [run[r] EXCEPT !.reply = Lost]
  OBVIOUS
<1>2. run' = [run EXCEPT ![r] = m] /\ UNCHANGED <<job, stored, uploads, Out>>
  BY <1>1 DEF Lose, Out
<1>3. run[r].pc # "idle"
  BY DEF Lose, Requests
<1>4. Good(job, stored, run, uploads, Out) /\ Taken(job, run) /\ run \in [Runs -> RunRecs]
      /\ Owned(job, stored, run, uploads) /\ Sole(job, stored, run, uploads, Out)
  BY DEF IInv, Good, Shapes
<1>5. run[r] \in RunRecs /\ RunOwn(run[r], uploads)
  BY <1>4 DEF Owned
<1>6. /\ m \in RunRecs /\ m.pc = run[r].pc /\ m.job = run[r].job /\ RunOwn(m, uploads)
      /\ \A b, s : RunSole(run[r], b, s, uploads) => RunSole(m, b, s, uploads)
  BY <1>1, <1>3, <1>5, LostOwn
<1>7. PICK rm : rm = [run EXCEPT ![r] = m]
  OBVIOUS
<1>8. rm \in [Runs -> RunRecs] /\ rm[r] = m /\ \A t \in Runs \ {r} : rm[t] = run[t]
  BY <1>4, <1>6, <1>7
<1>9. \A t \in Runs : rm[t].pc = run[t].pc /\ rm[t].job = run[t].job
  BY <1>6, <1>8
<1>10. \A t \in Runs : RunOwn(rm[t], uploads)
  BY <1>4, <1>6, <1>8 DEF Owned
<1>11. ASSUME NEW t \in Runs, rm[t].job \in Jobs \ Out
       PROVE  RunSole(rm[t], job[rm[t].job], stored[rm[t].job], uploads)
  BY <1>4, <1>6, <1>8, <1>9, <1>11 DEF Sole
<1>12. Good(job, stored, rm, uploads, Out) /\ Taken(job, rm)
  BY <1>4, <1>8, <1>9, <1>10, <1>11, AnswersKeep
<1>13. rm[r].reply # Pending
  BY <1>1, <1>5, <1>8, RecordTypes DEF RunRecs
<1>14. Waited(rm, uploads)
  BY <1>8, <1>13 DEF IInv, Waited
<1>. QED BY <1>2, <1>7, <1>12, <1>14 DEF IInv

\* A handler takes up the request of a loop: the receiver held no other upload
\* of the job.
LEMMA TakingKeeps ==
  ASSUME IInv, NEW r \in Runs, run[r].pc \in {"put", "complete"},
         NEW id \in Ids, id = run[r].id, uploads[id].status = "open",
         NEW nu \in [Ids -> UploadRecs], nu[id].busy,
         \A i \in Ids \ {id} : nu[i] = uploads[i],
         nu[id].file = uploads[id].file, nu[id].status = uploads[id].status,
         nu[id].offset = uploads[id].offset
  PROVE  /\ Good(job, stored, run, nu, Out)
         /\ Forgot(nu) = Forgot(uploads) /\ Waited(run, nu)
<1>1. /\ Shapes(job, stored, run, uploads, Out) /\ Owned(job, stored, run, uploads)
      /\ Sole(job, stored, run, uploads, Out) /\ Worked(job, run) /\ Waited(run, uploads)
  BY DEF IInv, Good
<1>2. PICK j : j = run[r].job
  OBVIOUS
<1>3. j \in Jobs /\ RunOwn(run[r], uploads) /\ JobOwn(job[j], stored[j], uploads, j)
  BY <1>2, SlotKnows
<1>4. id # 0 /\ uploads[id].file = j
  BY <1>2, <1>3, NoZero DEF RunOwn
<1>5. /\ \A i \in Ids \ {id} : nu[i] = uploads[i]
      /\ \A i \in Ids : nu[i].file = uploads[i].file /\ nu[i].status = uploads[i].status
  OBVIOUS
<1>6. ASSUME NEW i \in Jobs \ {j} PROVE Holds(nu, i) = Holds(uploads, i)
  BY <1>4, <1>5 DEF Holds
<1>7. Holds(nu, j) \subseteq Holds(uploads, j) \cup {id}
  BY <1>5 DEF Holds
<1>8. j \notin Out => Holds(nu, j) \subseteq {id} /\ id = job[j].id
  BY <1>2, <1>7, SlotKnows DEF RunSole
<1>9. \A i : Saves(nu, i) = Saves(uploads, i)
  BY <1>5 DEF Saves
<1>10. ASSUME NEW i \in Jobs PROVE JobOwn(job[i], stored[i], nu, i)
  <2>1. JobOwn(job[i], stored[i], uploads, i) /\ job[i].id \in Ids \cup {0}
        /\ stored[i] \in Ids \cup {0}
    BY <1>1 DEF Owned, Shapes, JobRecs
  <2>. QED BY <2>1, <1>5, <1>9 DEF JobOwn
<1>11. ASSUME NEW t \in Runs PROVE RunOwn(run[t], nu)
  <2>1. RunOwn(run[t], uploads) /\ run[t] \in RunRecs
    BY <1>1 DEF Owned, Shapes
  <2>2. run[t].id \in Ids \cup {0} /\ run[t].reply \in Replies
    BY <2>1 DEF RunRecs
  <2>3. run[t].reply.id \in Ids \cup {0}
    BY <2>2 DEF Replies
  <2>. QED BY <2>1, <2>2, <2>3, <1>5 DEF RunOwn
<1>12. Owned(job, stored, run, nu)
  <2>1. \A i \in Ids : nu[i].status = "free" <=> nu[i].file = 0
    BY <1>1, <1>5 DEF Owned
  <2>2. \A i \in Ids : nu[i].busy => nu[i].status = "open"
    BY <1>1, <1>5 DEF Owned
  <2>. QED BY <2>1, <2>2, <1>1, <1>10, <1>11 DEF Owned
<1>13. ASSUME NEW i \in Jobs \ Out PROVE JobSole(job[i], stored[i], nu, i)
  <2>1. JobSole(job[i], stored[i], uploads, i)
    BY <1>1 DEF Sole
  <2>2. CASE i # j
    BY <2>1, <2>2, <1>6 DEF JobSole
  <2>3. CASE i = j
    BY <2>1, <2>3, <1>4, <1>8 DEF JobSole, Known
  <2>. QED BY <2>2, <2>3
<1>14. ASSUME NEW t \in Runs, run[t].job \in Jobs \ Out
       PROVE  RunSole(run[t], job[run[t].job], stored[run[t].job], nu)
  <2>1. RunSole(run[t], job[run[t].job], stored[run[t].job], uploads) /\ run[t].id \in Ids \cup {0}
    BY <1>1, <1>14 DEF Sole, Shapes, RunRecs
  <2>2. CASE t = r
    <3>1. run[t].job = j /\ run[t].pc \notin {"open", "look"} /\ Holds(nu, j) \subseteq {job[j].id}
      BY <2>2, <1>2, <1>8, <1>14
    <3>. QED BY <3>1, <2>1 DEF RunSole
  <2>3. CASE t # r
    <3>1. run[t].job # j
      BY <2>3, <1>1, <1>2, <1>14 DEF Sole
    <3>2. Holds(nu, run[t].job) = Holds(uploads, run[t].job)
      BY <3>1, <1>6, <1>14
    <3>. QED BY <3>2, <2>1, <1>5 DEF RunSole
  <2>. QED BY <2>2, <2>3
<1>15. Sole(job, stored, run, nu, Out)
  BY <1>1, <1>13, <1>14 DEF Sole
<1>16. Good(job, stored, run, nu, Out)
  BY <1>1, <1>5, <1>12, <1>15 DEF Good, Shapes
<1>17. Forgot(nu) = Forgot(uploads)
  BY <1>5, ForgotSame
<1>18. Waited(run, nu)
  <2>1. \A i \in Ids : uploads[i].busy => nu[i].busy /\ nu[i].offset = uploads[i].offset
    BY <1>5
  <2>. QED BY <2>1, <1>1, WaitedStays
<1>. QED BY <1>16, <1>17, <1>18

\* The slot gets an answer that is true of the uploads.
LEMMA AnswerKeeps ==
  ASSUME IInv, NEW nu, Good(job, stored, run, nu, Out),
         NEW r \in Runs, run[r].pc # "idle", NEW a \in Replies,
         a.id # 0 => nu[a.id].file = run[r].job,
         a.code = "ok" => a.id # 0,
         a.code = "ok" /\ a.saved => nu[a.id].status \in {"saved", "past"},
         a.code = "ok" /\ run[r].pc = "complete" => a.saved,
         a.code = "ok" /\ run[r].pc # "open" => a.id = run[r].id,
         a.code = "gone" /\ run[r].id # 0 /\ run[r].job \notin Out =>
           nu[run[r].id].status = "dropped",
         Waited(run, nu),
         a = Pending => /\ run[r].id \in Ids /\ nu[run[r].id].busy
                        /\ \/ run[r].pc = "put" /\ nu[run[r].id].offset < Size
                           \/ run[r].pc = "complete" /\ nu[run[r].id].offset = Size,
         run' = [run EXCEPT ![r].reply = a], uploads' = nu, Forgot(nu) = Forgot(uploads),
         UNCHANGED <<job, stored, overlapped>>
  PROVE  IInv'
<1>1. /\ Shapes(job, stored, run, nu, Out) /\ Owned(job, stored, run, nu)
      /\ Sole(job, stored, run, nu, Out) /\ Taken(job, run)
  BY DEF Good, IInv
<1>2. PICK m : m = [run[r] EXCEPT !.reply = a]
  OBVIOUS
<1>3. run[r] \in RunRecs /\ RunOwn(run[r], nu)
  BY <1>1 DEF Shapes, Owned
<1>4. m \in RunRecs /\ m.pc = run[r].pc /\ m.job = run[r].job /\ m.id = run[r].id /\ m.reply = a
  BY <1>2, <1>3 DEF RunRecs
<1>5. RunOwn(m, nu)
  BY <1>3, <1>4 DEF RunOwn
<1>6. PICK rm : rm = [run EXCEPT ![r] = m]
  OBVIOUS
<1>7. rm \in [Runs -> RunRecs] /\ rm[r] = m /\ \A t \in Runs \ {r} : rm[t] = run[t]
  BY <1>1, <1>4, <1>6 DEF Shapes
<1>8. \A t \in Runs : rm[t].pc = run[t].pc /\ rm[t].job = run[t].job
  BY <1>4, <1>7
<1>9. \A t \in Runs : RunOwn(rm[t], nu)
  BY <1>1, <1>5, <1>7 DEF Owned
<1>10. ASSUME NEW t \in Runs, rm[t].job \in Jobs \ Out
       PROVE  RunSole(rm[t], job[rm[t].job], stored[rm[t].job], nu)
  <2>1. RunSole(run[t], job[run[t].job], stored[run[t].job], nu)
    BY <1>1, <1>8, <1>10 DEF Sole
  <2>2. CASE t # r
    BY <2>1, <2>2, <1>7
  <2>3. CASE t = r
    BY <2>1, <2>3, <1>4, <1>7, <1>10 DEF RunSole
  <2>. QED BY <2>2, <2>3
<1>11. Good(job, stored, rm, nu, Out) /\ Taken(job, rm)
  BY <1>1, <1>7, <1>8, <1>9, <1>10, AnswersKeep
<1>12. run' = rm
  BY <1>2, <1>6
<1>13. Out' = Out
  BY DEF Out
<1>14. Waited(rm, nu)
  <2>1. ASSUME NEW t \in Runs, rm[t].reply = Pending
        PROVE  /\ rm[t].id \in Ids /\ nu[rm[t].id].busy
               /\ \/ rm[t].pc = "put" /\ nu[rm[t].id].offset < Size
                  \/ rm[t].pc = "complete" /\ nu[rm[t].id].offset = Size
    <3>1. CASE t = r
      <4>1. a = Pending /\ rm[t].id = run[r].id /\ rm[t].pc = run[r].pc
        BY <3>1, <2>1, <1>4, <1>7
      <4>. QED BY <4>1
    <3>2. CASE t # r
      BY <3>2, <2>1, <1>7 DEF Waited
    <3>. QED BY <3>1, <3>2
  <2>. QED BY <2>1 DEF Waited
<1>. QED BY <1>11, <1>12, <1>13, <1>14 DEF IInv

\* The receiver answers a request, or a handler takes it up.
LEMMA ServeKeeps ==
  ASSUME IInv, NEW r \in Runs, Serve(r)
  PROVE  IInv'
<1>1. PICK q : q = run[r]
  OBVIOUS
<1>2. PICK id : id = q.id
  OBVIOUS
<1>3. q.pc \in Requests /\ q.pc # "idle" /\ UNCHANGED <<job, stored, overlapped>>
  BY <1>1 DEF Serve, Requests
<1>4. /\ Good(job, stored, run, uploads, Out) /\ Shapes(job, stored, run, uploads, Out)
      /\ Owned(job, stored, run, uploads) /\ Waited(run, uploads)
  BY DEF IInv, Good
<1>5. /\ q \in RunRecs /\ q.job \in Jobs /\ q.job # 0 /\ RunOwn(q, uploads) /\ id \in Ids \cup {0}
      /\ id # 0 => uploads[id].file = q.job
  BY <1>1, <1>2, <1>3, SlotKnows, NoZero DEF RunRecs, RunOwn
<1>6. \A i \in Ids : /\ uploads[i] \in UploadRecs /\ (uploads[i].status = "free" <=> uploads[i].file = 0)
                     /\ uploads[i].busy => uploads[i].status = "open"
  BY <1>4 DEF Shapes, Owned
<1>. DEFINE free == {i \in Ids : uploads[i].status = "free"}
<1>7. CASE /\ q.pc = "open" /\ free # {}
           /\ LET new == [file |-> q.job, offset |-> 0, status |-> "open", busy |-> FALSE]
              IN  /\ uploads' = [uploads EXCEPT ![Min(free)] = new]
                  /\ run' = [run EXCEPT ![r].reply = Say("ok", Min(free), new)]
  <2>1. free \in SUBSET Nat
    BY PageAssumption
  <2>2. Min(free) \in free
    BY <2>1, <1>7, MinIsIn
  <2>3. PICK i \in Ids : i = Min(free) /\ uploads[i].status = "free"
    BY <2>2
  <2>4. PICK new : new = [file |-> q.job, offset |-> 0, status |-> "open", busy |-> FALSE]
    OBVIOUS
  <2>5. PICK nu : nu = [uploads EXCEPT ![i] = new]
    OBVIOUS
  <2>6. PICK a : a = Say("ok", i, new)
    OBVIOUS
  <2>7. uploads' = nu /\ run' = [run EXCEPT ![r].reply = a]
    <3>. HIDE DEF free
    <3>. QED BY <1>7, <2>3, <2>4, <2>5, <2>6
  <2>8. a \in Replies /\ a.code = "ok" /\ a.id = i /\ a.saved = FALSE /\ a # Pending
    BY <2>4, <2>6 DEF Say, Replies, Codes, Pending, NoReply
  <2>9. /\ nu \in [Ids -> UploadRecs] /\ nu[i].file = q.job /\ nu[i].status = "open" /\ ~nu[i].busy
        /\ \A k \in Ids \ {i} : nu[k] = uploads[k]
    BY <2>4, <2>5, <1>4, <1>5 DEF Shapes, UploadRecs
  <2>10. Onward(uploads, nu)
    BY <2>3, <2>9, <1>5, <1>6 DEF Onward
  <2>11. Good(job, stored, run, nu, Out)
    BY <2>9, <2>10, <1>4, OnwardKeeps
  <2>12. i # 0 /\ ~uploads[i].busy
    BY <2>3, <1>6, NoZero
  <2>13. Forgot(nu) = Forgot(uploads)
    BY <2>3, <2>9, ForgotSame
  <2>14. Waited(run, nu)
    <3>1. \A k \in Ids : uploads[k].busy => nu[k].busy /\ nu[k].offset = uploads[k].offset
      BY <2>9, <2>12
    <3>. QED BY <3>1, <1>4, WaitedStays
  <2>15. /\ run[r].pc = "open" /\ run[r].pc # "idle" /\ a.code = "ok" /\ a.id # 0 /\ ~a.saved
         /\ nu[a.id].file = run[r].job
    BY <2>8, <2>9, <2>12, <1>1, <1>7
  <2>. QED BY <2>7, <2>8, <2>11, <2>13, <2>14, <2>15, <1>3, AnswerKeeps
<1>8. CASE q.pc = "open" /\ run' = [run EXCEPT ![r].reply = [NoReply EXCEPT !.code = "refused"]]
           /\ UNCHANGED uploads
  <2>1. PICK a : a = [NoReply EXCEPT !.code = "refused"]
    OBVIOUS
  <2>2. a \in Replies /\ a.code = "refused" /\ a.id = 0 /\ a # Pending
    BY <2>1 DEF NoReply, Replies, Codes, Pending
  <2>3. run' = [run EXCEPT ![r].reply = a] /\ uploads' = uploads
    BY <2>1, <1>8
  <2>. QED BY <2>2, <2>3, <1>1, <1>3, <1>4, AnswerKeeps
<1>9. CASE ~Live(id) /\ run' = [run EXCEPT ![r].reply = Gone] /\ UNCHANGED uploads
  <2>1. PICK a : a = Gone
    OBVIOUS
  <2>2. a \in Replies /\ a.code = "gone" /\ a.id = 0 /\ a # Pending
    BY <2>1 DEF Gone, NoReply, Replies, Codes, Pending
  <2>3. id # 0 /\ q.job \notin Out => uploads[id].status = "dropped"
    <3>1. SUFFICES ASSUME id # 0, q.job \notin Out PROVE uploads[id].status = "dropped"
      OBVIOUS
    <3>2. id \in Ids /\ uploads[id].status \in {"free", "dropped", "past"} /\ uploads[id].file = q.job
      BY <3>1, <1>5, <1>6, <1>9 DEF Live, UploadRecs
    <3>3. uploads[id].status # "free"
      BY <3>2, <1>5, <1>6
    <3>4. uploads[id].status # "past"
      BY <3>1, <3>2, <1>5 DEF Out, Forgot
    <3>. QED BY <3>2, <3>3, <3>4
  <2>4. run' = [run EXCEPT ![r].reply = a] /\ uploads' = uploads
    BY <2>1, <1>9
  <2>. QED BY <2>2, <2>3, <2>4, <1>1, <1>2, <1>3, <1>4, AnswerKeeps
<1>10. CASE /\ q.pc # "open" /\ Live(id) /\ Accepted(r, uploads[id]) /\ Takes(r, uploads[id])
            /\ uploads' = [uploads EXCEPT ![id].busy = TRUE]
            /\ run' = [run EXCEPT ![r].reply = Pending]
  <2>1. id \in Ids /\ uploads[id] \in UploadRecs
    BY <1>5, <1>6, <1>10 DEF Live
  <2>2. /\ uploads[id].status = "open"
        /\ \/ q.pc = "put" /\ uploads[id].offset < Size
           \/ q.pc = "complete" /\ uploads[id].offset = Size
    BY <1>1, <1>10 DEF Accepted, Takes
  <2>3. PICK nu : nu = [uploads EXCEPT ![id].busy = TRUE]
    OBVIOUS
  <2>4. PICK a : a = Pending
    OBVIOUS
  <2>5. /\ nu \in [Ids -> UploadRecs] /\ nu[id].busy
        /\ \A i \in Ids \ {id} : nu[i] = uploads[i]
        /\ nu[id].file = uploads[id].file /\ nu[id].status = uploads[id].status
        /\ nu[id].offset = uploads[id].offset
    BY <2>1, <2>3, <1>4 DEF Shapes, UploadRecs
  <2>6. /\ Good(job, stored, run, nu, Out)
        /\ Forgot(nu) = Forgot(uploads) /\ Waited(run, nu)
    BY <2>1, <2>2, <2>5, <1>1, <1>2, TakingKeeps
  <2>7. a \in Replies /\ a.code = "pending" /\ a.id = 0
    BY <2>4, RecordTypes
  <2>8. uploads' = nu /\ run' = [run EXCEPT ![r].reply = a]
    BY <2>3, <2>4, <1>10
  <2>9. /\ run[r].id \in Ids /\ nu[run[r].id].busy /\ run[r].pc # "idle"
        /\ \/ run[r].pc = "put" /\ nu[run[r].id].offset < Size
           \/ run[r].pc = "complete" /\ nu[run[r].id].offset = Size
    BY <2>1, <2>2, <2>5, <1>1, <1>2, <1>3
  <2>. QED BY <2>6, <2>7, <2>8, <2>9, <1>3, AnswerKeeps
<1>11. CASE /\ q.pc # "open" /\ Live(id) /\ Accepted(r, uploads[id]) /\ ~Takes(r, uploads[id])
            /\ uploads' = IF q.pc = "drop" THEN [uploads EXCEPT ![id].status = "dropped"] ELSE uploads
            /\ run' = [run EXCEPT ![r].reply = Say("ok", id, uploads[id])]
  <2>1. /\ id \in Ids /\ id # 0 /\ uploads[id] \in UploadRecs /\ uploads[id].status \in {"open", "saved"}
        /\ uploads[id].file = q.job
    BY <1>5, <1>6, <1>11 DEF Live
  <2>2. PICK nu : nu = IF q.pc = "drop" THEN [uploads EXCEPT ![id].status = "dropped"] ELSE uploads
    OBVIOUS
  <2>3. PICK a : a = Say("ok", id, uploads[id])
    OBVIOUS
  <2>4. uploads' = nu /\ run' = [run EXCEPT ![r].reply = a]
    BY <2>2, <2>3, <1>11
  <2>5. /\ a \in Replies /\ a.code = "ok" /\ a.id = id /\ a # Pending
        /\ a.saved = (uploads[id].status = "saved")
    BY <2>1, <2>3 DEF Say, Replies, Codes, UploadRecs, Pending, NoReply
  <2>6. CASE q.pc # "drop"
    <3>1. nu = uploads
      BY <2>2, <2>6
    <3>2. q.pc = "complete" => a.saved
      BY <2>1, <2>5, <1>1, <1>11 DEF Takes
    <3>3. /\ nu[a.id].file = run[r].job /\ a.saved => nu[a.id].status \in {"saved", "past"}
      BY <3>1, <2>1, <2>5, <1>1
    <3>4. /\ a.id # 0 /\ a.id = run[r].id /\ run[r].pc # "idle" /\ Forgot(nu) = Forgot(uploads)
          /\ run[r].pc = "complete" => a.saved
          /\ Good(job, stored, run, nu, Out) /\ Waited(run, nu)
      BY <3>1, <3>2, <2>1, <2>5, <1>1, <1>2, <1>3, <1>4
    <3>5. nu[a.id].file = run[r].job
      BY <3>1, <2>1, <2>5, <1>1
    <3>. QED BY <3>3, <3>4, <3>5, <2>4, <2>5, <1>3, AnswerKeeps
  <2>7. CASE q.pc = "drop"
    <3>1. uploads[id].status = "open" /\ ~uploads[id].busy
      BY <2>7, <1>1, <1>11 DEF Accepted
    <3>2. nu = [uploads EXCEPT ![id].status = "dropped"]
      BY <2>2, <2>7
    <3>3. /\ nu \in [Ids -> UploadRecs] /\ nu[id].file = uploads[id].file /\ nu[id].status = "dropped"
          /\ nu[id].busy = uploads[id].busy
          /\ \A k \in Ids \ {id} : nu[k] = uploads[k]
      BY <3>2, <1>4, <2>1 DEF Shapes, UploadRecs
    <3>4. Onward(uploads, nu)
      BY <3>1, <3>3, <2>1, <1>6 DEF Onward
    <3>5. Good(job, stored, run, nu, Out)
      BY <3>3, <3>4, <1>4, OnwardKeeps
    <3>6. Forgot(nu) = Forgot(uploads)
      BY <3>1, <3>3, ForgotSame
    <3>7. Waited(run, nu)
      <4>1. \A k \in Ids : uploads[k].busy => nu[k].busy /\ nu[k].offset = uploads[k].offset
        BY <3>1, <3>3
      <4>. QED BY <4>1, <1>4, WaitedStays
    <3>8. /\ a.id # 0 /\ a.id = run[r].id /\ run[r].pc = "drop" /\ ~a.saved
          /\ nu[a.id].file = run[r].job
      BY <3>1, <3>3, <2>1, <2>5, <2>7, <1>1, <1>2
    <3>. QED BY <3>5, <3>6, <3>7, <3>8, <2>4, <2>5, <1>3, AnswerKeeps
  <2>. QED BY <2>6, <2>7
<1>12. CASE /\ q.pc # "open" /\ Live(id) /\ run' = [run EXCEPT ![r].reply = Say("refused", id, uploads[id])]
            /\ UNCHANGED uploads
  <2>1. PICK a : a = Say("refused", id, uploads[id])
    OBVIOUS
  <2>2. id \in Ids /\ uploads[id] \in UploadRecs
    BY <1>5, <1>6, <1>12 DEF Live
  <2>3. a \in Replies /\ a.code = "refused" /\ a.id = id /\ a # Pending
    BY <2>1, <2>2 DEF Say, Replies, Codes, UploadRecs, Pending, NoReply
  <2>4. run' = [run EXCEPT ![r].reply = a] /\ uploads' = uploads
    BY <2>1, <1>12
  <2>. QED BY <2>3, <2>4, <1>1, <1>3, <1>4, <1>5, AnswerKeeps
<1>. QED BY <1>1, <1>2, <1>7, <1>8, <1>9, <1>10, <1>11, <1>12 DEF Serve

\* An upload in nobody's hands ends: an open one is dropped, a saved one is
\* forgotten.
LEMMA EndingKeeps ==
  ASSUME IInv, NEW id \in Ids, ~uploads[id].busy,
         \/ uploads[id].status = "open" /\ uploads' = [uploads EXCEPT ![id].status = "dropped"]
         \/ uploads[id].status = "saved" /\ uploads' = [uploads EXCEPT ![id].status = "past"],
         UNCHANGED <<job, stored, run, overlapped>>
  PROVE  IInv'
<1>1. PICK nu : nu = uploads'
  OBVIOUS
<1>2. /\ Good(job, stored, run, uploads, Out) /\ Taken(job, run) /\ Waited(run, uploads)
      /\ Shapes(job, stored, run, uploads, Out) /\ Owned(job, stored, run, uploads)
  BY DEF IInv, Good
<1>3. /\ nu \in [Ids -> UploadRecs] /\ nu[id].file = uploads[id].file /\ ~nu[id].busy
      /\ \/ uploads[id].status = "open" /\ nu[id].status = "dropped"
         \/ uploads[id].status = "saved" /\ nu[id].status = "past"
      /\ \A k \in Ids \ {id} : nu[k] = uploads[k]
  BY <1>1, <1>2 DEF Shapes, UploadRecs
<1>4. Onward(uploads, nu)
  BY <1>2, <1>3 DEF Onward, Owned
<1>5. Good(job, stored, run, nu, Out)
  BY <1>2, <1>3, <1>4, OnwardKeeps
<1>6. Out \subseteq Out' /\ Out' \subseteq Jobs
  <2>1. Forgot(uploads) \subseteq Forgot(nu) /\ Forgot(nu) \subseteq Jobs
    BY <1>3 DEF Forgot
  <2>2. overlapped \subseteq Jobs
    BY <1>2 DEF Shapes, Out
  <2>. QED BY <2>1, <2>2, <1>1 DEF Out
<1>7. Good(job, stored, run, nu, Out')
  BY <1>5, <1>6, FewerKeeps
<1>8. Waited(run, nu)
  <2>1. \A k \in Ids : uploads[k].busy => nu[k].busy /\ nu[k].offset = uploads[k].offset
    BY <1>3
  <2>. QED BY <2>1, <1>2, WaitedStays
<1>. QED BY <1>1, <1>2, <1>7, <1>8 DEF IInv

\* A handler ends: with its chunk written, with the file saved, or with
\* nothing changed.
LEMMA FinishKeeps ==
  ASSUME IInv, NEW id \in Ids, uploads[id].busy,
         NEW w \in UploadRecs, w.file = uploads[id].file, ~w.busy, w.status \in {"open", "saved"},
         NEW a \in Replies, a.code \in {"ok", "refused"}, a.id = id,
         a.saved => w.status = "saved",
         a.code = "ok" /\ uploads[id].offset = Size => a.saved,
         uploads' = [uploads EXCEPT ![id] = w],
         run' = [r \in Runs |-> IF r \in Waiting(id) THEN [run[r] EXCEPT !.reply = a] ELSE run[r]],
         UNCHANGED <<job, stored, overlapped>>
  PROVE  IInv'
<1>2. PICK nu : nu = [uploads EXCEPT ![id] = w]
  OBVIOUS
<1>4. PICK rm : rm = [r \in Runs |-> IF r \in Waiting(id) THEN [run[r] EXCEPT !.reply = a] ELSE run[r]]
  OBVIOUS
<1>5. uploads[id].busy /\ uploads' = nu /\ run' = rm /\ UNCHANGED <<job, stored, overlapped>>
  BY <1>2, <1>4
<1>6. /\ Good(job, stored, run, uploads, Out) /\ Taken(job, run) /\ Waited(run, uploads)
      /\ Shapes(job, stored, run, uploads, Out) /\ Owned(job, stored, run, uploads)
  BY DEF IInv, Good
<1>8. /\ nu \in [Ids -> UploadRecs] /\ nu[id] = w /\ \A k \in Ids \ {id} : nu[k] = uploads[k]
  BY <1>2, <1>6 DEF Shapes
<1>9. uploads[id].status = "open" /\ uploads[id].file # 0
  BY <1>5, <1>6 DEF Owned
<1>10. Onward(uploads, nu)
  BY <1>5, <1>6, <1>8, <1>9 DEF Onward, Owned
<1>11. Good(job, stored, run, nu, Out)
  BY <1>6, <1>8, <1>10, OnwardKeeps
<1>12. a # Pending
  BY RecordTypes
<1>13. Owned(job, stored, run, nu) /\ Sole(job, stored, run, nu, Out) /\ run \in [Runs -> RunRecs]
  BY <1>11 DEF Good, Shapes
<1>14. ASSUME NEW r \in Runs
       PROVE  /\ rm[r] \in RunRecs /\ rm[r].pc = run[r].pc /\ rm[r].job = run[r].job
              /\ RunOwn(rm[r], nu)
              /\ rm[r].job \in Jobs \ Out => RunSole(rm[r], job[rm[r].job], stored[rm[r].job], nu)
              /\ rm[r].reply = Pending => rm[r] = run[r] /\ run[r].id # id
  <2>1. /\ run[r] \in RunRecs /\ RunOwn(run[r], nu)
        /\ run[r].job \in Jobs \ Out => RunSole(run[r], job[run[r].job], stored[run[r].job], nu)
    BY <1>13 DEF Owned, Sole
  <2>2. CASE r \in Waiting(id)
    <3>1. rm[r] = [run[r] EXCEPT !.reply = a] /\ run[r].id = id /\ run[r].reply = Pending
      BY <2>2, <1>4 DEF Waiting
    <3>2. /\ rm[r] \in RunRecs /\ rm[r].pc = run[r].pc /\ rm[r].job = run[r].job
          /\ rm[r].id = id /\ rm[r].reply = a
      BY <3>1, <2>1 DEF RunRecs
    <3>3. /\ run[r].pc \in {"put", "complete"}
          /\ run[r].pc = "complete" => uploads[id].offset = Size
      BY <3>1, <1>6 DEF Waited
    <3>4. id # 0 /\ nu[id].file = run[r].job
      BY <3>1, <3>3, <2>1, NoZero DEF RunOwn
    <3>5. a.code = "ok" /\ a.saved => nu[id].status \in {"saved", "past"}
      BY <1>8
    <3>6. a.code = "ok" /\ run[r].pc = "complete" => a.saved
      BY <3>3
    <3>7. RunOwn(rm[r], nu)
      BY <3>2, <3>3, <3>4, <3>5, <3>6, <2>1 DEF RunOwn
    <3>8. rm[r].job \in Jobs \ Out => RunSole(rm[r], job[rm[r].job], stored[rm[r].job], nu)
      <4>1. SUFFICES ASSUME rm[r].job \in Jobs \ Out
                     PROVE  RunSole(rm[r], job[rm[r].job], stored[rm[r].job], nu)
        OBVIOUS
      <4>2. RunSole(run[r], job[rm[r].job], stored[rm[r].job], nu)
        BY <4>1, <3>2, <2>1
      <4>. QED BY <4>2, <3>1, <3>2, <3>3 DEF RunSole
    <3>. QED BY <3>2, <3>7, <3>8, <1>12
  <2>3. CASE r \notin Waiting(id)
    <3>1. rm[r] = run[r] /\ (run[r].reply = Pending => run[r].id # id)
      BY <2>3, <1>4 DEF Waiting
    <3>. QED BY <3>1, <2>1
  <2>. QED BY <2>2, <2>3
<1>15. rm \in [Runs -> RunRecs]
  BY <1>4, <1>14
<1>16. Good(job, stored, rm, nu, Out) /\ Taken(job, rm)
  BY <1>6, <1>11, <1>14, <1>15, AnswersKeep
<1>17. Waited(rm, nu)
  BY <1>6, <1>8, <1>14 DEF Waited
<1>18. Out' = Out
  <2>1. Forgot(nu) = Forgot(uploads)
    BY <1>8, <1>9, ForgotSame
  <2>. QED BY <2>1, <1>5 DEF Out
<1>. QED BY <1>5, <1>16, <1>17, <1>18 DEF IInv

\* However a handler ends, and whether or not somebody still waits for it.
LEMMA HandlerKeeps ==
  ASSUME IInv, NEW id \in Ids, Handler(id)
  PROVE  IInv'
<1>1. uploads[id] \in UploadRecs /\ uploads[id].status = "open"
  <2>1. uploads[id].busy
    BY DEF Handler, Written, Linked, HandlerFails, Finish
  <2>. QED BY <2>1 DEF IInv, Good, Shapes, Owned
<1>2. CASE Written(id)
  <2>1. PICK u : u = [uploads[id] EXCEPT !.offset = @ + 1]
    OBVIOUS
  <2>2. PICK w : w = [u EXCEPT !.busy = FALSE]
    OBVIOUS
  <2>3. PICK a : a = Say("ok", id, u)
    OBVIOUS
  <2>4. /\ uploads[id].busy /\ uploads' = [uploads EXCEPT ![id] = w]
        /\ run' = [r \in Runs |-> IF r \in Waiting(id) THEN [run[r] EXCEPT !.reply = a] ELSE run[r]]
        /\ UNCHANGED <<job, stored, overlapped>>
    BY <2>1, <2>2, <2>3, <1>2 DEF Written, Finish
  <2>5. u \in UploadRecs /\ u.file = uploads[id].file /\ u.status = "open"
    BY <2>1, <1>1 DEF UploadRecs
  <2>6. /\ w \in UploadRecs /\ w.file = uploads[id].file /\ ~w.busy /\ w.status = u.status
        /\ a \in Replies /\ a.code = "ok" /\ a.id = id /\ a.saved = (u.status = "saved")
    BY <2>2, <2>3, <2>5 DEF UploadRecs, Say, Replies, Codes
  <2>7. uploads[id].offset # Size
    BY <1>1, <1>2, PageAssumption DEF Written, UploadRecs
  <2>8. /\ w.status \in {"open", "saved"} /\ (a.saved => w.status = "saved")
        /\ (a.code = "ok" /\ uploads[id].offset = Size => a.saved)
    BY <2>5, <2>6, <2>7
  <2>9. w \in UploadRecs /\ w.file = uploads[id].file /\ ~w.busy /\ a \in Replies
        /\ a.code \in {"ok", "refused"} /\ a.id = id
    BY <2>6
  <2>. QED BY <2>4, <2>8, <2>9, FinishKeeps
<1>3. CASE Linked(id)
  <2>1. PICK u : u = [uploads[id] EXCEPT !.status = "saved"]
    OBVIOUS
  <2>2. PICK w : w = [u EXCEPT !.busy = FALSE]
    OBVIOUS
  <2>3. PICK a : a = Say("ok", id, u)
    OBVIOUS
  <2>4. /\ uploads[id].busy /\ uploads' = [uploads EXCEPT ![id] = w]
        /\ run' = [r \in Runs |-> IF r \in Waiting(id) THEN [run[r] EXCEPT !.reply = a] ELSE run[r]]
        /\ UNCHANGED <<job, stored, overlapped>>
    BY <2>1, <2>2, <2>3, <1>3 DEF Linked, Finish
  <2>5. u \in UploadRecs /\ u.file = uploads[id].file /\ u.status = "saved"
    BY <2>1, <1>1 DEF UploadRecs
  <2>6. /\ w \in UploadRecs /\ w.file = uploads[id].file /\ ~w.busy /\ w.status = u.status
        /\ a \in Replies /\ a.code = "ok" /\ a.id = id /\ a.saved = (u.status = "saved")
    BY <2>2, <2>3, <2>5 DEF UploadRecs, Say, Replies, Codes
  <2>7. /\ w.status \in {"open", "saved"} /\ (a.saved => w.status = "saved")
        /\ (a.code = "ok" /\ uploads[id].offset = Size => a.saved)
    BY <2>5, <2>6
  <2>8. w \in UploadRecs /\ w.file = uploads[id].file /\ ~w.busy /\ a \in Replies
        /\ a.code \in {"ok", "refused"} /\ a.id = id
    BY <2>6
  <2>. QED BY <2>4, <2>7, <2>8, FinishKeeps
<1>4. CASE HandlerFails(id)
  <2>1. PICK u : u = uploads[id]
    OBVIOUS
  <2>2. PICK w : w = [u EXCEPT !.busy = FALSE]
    OBVIOUS
  <2>3. PICK a : a = Say("refused", id, u)
    OBVIOUS
  <2>4. /\ uploads[id].busy /\ uploads' = [uploads EXCEPT ![id] = w]
        /\ run' = [r \in Runs |-> IF r \in Waiting(id) THEN [run[r] EXCEPT !.reply = a] ELSE run[r]]
        /\ UNCHANGED <<job, stored, overlapped>>
    BY <2>1, <2>2, <2>3, <1>4 DEF HandlerFails, Finish
  <2>5. u \in UploadRecs /\ u.file = uploads[id].file /\ u.status = "open"
    BY <2>1, <1>1 DEF UploadRecs
  <2>6. /\ w \in UploadRecs /\ w.file = uploads[id].file /\ ~w.busy /\ w.status = u.status
        /\ a \in Replies /\ a.code = "refused" /\ a.id = id /\ a.saved = (u.status = "saved")
    BY <2>2, <2>3, <2>5 DEF UploadRecs, Say, Replies, Codes
  <2>7. /\ w.status \in {"open", "saved"} /\ (a.saved => w.status = "saved")
        /\ (a.code = "ok" /\ uploads[id].offset = Size => a.saved)
    BY <2>5, <2>6
  <2>8. w \in UploadRecs /\ w.file = uploads[id].file /\ ~w.busy /\ a \in Replies
        /\ a.code \in {"ok", "refused"} /\ a.id = id
    BY <2>6
  <2>. QED BY <2>4, <2>7, <2>8, FinishKeeps
<1>. QED BY <1>2, <1>3, <1>4 DEF Handler

-----------------------------------------------------------------------------
(* The person at the page                                                  *)

\* A job enters the queue, and pump() looks for a slot.
LEMMA QueueKeeps ==
  ASSUME IInv, NEW j \in Jobs, job[j].state \in {"absent", "paused", "error"},
         Pump([job EXCEPT ![j].state = "queued"], stored, run), UNCHANGED <<stored, uploads>>
  PROVE  IInv'
<1>1. PICK jb : jb = [job EXCEPT ![j].state = "queued"]
  OBVIOUS
<1>2. /\ Shapes(job, stored, run, uploads, Out) /\ Owned(job, stored, run, uploads)
      /\ Sole(job, stored, run, uploads, Out) /\ Worked(job, run) /\ Taken(job, run)
  BY DEF IInv, Good
<1>3. /\ jb \in [Jobs -> JobRecs] /\ jb[j].id = job[j].id /\ jb[j].state = "queued"
      /\ \A i \in Jobs \ {j} : jb[i] = job[i]
  BY <1>1, <1>2 DEF Shapes, JobRecs, States
<1>4. Owned(jb, stored, run, uploads)
  <2>1. ASSUME NEW i \in Jobs PROVE JobOwn(jb[i], stored[i], uploads, i)
    BY <1>2, <1>3 DEF Owned, JobOwn
  <2>2. ASSUME NEW t \in Runs, run[t].pc # "idle" PROVE Drops(run[t], jb[run[t].job])
    <3>1. Drops(run[t], job[run[t].job]) /\ run[t].job \in Jobs
      BY <2>2, <1>2 DEF Owned, RunOwn
    <3>. QED BY <3>1, <1>3 DEF Drops
  <2>. QED BY <2>1, <2>2, <1>2 DEF Owned
<1>5. Sole(jb, stored, run, uploads, Out)
  <2>1. ASSUME NEW i \in Jobs \ Out PROVE JobSole(jb[i], stored[i], uploads, i)
    <3>1. JobSole(job[i], stored[i], uploads, i)
      BY <1>2 DEF Sole
    <3>2. CASE i # j
      BY <3>1, <3>2, <1>3
    <3>3. CASE i = j
      BY <3>1, <3>3, <1>3 DEF JobSole, Closed, Known
    <3>. QED BY <3>2, <3>3
  <2>2. ASSUME NEW t \in Runs, run[t].job \in Jobs \ Out
        PROVE  RunSole(run[t], jb[run[t].job], stored[run[t].job], uploads)
    <3>1. RunSole(run[t], job[run[t].job], stored[run[t].job], uploads)
      BY <2>2, <1>2 DEF Sole
    <3>2. CASE run[t].job # j
      BY <3>1, <3>2, <2>2, <1>3
    <3>3. CASE run[t].job = j
      BY <3>1, <3>3, <1>3 DEF RunSole, Closed
    <3>. QED BY <3>2, <3>3
  <2>. QED BY <2>1, <2>2, <1>2 DEF Sole
<1>6. Worked(jb, run)
  BY <1>2, <1>3 DEF Worked
<1>7. Good(jb, stored, run, uploads, Out)
  BY <1>2, <1>3, <1>4, <1>5, <1>6 DEF Good, Shapes
<1>8. \/ Taken(jb, run)
      \/ \E k \in Jobs : \A i \in Jobs : jb[i].state = "queued" => i = k
      \/ \E t \in Runs : \A s \in Runs : run[s].pc = "idle" => s = t
  <2>1. CASE \E i \in Jobs : job[i].state = "queued"
    BY <2>1, <1>2 DEF Taken
  <2>2. CASE ~ \E i \in Jobs : job[i].state = "queued"
    BY <2>2, <1>3
  <2>. QED BY <2>1, <2>2
<1>9. Pump(jb, stored, run)
  BY <1>1
<1>10. Good(job', stored, run', uploads, Out') /\ Taken(job', run') /\ Waited(run', uploads)
  BY <1>7, <1>8, <1>9, PumpKeeps DEF IInv
<1>. QED BY <1>10 DEF IInv

\* Aborting the request of a job changes answers only.
LEMMA AbortedKeeps ==
  ASSUME NEW jb, NEW st, NEW rm, Good(jb, st, run, uploads, Out), NEW j,
         rm = Aborted(j)
  PROVE  /\ Good(jb, st, rm, uploads, Out) /\ (Taken(jb, run) => Taken(jb, rm))
         /\ Waited(run, uploads) => Waited(rm, uploads)
<1>1. /\ Shapes(jb, st, run, uploads, Out) /\ Owned(jb, st, run, uploads)
      /\ Sole(jb, st, run, uploads, Out)
  BY DEF Good
<1>2. ASSUME NEW t \in Runs
      PROVE  /\ rm[t] \in RunRecs /\ rm[t].pc = run[t].pc /\ rm[t].job = run[t].job
             /\ RunOwn(rm[t], uploads)
             /\ \A b, s : RunSole(run[t], b, s, uploads) => RunSole(rm[t], b, s, uploads)
             /\ rm[t].reply = Pending => rm[t] = run[t]
  <2>1. run[t] \in RunRecs /\ RunOwn(run[t], uploads)
    BY <1>1 DEF Shapes, Owned
  <2>2. CASE rm[t] = run[t]
    BY <2>1, <2>2
  <2>3. CASE run[t].pc = "put" /\ rm[t] = [run[t] EXCEPT !.reply = Lost]
    <3>1. run[t].pc # "idle"
      BY <2>3
    <3>2. rm[t].reply = Lost
      BY <2>1, <2>3 DEF RunRecs
    <3>. QED BY <3>1, <3>2, <2>1, <2>3, LostOwn, RecordTypes
  <2>. QED BY <2>2, <2>3 DEF Aborted
<1>3. rm \in [Runs -> RunRecs]
  <2>1. rm = [t \in Runs |-> rm[t]]
    BY DEF Aborted
  <2>. QED BY <2>1, <1>2
<1>4. ASSUME NEW t \in Runs, rm[t].job \in Jobs \ Out
      PROVE  RunSole(rm[t], jb[rm[t].job], st[rm[t].job], uploads)
  <2>1. rm[t].job = run[t].job
    BY <1>2
  <2>2. RunSole(run[t], jb[run[t].job], st[run[t].job], uploads)
    BY <2>1, <1>1, <1>4 DEF Sole
  <2>. QED BY <2>1, <2>2, <1>2
<1>5. Waited(run, uploads) => Waited(rm, uploads)
  BY <1>2 DEF Waited
<1>. QED BY <1>2, <1>3, <1>4, <1>5, AnswersKeep

\* A job that is neither over nor absent is paused or cancelled.
LEMMA MarkKeeps ==
  ASSUME IInv, NEW j \in Jobs, NEW x \in {"paused", "cancelled"},
         job[j].state \notin {"absent", "done", "cancelled", "left"},
         NEW st, st = IF x = "cancelled" THEN [stored EXCEPT ![j] = 0] ELSE stored,
         job' = [job EXCEPT ![j].state = x], stored' = st, run' = Aborted(j),
         UNCHANGED <<uploads, overlapped>>
  PROVE  IInv'
<1>1. PICK jb : jb = [job EXCEPT ![j].state = x]
  OBVIOUS
<1>2. /\ Shapes(job, stored, run, uploads, Out) /\ Owned(job, stored, run, uploads)
      /\ Sole(job, stored, run, uploads, Out) /\ Worked(job, run) /\ Taken(job, run)
  BY DEF IInv, Good
<1>3. /\ jb \in [Jobs -> JobRecs] /\ jb[j].id = job[j].id /\ jb[j].state = x
      /\ \A i \in Jobs \ {j} : jb[i] = job[i]
  BY <1>1, <1>2 DEF Shapes, JobRecs, States
<1>4. /\ st \in [Jobs -> Ids \cup {0}] /\ (st[j] = IF x = "cancelled" THEN 0 ELSE stored[j])
      /\ \A i \in Jobs \ {j} : st[i] = stored[i]
  BY <1>2 DEF Shapes
<1>5. Owned(jb, st, run, uploads)
  <2>1. ASSUME NEW i \in Jobs PROVE JobOwn(jb[i], st[i], uploads, i)
    BY <1>2, <1>3, <1>4 DEF Owned, JobOwn
  <2>2. ASSUME NEW t \in Runs, run[t].pc # "idle" PROVE Drops(run[t], jb[run[t].job])
    <3>1. Drops(run[t], job[run[t].job]) /\ run[t].job \in Jobs
      BY <2>2, <1>2 DEF Owned, RunOwn
    <3>. QED BY <3>1, <1>3 DEF Drops
  <2>. QED BY <2>1, <2>2, <1>2 DEF Owned
<1>6. Sole(jb, st, run, uploads, Out)
  <2>1. ASSUME NEW i \in Jobs \ Out PROVE JobSole(jb[i], st[i], uploads, i)
    <3>1. JobSole(job[i], stored[i], uploads, i)
      BY <1>2 DEF Sole
    <3>2. CASE i # j
      BY <3>1, <3>2, <1>3, <1>4
    <3>3. CASE i = j
      BY <3>1, <3>3, <1>3, <1>4 DEF JobSole, Closed, Known
    <3>. QED BY <3>2, <3>3
  <2>2. ASSUME NEW t \in Runs, run[t].job \in Jobs \ Out
        PROVE  RunSole(run[t], jb[run[t].job], st[run[t].job], uploads)
    <3>1. RunSole(run[t], job[run[t].job], stored[run[t].job], uploads)
      BY <2>2, <1>2 DEF Sole
    <3>2. CASE run[t].job # j
      BY <3>1, <3>2, <2>2, <1>3, <1>4
    <3>3. CASE run[t].job = j
      BY <3>1, <3>3, <1>3, <1>4 DEF RunSole, Closed
    <3>. QED BY <3>2, <3>3
  <2>. QED BY <2>1, <2>2, <1>2 DEF Sole
<1>7. Worked(jb, run)
  BY <1>2, <1>3 DEF Worked
<1>8. Taken(jb, run)
  BY <1>2, <1>3 DEF Taken
<1>9. Good(jb, st, run, uploads, Out)
  BY <1>2, <1>3, <1>4, <1>5, <1>6, <1>7 DEF Good, Shapes
<1>10. PICK rm : rm = Aborted(j)
  OBVIOUS
<1>11. Good(jb, st, rm, uploads, Out) /\ Taken(jb, rm) /\ Waited(rm, uploads)
  BY <1>8, <1>9, <1>10, AbortedKeeps DEF IInv
<1>. QED BY <1>1, <1>10, <1>11 DEF IInv, Out

\* One attempt of the cancel handler.
LEMMA CancelTryKeeps ==
  ASSUME IInv, NEW j \in Jobs, CancelTry(j)
  PROVE  IInv'
<1>1. UNCHANGED <<job, stored, run, overlapped>>
  BY DEF CancelTry
<1>2. PICK id : id = job[j].id
  OBVIOUS
<1>3. CASE UNCHANGED uploads
  BY <1>1, <1>3 DEF IInv, Out
<1>4. CASE Live(id) /\ uploads[id].status = "open" /\ ~uploads[id].busy
           /\ uploads' = [uploads EXCEPT ![id].status = "dropped"]
  <2>1. id \in Ids \cup {0}
    BY <1>2 DEF IInv, Good, Shapes, JobRecs
  <2>2. id \in Ids
    BY <2>1, <1>4 DEF Live
  <2>. QED BY <2>2, <1>1, <1>4, EndingKeeps
<1>5. \/ UNCHANGED uploads
      \/ /\ Live(id) /\ uploads[id].status = "open" /\ ~uploads[id].busy
         /\ uploads' = [uploads EXCEPT ![id].status = "dropped"]
  BY <1>2 DEF CancelTry
<1>. QED BY <1>3, <1>4, <1>5

\* The page is loaded anew: the upload the browser stored is the job's.
LEMMA ReloadKeeps ==
  ASSUME IInv, Reload
  PROVE  IInv'
<1>1. /\ Shapes(job, stored, run, uploads, Out) /\ Owned(job, stored, run, uploads)
      /\ Sole(job, stored, run, uploads, Out)
  BY DEF IInv, Good
<1>2. UNCHANGED <<stored, uploads, Out>> /\ run' = [r \in Runs |-> Idle]
  BY DEF Reload, Out
<1>3. job' = [j \in Jobs |-> IF job[j].state \in {"done", "cancelled", "left"}
                              THEN [Absent EXCEPT !.state = "left"] ELSE Absent]
  BY DEF Reload
<1>4. /\ \A j \in Jobs :
           /\ job'[j] \in JobRecs /\ job'[j].id = 0
           /\ job'[j].state = IF job[j].state \in {"done", "cancelled", "left"} THEN "left" ELSE "absent"
      /\ job' \in [Jobs -> JobRecs]
  BY <1>3, RecordTypes DEF Absent, JobRecs, States
<1>5. \A r \in Runs : run'[r] = Idle
  BY <1>2
<1>6. Shapes(job', stored', run', uploads', Out')
  BY <1>1, <1>2, <1>4, RecordTypes DEF Shapes
<1>7. Owned(job', stored', run', uploads')
  <2>1. ASSUME NEW j \in Jobs PROVE JobOwn(job'[j], stored[j], uploads, j)
    BY <1>1, <1>4 DEF Owned, JobOwn
  <2>2. RunOwn(Idle, uploads) /\ Idle.pc = "idle"
    BY DEF RunOwn, Idle, NoReply
  <2>. QED BY <2>1, <2>2, <1>1, <1>2, <1>5 DEF Owned
<1>8. Sole(job', stored', run', uploads', Out')
  <2>1. ASSUME NEW j \in Jobs \ Out PROVE JobSole(job'[j], stored[j], uploads, j)
    <3>1. JobSole(job[j], stored[j], uploads, j)
      BY <1>1 DEF Sole
    <3>2. job'[j].state \notin Closed => job[j].state \notin Closed
      BY <1>4 DEF Closed
    <3>. QED BY <3>1, <3>2, <1>4 DEF JobSole, Known
  <2>2. Idle.job \notin Jobs
    BY NoZero DEF Idle
  <2>. QED BY <2>1, <2>2, <1>2, <1>5 DEF Sole
<1>9. Worked(job', run') /\ Taken(job', run')
  BY <1>4 DEF Worked, Taken
<1>10. Waited(run', uploads')
  BY <1>5, RecordTypes DEF Waited, Idle
<1>. QED BY <1>6, <1>7, <1>8, <1>9, <1>10 DEF IInv, Good

-----------------------------------------------------------------------------
(* The theorems                                                            *)

\* The page starts without jobs, slots at work or uploads.
LEMMA InitGood == Init => IInv
<1>. SUFFICES ASSUME Init PROVE IInv
  OBVIOUS
<1>1. /\ \A j \in Jobs : job[j] = Absent /\ stored[j] = 0
      /\ \A r \in Runs : run[r] = Idle
      /\ \A i \in Ids : uploads[i].file = 0 /\ uploads[i].status = "free" /\ ~uploads[i].busy
      /\ overlapped = {} /\ Out = {}
  BY DEF Init, Out, Forgot
<1>2. Shapes(job, stored, run, uploads, Out)
  BY <1>1, RecordTypes DEF Init, Shapes, UploadRecs
<1>3. Absent.state = "absent" /\ Absent.id = 0 /\ Idle.pc = "idle" /\ Idle.job = 0
  BY DEF Absent, Idle
<1>4. Owned(job, stored, run, uploads)
  <2>1. RunOwn(Idle, uploads)
    BY DEF RunOwn, Idle, NoReply
  <2>. QED BY <2>1, <1>1, <1>3 DEF Owned, JobOwn
<1>5. Sole(job, stored, run, uploads, Out)
  <2>1. \A j \in Jobs : Holds(uploads, j) = {}
    BY <1>1 DEF Holds
  <2>. QED BY <2>1, <1>1, <1>3, NoZero DEF Sole, JobSole
<1>6. Worked(job, run) /\ Taken(job, run)
  BY <1>1, <1>3 DEF Worked, Taken
<1>7. Waited(run, uploads)
  BY <1>1, RecordTypes DEF Waited, Idle
<1>. QED BY <1>2, <1>4, <1>5, <1>6, <1>7 DEF IInv, Good

\* Every step preserves the inductive invariant.
LEMMA StepGood == IInv /\ [Next]_vars => IInv'
<1>. SUFFICES ASSUME IInv, [Next]_vars PROVE IInv'
  OBVIOUS
<1>1. ASSUME NEW r \in Runs, Handle(r) PROVE IInv'
  BY <1>1, HandleKeeps
<1>2. ASSUME NEW r \in Runs, Serve(r) PROVE IInv'
  BY <1>2, ServeKeeps
<1>3. ASSUME NEW r \in Runs, Lose(r) PROVE IInv'
  BY <1>3, LoseKeeps
<1>4. ASSUME NEW i \in Ids, Expire(i) PROVE IInv'
  <2>1. ~uploads[i].busy /\ UNCHANGED <<job, stored, run, overlapped>>
    BY <1>4 DEF Expire, page
  <2>2. \/ uploads[i].status = "open" /\ uploads' = [uploads EXCEPT ![i].status = "dropped"]
        \/ uploads[i].status = "saved" /\ uploads' = [uploads EXCEPT ![i].status = "past"]
    BY <1>4 DEF Expire
  <2>. QED BY <2>1, <2>2, EndingKeeps
<1>13. ASSUME NEW i \in Ids, Handler(i) PROVE IInv'
  BY <1>13, HandlerKeeps
<1>5. ASSUME NEW j \in Jobs, AddFile(j) PROVE IInv'
  BY <1>5, QueueKeeps DEF AddFile
<1>6. ASSUME NEW j \in Jobs, Pause(j) PROVE IInv'
  <2>1. /\ job[j].state \notin {"absent", "done", "cancelled", "left"}
        /\ job' = [job EXCEPT ![j].state = "paused"] /\ run' = Aborted(j)
        /\ UNCHANGED <<stored, uploads, overlapped>>
    BY <1>6 DEF Pause
  <2>2. PICK st : st = stored
    OBVIOUS
  <2>3. PICK x \in {"paused", "cancelled"} : x = "paused"
    OBVIOUS
  <2>. QED BY <2>1, <2>2, <2>3, MarkKeeps
<1>7. ASSUME NEW j \in Jobs, Resume(j) PROVE IInv'
  BY <1>7, QueueKeeps DEF Resume
<1>8. ASSUME NEW j \in Jobs, Cancel(j) PROVE IInv'
  <2>1. /\ job[j].state \notin {"absent", "done", "cancelled", "left"}
        /\ job' = [job EXCEPT ![j].state = "cancelled"] /\ run' = Aborted(j)
        /\ stored' = [stored EXCEPT ![j] = 0] /\ UNCHANGED <<uploads, overlapped>>
    BY <1>8 DEF Cancel
  <2>2. PICK st : st = [stored EXCEPT ![j] = 0]
    OBVIOUS
  <2>3. PICK x \in {"paused", "cancelled"} : x = "cancelled"
    OBVIOUS
  <2>. QED BY <2>1, <2>2, <2>3, MarkKeeps
<1>9. ASSUME NEW j \in Jobs, CancelTry(j) PROVE IInv'
  BY <1>9, CancelTryKeeps
<1>10. CASE DiskFull
  BY <1>10 DEF DiskFull, page, IInv, Out
<1>11. CASE Reload
  BY <1>11, ReloadKeeps
<1>12. CASE UNCHANGED vars
  BY <1>12 DEF vars, IInv, Out
<1>. QED BY <1>1, <1>2, <1>3, <1>4, <1>5, <1>6, <1>7, <1>8, <1>9, <1>10, <1>11, <1>12, <1>13
     DEF Next

\* The counts of attempts, clicks and losses stay counts.
LEMMA CountersStay == Counters /\ [Next]_vars => Counters'
<1>. SUFFICES ASSUME Counters, [Next]_vars PROVE Counters'
  OBVIOUS
<1>. USE DEF Counters
<1>1. ASSUME NEW r \in Runs, Handle(r) PROVE Counters'
  BY <1>1 DEF Handle
<1>2. ASSUME NEW r \in Runs, Serve(r) PROVE Counters'
  BY <1>2 DEF Serve
<1>3. ASSUME NEW r \in Runs, Lose(r) PROVE Counters'
  BY <1>3 DEF Lose
<1>4. ASSUME NEW i \in Ids, Expire(i) PROVE Counters'
  <2>1. UNCHANGED <<cancelling, full, clicks, gaveUp>> /\ (lost' = lost \/ lost' = lost + 1)
    BY <1>4 DEF Expire, page
  <2>. QED BY <2>1
<1>13. ASSUME NEW i \in Ids, Handler(i) PROVE Counters'
  BY <1>13 DEF Handler, Written, Linked, HandlerFails, Finish
<1>5. ASSUME NEW j \in Jobs, AddFile(j) PROVE Counters'
  BY <1>5 DEF AddFile
<1>6. ASSUME NEW j \in Jobs, Pause(j) PROVE Counters'
  BY <1>6 DEF Pause, Click
<1>7. ASSUME NEW j \in Jobs, Resume(j) PROVE Counters'
  BY <1>7 DEF Resume, Click
<1>8. ASSUME NEW j \in Jobs, Cancel(j) PROVE Counters'
  <2>1. CancelAttempts \in Nat
    BY PageAssumption
  <2>2. /\ cancelling' = [cancelling EXCEPT ![j] = IF job[j].id # 0 THEN CancelAttempts ELSE 0]
        /\ clicks' = clicks + 1 /\ UNCHANGED <<full, lost, gaveUp>>
    BY <1>8 DEF Cancel, Click
  <2>. QED BY <2>1, <2>2
<1>9. ASSUME NEW j \in Jobs, CancelTry(j) PROVE Counters'
  <2>1. cancelling[j] \in Nat /\ cancelling[j] > 0 /\ UNCHANGED <<full, clicks>>
    BY <1>9 DEF CancelTry
  <2>2. cancelling[j] - 1 \in Nat
    BY <2>1
  <2>3. /\ \/ cancelling' = [cancelling EXCEPT ![j] = 0]
           \/ cancelling' = [cancelling EXCEPT ![j] = @ - 1]
        /\ lost' = lost \/ lost' = lost + 1
        /\ gaveUp' \subseteq gaveUp \cup {j}
    BY <1>9 DEF CancelTry
  <2>. QED BY <2>1, <2>2, <2>3
<1>10. CASE DiskFull
  BY <1>10 DEF DiskFull, page
<1>11. CASE Reload
  <2>1. /\ cancelling' = [j \in Jobs |-> 0] /\ clicks' = clicks + 1 /\ lost' = lost + 1
        /\ full' = full /\ gaveUp' = gaveUp
    BY <1>11 DEF Reload, Click
  <2>. QED BY <2>1
<1>12. CASE UNCHANGED vars
  BY <1>12 DEF vars
<1>. QED BY <1>1, <1>2, <1>3, <1>4, <1>5, <1>6, <1>7, <1>8, <1>9, <1>10, <1>11, <1>12, <1>13
     DEF Next

\* The page, the slots and the receiver's uploads agree in every state: who
\* asks for which upload, which one is saved, and what may still be saved.
THEOREM PageInvariant == Spec => []IInv
BY InitGood, StepGood, PTL DEF Spec

\* Jobs, slots, uploads and counters keep their types.
THEOREM PageTypes == Spec => []TypeOK
<1>1. Init => Counters
  <2>. SUFFICES ASSUME Init PROVE Counters
    OBVIOUS
  <2>1. cancelling \in [Jobs -> Nat]
    BY DEF Init
  <2>2. full \in BOOLEAN
    BY DEF Init
  <2>3. clicks \in Nat /\ lost \in Nat /\ gaveUp \subseteq Jobs
    BY DEF Init
  <2>. QED BY <2>1, <2>2, <2>3 DEF Counters
<1>2. IInv /\ Counters => TypeOK
  BY DEF IInv, Good, TypeOK, Shapes, Out
<1>. QED BY <1>1, <1>2, CountersStay, PageInvariant, PTL DEF Spec

\* Whatever the order of pauses, resumes, cancels, failures and reloads, a job
\* shown as uploading has a loop, and one in the queue waits for a slot.
THEOREM PageNoJobStranded == Spec => []NoJobStranded
<1>1. IInv => NoJobStranded
  <2>1. SUFFICES ASSUME IInv, NEW j \in Jobs
                 PROVE  /\ job[j].state = "uploading" => JobRuns(j) # {}
                        /\ job[j].state = "queued" => \A r \in Runs : run[r].pc # "idle"
    BY DEF NoJobStranded
  <2>2. Worked(job, run) /\ Taken(job, run)
    BY <2>1 DEF IInv, Good
  <2>. QED BY <2>2 DEF Worked, Taken, JobRuns
<1>. QED BY <1>1, PageInvariant, PTL

\* A job shown as done was saved, and its file arrives twice only if two loops
\* ran for it at once or the session of a saved upload ran out: while the
\* receiver remembers the upload, lost answers, retries and reloads never
\* repeat it.
THEOREM PageSavedOncePerFile == Spec => []SavedOncePerFile
<1>1. IInv => SavedOncePerFile
  <2>1. SUFFICES ASSUME IInv, NEW j \in Jobs
                 PROVE  /\ job[j].state = "done" => Saved(j) # {}
                        /\ Cardinality(Saved(j)) > 1 =>
                             j \in overlapped \/ \E i \in UploadsOf(j) : uploads[i].status = "past"
    BY DEF SavedOncePerFile
  <2>2. Saved(j) = Saves(uploads, j)
    BY DEF Saved, UploadsOf, Saves
  <2>3. job[j].state = "done" => Saved(j) # {}
    BY <2>1, <2>2 DEF IInv, Good, Owned, JobOwn
  <2>4. ASSUME j \notin overlapped, ~ \E i \in UploadsOf(j) : uploads[i].status = "past"
        PROVE  ~(Cardinality(Saved(j)) > 1)
    <3>1. j \notin Out
      BY <2>4 DEF Out, Forgot, UploadsOf
    <3>2. Saved(j) \subseteq Holds(uploads, j)
      BY <2>4 DEF Saved, UploadsOf, Holds
    <3>3. \A i, k \in Saved(j) : i = k
      BY <3>1, <3>2, <2>1 DEF IInv, Good, Sole, JobSole
    <3>4. CASE Saved(j) = {}
      BY <3>4, FS_EmptySet
    <3>5. CASE Saved(j) # {}
      <4>1. PICK i \in Saved(j) : Saved(j) = {i}
        BY <3>3, <3>5
      <4>2. Cardinality({i}) = 1
        BY FS_Singleton
      <4>. QED BY <4>1, <4>2
    <3>. QED BY <3>4, <3>5
  <2>. QED BY <2>3, <2>4
<1>. QED BY <1>1, PageInvariant, PTL
=============================================================================
