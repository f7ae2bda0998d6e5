---------------------------- MODULE ReceivePage ----------------------------
(***************************************************************************)
(* The page the receiver serves to the sending browser (ReceivePage.ts):   *)
(* a list of jobs, a small number of upload loops (`run`) that drain it,   *)
(* and the buttons that pause, resume and cancel a job while a loop is     *)
(* between two awaits.  The loop keeps its own chunk offset and its own    *)
(* request; the job's state, upload id, offset and current XMLHttpRequest  *)
(* are shared by every loop that runs for it.  The receiver is reduced to  *)
(* what the page can see of it (ReceiveServer.tla has the detail): a chunk *)
(* or a completion is in the hands of a handler for a while, which goes on *)
(* when the page has given its request up, and meanwhile every other       *)
(* request that would change the upload is refused.                        *)
(*                                                                         *)
(* Bounds: MaxClicks on pauses, resumes, cancels and reloads; MaxLost on   *)
(* what goes wrong (a lost request or reply, an open session that runs     *)
(* out, a reload, a full disk; a saved session may run out at any time);   *)
(* Ids on the uploads the receiver ever opens (it refuses further ones);   *)
(* Attempts and CancelAttempts for the four attempts at a chunk and the    *)
(* five at a DELETE; Size for the chunks of a file.                        *)
(***************************************************************************)
EXTENDS Naturals, FiniteSets, FiniteSetsExt

CONSTANTS Jobs,       \* the files, in the order they are added: 1..n
          Runs,       \* the slots of pump(): 1..2, 1..1 for a `once' link
          Ids,        \* the upload ids: 1..n
          Size, Attempts, CancelAttempts, MaxClicks, MaxLost

ASSUME PageAssumption ==
  /\ Jobs \subseteq Nat \ {0} /\ Runs \subseteq Nat \ {0} /\ Ids \subseteq Nat \ {0}
  /\ {Size, Attempts, CancelAttempts} \subseteq Nat \ {0}
  /\ {MaxClicks, MaxLost} \subseteq Nat

VARIABLES
  job,        \* [Jobs -> state, id, offset, xhr]: the entries of `jobs'
  stored,     \* [Jobs -> upload id or 0]: the browser's localStorage
  run,        \* [Runs -> the await a loop is at]
  cancelling, \* [Jobs -> DELETE attempts the cancel handler still has]
  uploads,    \* [Ids -> file, offset, status, busy]: the receiver's sessions;
              \* `past' is a saved one it no longer knows
  full,       \* the receiver can write no more chunks
  clicks, lost,
  overlapped, \* jobs for which two loops ever ran at once (history)
  gaveUp      \* jobs whose last DELETE met a busy upload (history)

page == <<job, stored, run, cancelling>>
vars == <<job, stored, run, cancelling, uploads, full, clicks, lost, overlapped, gaveUp>>

Requests == {"look", "open", "put", "ask", "complete", "confirm", "drop"}
NoReply == [code |-> "none", id |-> 0, offset |-> 0, saved |-> FALSE]
Lost    == [NoReply EXCEPT !.code = "lost"]
Pending == [NoReply EXCEPT !.code = "pending"]    \* in a handler's hands
Idle    == [pc |-> "idle", job |-> 0, id |-> 0, off |-> 0, try |-> 0, reply |-> NoReply]
Absent  == [state |-> "absent", id |-> 0, offset |-> 0, xhr |-> 0]

Init ==
  /\ job = [j \in Jobs |-> Absent] /\ stored = [j \in Jobs |-> 0]
  /\ run = [r \in Runs |-> Idle] /\ cancelling = [j \in Jobs |-> 0]
  /\ uploads = [i \in Ids |-> [file |-> 0, offset |-> 0, status |-> "free", busy |-> FALSE]]
  /\ full = FALSE /\ clicks = 0 /\ lost = 0 /\ overlapped = {} /\ gaveUp = {}

-----------------------------------------------------------------------------
(* The loop: what it does between two awaits. *)

\* The upload session() resumes: the job's own, else the one remembered.
Known(b, s) == IF b.id # 0 THEN b.id ELSE s

\* pump(): one slot falls free or one job is queued at a time, so at most one
\* job starts; its run() goes up to the first request of session().
Pump(jb, st, rn) ==
  LET queued == {j \in Jobs : jb[j].state = "queued"}
      free   == {r \in Runs : rn[r].pc = "idle"}
  IN  IF queued = {} \/ free = {}
      THEN job' = jb /\ run' = rn /\ overlapped' = overlapped
      ELSE LET j == Min(queued)
               k == Known(jb[j], st[j])
           IN  /\ job' = [jb EXCEPT ![j].state = "uploading"]
               /\ run' = [rn EXCEPT ![Min(free)] =
                            [Idle EXCEPT !.pc = IF k = 0 THEN "open" ELSE "look",
                                         !.job = j, !.id = k]]
               /\ overlapped' = overlapped \cup {i \in {j} : \E r \in Runs : rn[r].job = i}

\* run() goes on to its next await.
Await(jb, st, r, next) ==
  job' = jb /\ stored' = st /\ run' = [run EXCEPT ![r] = next] /\ UNCHANGED overlapped

\* A request for upload `id'; its answer is not there yet.
Ask(r, pc, id) == [run[r] EXCEPT !.pc = pc, !.id = id, !.reply = NoReply]

\* run() ends: `finally(()=>{running--;pump()})'.
Return(jb, st, r) == stored' = st /\ Pump(jb, st, [run EXCEPT ![r] = Idle])

\* Slip: the outer catch leaves the job as it is.
FailSilently(r) == Return(job, stored, r)
\* The outer catch: only a job that is still uploading becomes an error.
Fail(r) ==
  Return([job EXCEPT ![run[r].job].state = IF @ = "uploading" THEN "error" ELSE @], stored, r)

Done(r) ==
  LET j == run[r].job
  IN  Return([job EXCEPT ![j].offset = Size, ![j].state = "done"], [stored EXCEPT ![j] = 0], r)

\* The head of the chunk loop and what follows it.
Loop(jb, st, r) ==
  LET b == jb[run[r].job]
  IN  \/ b.state # "uploading" /\ Return(jb, st, r)
      \/ /\ b.state = "uploading" /\ b.offset < Size
         /\ Await(jb, st, r, [Ask(r, "hash", 0) EXCEPT !.off = b.offset, !.try = 0])
      \/ /\ b.state = "uploading" /\ b.offset >= Size
         /\ Await(jb, st, r, Ask(r, "complete", b.id))

\* Slip: session() is over and nobody looks for a cancel.
AfterSessionOn(jb, st, r) == Loop(jb, st, r)
\* After session(): a job cancelled meanwhile drops the upload it now has.
AfterSession(jb, st, r) ==
  LET b == jb[run[r].job]
  IN  \/ b.state = "cancelled" /\ Await(jb, st, r, Ask(r, "drop", b.id))
      \/ b.state # "cancelled" /\ Loop(jb, st, r)

Reply(r, pc) == run[r].pc = pc /\ run[r].reply \notin {NoReply, Pending}

\* session(), GET: a saved upload is done, an unknown one is replaced.
Look(r) ==
  /\ Reply(r, "look")
  /\ LET q == run[r].reply
         j == run[r].job
     IN  \/ q.code = "lost" /\ Fail(r)
         \/ /\ q.code = "gone"
            /\ Await([job EXCEPT ![j].id = 0], [stored EXCEPT ![j] = 0], r, Ask(r, "open", 0))
         \/ /\ q.code = "ok"
            /\ AfterSession([job EXCEPT ![j].id = q.id, ![j].offset = q.offset,
                                        ![j].state = IF q.saved THEN "done" ELSE @],
                            [stored EXCEPT ![j] = IF q.saved THEN 0 ELSE @], r)

\* session(), POST.
Open(r) ==
  /\ Reply(r, "open")
  /\ LET q == run[r].reply
         j == run[r].job
     IN  \/ q.code # "ok" /\ Fail(r)
         \/ /\ q.code = "ok"
            /\ AfterSession([job EXCEPT ![j].id = q.id, ![j].offset = q.offset],
                            [stored EXCEPT ![j] = q.id], r)

\* The head of an attempt: sendChunk, or a return that leaves the chunk unsent.
Attempt(r, try) ==
  LET j == run[r].job
  IN  \/ job[j].state # "uploading" /\ Return(job, stored, r)
      \/ /\ job[j].state = "uploading"
         /\ Await([job EXCEPT ![j].xhr = r], stored, r,
                  [Ask(r, "put", job[j].id) EXCEPT !.try = try])

\* sha256 or the pause between two attempts is over.
Hashed(r)  == run[r].pc = "hash" /\ Attempt(r, 0)
\* Slip: the attempts are not counted.
BackoffForever(r) == run[r].pc = "backoff" /\ Attempt(r, 0)
Backoff(r) == run[r].pc = "backoff" /\ Attempt(r, run[r].try + 1)

\* onload, onerror and onabort clear job.xhr, whosever it is by now.
Put(r) ==
  /\ Reply(r, "put")
  /\ LET q == run[r].reply
         j == run[r].job
         b == [job EXCEPT ![j].xhr = 0]
     IN  \/ q.code = "ok" /\ Loop([b EXCEPT ![j].offset = q.offset], stored, r)
         \/ q.code # "ok" /\ b[j].state # "uploading" /\ Return(b, stored, r)
         \/ /\ q.code # "ok" /\ b[j].state = "uploading"
            /\ Await(b, stored, r, Ask(r, "ask", b[j].id))

\* The receiver's offset decides: further than this chunk, it was received.
Asked(r) ==
  /\ Reply(r, "ask")
  /\ LET q == run[r].reply
         b == [job EXCEPT ![run[r].job].offset = q.offset]
     IN  \/ q.code # "ok" /\ Fail(r)
         \/ q.code = "ok" /\ q.offset > run[r].off /\ Loop(b, stored, r)
         \/ /\ q.code = "ok" /\ q.offset <= run[r].off /\ run[r].try + 1 < Attempts
            /\ Await(b, stored, r, Ask(r, "backoff", 0))
         \/ /\ q.code = "ok" /\ q.offset <= run[r].off /\ run[r].try + 1 >= Attempts
            /\ Return([b EXCEPT ![run[r].job].state = IF @ = "uploading" THEN "error" ELSE @],
                      stored, r)

\* Slip: the answer to the completion is not looked at.
CompletedBlind(r) == Reply(r, "complete") /\ Done(r)
\* A failed completion may have been carried out all the same: ask.
Completed(r) ==
  /\ Reply(r, "complete")
  /\ \/ run[r].reply.code = "ok" /\ Done(r)
     \/ /\ run[r].reply.code # "ok"
        /\ Await(job, stored, r, Ask(r, "confirm", job[run[r].job].id))

Confirmed(r) ==
  /\ Reply(r, "confirm")
  /\ \/ run[r].reply.code = "ok" /\ run[r].reply.saved /\ Done(r)
     \/ ~(run[r].reply.code = "ok" /\ run[r].reply.saved) /\ Fail(r)

Dropped(r) == Reply(r, "drop") /\ Return(job, stored, r)

Handle(r) ==
  /\ \/ Look(r) \/ Open(r) \/ Hashed(r) \/ Put(r) \/ Asked(r) \/ Backoff(r)
     \/ Completed(r) \/ Confirmed(r) \/ Dropped(r)
  /\ UNCHANGED <<cancelling, uploads, full, clicks, lost, gaveUp>>

-----------------------------------------------------------------------------
(* The receiver, as far as the page sees it, and the network. *)

Live(id) == id # 0 /\ uploads[id].status \in {"open", "saved"}
Gone == [NoReply EXCEPT !.code = "gone"]
Say(code, id, u) ==
  [code |-> code, id |-> id, offset |-> u.offset, saved |-> u.status = "saved"]

\* One handler at a time changes an upload.
Accepted(r, u) ==
  CASE run[r].pc = "put" -> u.status = "open" /\ ~u.busy /\ u.offset = run[r].off /\ u.offset < Size
    [] run[r].pc = "complete" -> u.status = "saved" \/ (~u.busy /\ u.offset = Size)
    [] run[r].pc = "drop" -> u.status = "open" /\ ~u.busy
    [] OTHER -> TRUE
\* A chunk and a first completion stay in their handler's hands.
Takes(r, u) == run[r].pc = "put" \/ (run[r].pc = "complete" /\ u.status = "open")

Serve(r) ==
  /\ run[r].pc \in Requests /\ run[r].reply = NoReply
  /\ LET q == run[r]
         id == q.id
         free == {i \in Ids : uploads[i].status = "free"}
         Answer(a) == run' = [run EXCEPT ![r].reply = a]
     IN  \/ /\ q.pc = "open" /\ free # {}
            /\ LET new == [file |-> q.job, offset |-> 0, status |-> "open", busy |-> FALSE]
               IN  uploads' = [uploads EXCEPT ![Min(free)] = new] /\ Answer(Say("ok", Min(free), new))
         \/ q.pc = "open" /\ free = {} /\ Answer([NoReply EXCEPT !.code = "refused"]) /\ UNCHANGED uploads
         \/ q.pc # "open" /\ ~Live(id) /\ Answer(Gone) /\ UNCHANGED uploads
         \/ /\ q.pc # "open" /\ Live(id) /\ Accepted(r, uploads[id]) /\ Takes(r, uploads[id])
            /\ uploads' = [uploads EXCEPT ![id].busy = TRUE] /\ Answer(Pending)
         \/ /\ q.pc # "open" /\ Live(id) /\ Accepted(r, uploads[id]) /\ ~Takes(r, uploads[id])
            /\ uploads' = IF q.pc = "drop" THEN [uploads EXCEPT ![id].status = "dropped"] ELSE uploads
            /\ Answer(Say("ok", id, uploads[id]))
         \/ /\ q.pc # "open" /\ Live(id) /\ ~Accepted(r, uploads[id])
            /\ Answer(Say("refused", id, uploads[id])) /\ UNCHANGED uploads
  /\ UNCHANGED <<job, stored, cancelling, full, clicks, lost, overlapped, gaveUp>>

\* The loops that still wait for the handler of upload `id'.
Waiting(id) == {r \in Runs : run[r].id = id /\ run[r].reply = Pending}

\* The handler ends: it leaves `u' behind and answers whoever still waits.
Finish(id, u, code) ==
  /\ uploads[id].busy
  /\ uploads' = [uploads EXCEPT ![id] = [u EXCEPT !.busy = FALSE]]
  /\ run' = [r \in Runs |-> IF r \in Waiting(id) THEN [run[r] EXCEPT !.reply = Say(code, id, u)]
                                                  ELSE run[r]]
  /\ UNCHANGED <<job, stored, cancelling, full, clicks, lost, overlapped, gaveUp>>

\* The chunk is written, also for a page that no longer waits for it.
Written(id) ==
  uploads[id].offset < Size /\ ~full /\ Finish(id, [uploads[id] EXCEPT !.offset = @ + 1], "ok")
\* The finished file has its name.
Linked(id) ==
  uploads[id].offset = Size /\ Finish(id, [uploads[id] EXCEPT !.status = "saved"], "ok")
\* No room for the chunk or the name, or a chunk whose request was cut.
HandlerFails(id) ==
  /\ full \/ (uploads[id].offset < Size /\ Waiting(id) = {})
  /\ Finish(id, uploads[id], "refused")
Handler(id) == Written(id) \/ Linked(id) \/ HandlerFails(id)

\* A request that never arrives or whose answer never comes back; a handler
\* that has it in its hands goes on.
Lose(r) ==
  /\ lost < MaxLost /\ run[r].pc \in Requests /\ run[r].reply # Lost
  /\ run' = [run EXCEPT ![r].reply = Lost] /\ lost' = lost + 1
  /\ UNCHANGED <<job, stored, cancelling, uploads, full, clicks, overlapped, gaveUp>>

\* cleanup: a session in nobody's hands runs out, a saved one too.
Expire(id) ==
  /\ ~uploads[id].busy
  /\ \/ /\ uploads[id].status = "open" /\ lost < MaxLost /\ lost' = lost + 1
        /\ uploads' = [uploads EXCEPT ![id].status = "dropped"]
     \/ /\ uploads[id].status = "saved" /\ UNCHANGED lost
        /\ uploads' = [uploads EXCEPT ![id].status = "past"]
  /\ UNCHANGED <<page, full, clicks, overlapped, gaveUp>>

\* Its disk fills up: from now on no chunk is kept.
DiskFull ==
  /\ ~full /\ lost < MaxLost
  /\ full' = TRUE /\ lost' = lost + 1
  /\ UNCHANGED <<page, uploads, clicks, overlapped, gaveUp>>

-----------------------------------------------------------------------------
(* The person at the page. *)

Click == clicks < MaxClicks /\ clicks' = clicks + 1

\* addFiles: a job for a file that has none, then pump().
AddFile(j) ==
  /\ job[j].state = "absent" /\ \A i \in Jobs : i < j => job[i].state # "absent"
  /\ Pump([job EXCEPT ![j].state = "queued"], stored, run)
  /\ UNCHANGED <<stored, cancelling, uploads, full, clicks, lost, gaveUp>>

\* abort() of the job's current request: its loop sees `Upload paused'.
Aborted(j) ==
  [r \in Runs |-> IF r = job[j].xhr /\ run[r].pc = "put" THEN [run[r] EXCEPT !.reply = Lost] ELSE run[r]]

Pause(j) ==
  /\ Click /\ job[j].state = "uploading"
  /\ job' = [job EXCEPT ![j].state = "paused"] /\ run' = Aborted(j)
  /\ UNCHANGED <<stored, cancelling, uploads, full, lost, overlapped, gaveUp>>

\* Resume and Retry.
Resume(j) ==
  /\ Click /\ job[j].state \in {"paused", "error"}
  /\ Pump([job EXCEPT ![j].state = "queued"], stored, run)
  /\ UNCHANGED <<stored, cancelling, uploads, full, lost, gaveUp>>

Cancel(j) ==
  /\ Click /\ job[j].state \notin {"absent", "done", "cancelled", "left"}
  /\ job' = [job EXCEPT ![j].state = "cancelled"] /\ run' = Aborted(j)
  /\ stored' = [stored EXCEPT ![j] = 0]
  /\ cancelling' = [cancelling EXCEPT ![j] = IF job[j].id # 0 THEN CancelAttempts ELSE 0]
  /\ UNCHANGED <<uploads, full, lost, overlapped, gaveUp>>

\* One DELETE of the cancel handler, with the id the job has by then: an
\* upload in a handler's hands and a saved one are not deleted (409).
CancelTry(j) ==
  /\ cancelling[j] > 0
  /\ LET id == job[j].id
         Again == cancelling' = [cancelling EXCEPT ![j] = @ - 1]
     IN  \/ /\ ~Live(id) /\ UNCHANGED <<uploads, lost, gaveUp>>
            /\ cancelling' = [cancelling EXCEPT ![j] = 0]
         \/ /\ Live(id) /\ uploads[id].status = "open" /\ ~uploads[id].busy
            /\ uploads' = [uploads EXCEPT ![id].status = "dropped"]
            /\ cancelling' = [cancelling EXCEPT ![j] = 0] /\ UNCHANGED <<lost, gaveUp>>
         \/ /\ Live(id) /\ uploads[id].status = "saved"
            /\ Again /\ UNCHANGED <<uploads, lost, gaveUp>>
         \/ /\ Live(id) /\ uploads[id].busy /\ Again /\ UNCHANGED <<uploads, lost>>
            /\ gaveUp' = gaveUp \cup {i \in {j} : cancelling[j] = 1}
         \/ /\ lost < MaxLost /\ lost' = lost + 1 /\ Again /\ UNCHANGED <<uploads, gaveUp>>
  /\ UNCHANGED <<job, stored, run, full, clicks, overlapped>>

\* The page is reloaded: what the browser stored is all that is left, and the
\* files that were done or cancelled are not chosen again.
Reload ==
  /\ Click /\ lost < MaxLost /\ lost' = lost + 1
  /\ job' = [j \in Jobs |-> IF job[j].state \in {"done", "cancelled", "left"}
                             THEN [Absent EXCEPT !.state = "left"] ELSE Absent]
  /\ run' = [r \in Runs |-> Idle] /\ cancelling' = [j \in Jobs |-> 0]
  /\ UNCHANGED <<stored, uploads, full, overlapped, gaveUp>>

Next ==
  \/ \E r \in Runs : Handle(r) \/ Serve(r) \/ Lose(r)
  \/ \E i \in Ids : Expire(i) \/ Handler(i)
  \/ \E j \in Jobs : AddFile(j) \/ Pause(j) \/ Resume(j) \/ Cancel(j) \/ CancelTry(j)
  \/ DiskFull \/ Reload

Fairness ==
  /\ \A r \in Runs : WF_vars(Handle(r)) /\ WF_vars(Serve(r))
  /\ \A i \in Ids : WF_vars(Handler(i))
  /\ \A j \in Jobs : WF_vars(CancelTry(j))

Spec == Init /\ [][Next]_vars /\ Fairness

-----------------------------------------------------------------------------
(* Properties. *)

JobRuns(j) == {r \in Runs : run[r].job = j}
UploadsOf(j) == {i \in Ids : uploads[i].file = j}
Saved(j) == {i \in UploadsOf(j) : uploads[i].status \in {"saved", "past"}}

\* A job shown as uploading has a loop that works on it, and a job waits in
\* the queue only while every slot is taken: no order of pauses, resumes,
\* cancels and failures strands a job, whichever await they hit.
NoJobStranded ==
  \A j \in Jobs :
    /\ job[j].state = "uploading" => JobRuns(j) # {}
    /\ job[j].state = "queued" => \A r \in Runs : run[r].pc # "idle"

\* A job shown as done was saved by the receiver, and its file arrives twice
\* only if two loops ran for the job at once (a pause and a resume inside one
\* await) or the session of a saved upload ran out before the page had heard
\* of the save: while the receiver remembers the upload, lost answers,
\* retries and reloads never repeat it.
SavedOncePerFile ==
  \A j \in Jobs :
    /\ job[j].state = "done" => Saved(j) # {}
    /\ Cardinality(Saved(j)) > 1 =>
         j \in overlapped \/ \E i \in UploadsOf(j) : uploads[i].status = "past"

\* The page loses track of an upload it opened only through a lost message, a
\* reload, two loops for one job or a chunk that its handler still holds when
\* the last DELETE comes: otherwise cancelling a job ends with no open upload
\* of it at the receiver, wherever the cancel finds the loop.
CancelLeavesNothing ==
  \A j \in Jobs :
    (job[j].state = "cancelled") ~>
      (\/ \A i \in UploadsOf(j) : uploads[i].status # "open"
       \/ lost > 0 \/ j \in overlapped \cup gaveUp \/ job[j].state # "cancelled")

\* An upload that is not paused or cancelled ends, as done or as an error.
UploadSettles == \A j \in Jobs : (job[j].state = "uploading") ~> (job[j].state # "uploading")
=============================================================================
