---------------------------- MODULE ReceiveServer ----------------------------
(***************************************************************************)
(* The upload server behind `tunli receive' (src/receive/ReceiveServer.ts)  *)
(* with the way the command starts and stops it                            *)
(* (src/commands/CommandReceive/CommandReceive.ts).                        *)
(*                                                                         *)
(* Every HTTP request runs one async handler.  A handler runs without      *)
(* interruption up to its next await; there the others run.  So each       *)
(* action below is the code between two awaits, and pc says which await a  *)
(* handler is at.  A part file and the file it is saved as are hard links  *)
(* to the same bytes, hence `content' belongs to the upload.               *)
(*                                                                         *)
(* Left out: GET requests (they change only updatedAt) and time itself     *)
(* (any idle session may be past its TTL when the cleanup timer fires).    *)
(* Removing a part file is assumed to succeed, and so is closing one that  *)
(* was just created; each other file operation may fail.                   *)
(***************************************************************************)
EXTENDS Integers, Sequences, FiniteSets

CONSTANTS
  Uploads,         \* session ids the server may generate, each used once
  Requests,        \* requests that can be in progress together
  Names,           \* file names the senders ask for, as sequences
  Sizes,           \* file sizes they announce and the server accepts
  ChunkSize,       \* CHUNK_SIZE
  MaxSessions,     \* MAX_SESSIONS
  MaxSuffix,       \* bound: highest number put behind a name
  NoUpload,        \* no session; an unused file name
  OtherFile        \* a file of the directory that is not ours

ASSUME ReceiveAssumption ==
  /\ ChunkSize \in Nat \ {0}
  /\ MaxSessions \in Nat \ {0}
  /\ MaxSuffix \in Nat
  /\ Sizes \subseteq Nat /\ Names # {}
  /\ NoUpload \notin Uploads
  /\ OtherFile \notin Uploads \cup {NoUpload}

\* `archive (1).zip' after `archive.zip'.  A sender may also ask for the
\* numbered name itself.
Candidate(n, i) == IF i = 0 THEN n ELSE Append(n, i)
FileNames == {Candidate(n, i) : n \in Names, i \in 0..MaxSuffix}
Positions == UNION {1..s : s \in Sizes}

VARIABLES
  once,            \* options.once
  server,          \* "open", "closing" (connections cut) or "closed"
  uploads,         \* keys of the Map of sessions
  used,            \* ids generated so far
  name, size, offset, active, saved,   \* the fields of an Upload
  content,         \* bytes of its part file: "none", "junk" or "good"
  temps,           \* sessions whose part file is in the directory
  dir,             \* the directory: file name -> upload, OtherFile or NoUpload
  completed,       \* a file was saved
  creatingOnce,    \* a create is in progress in --once mode
  onceFired,       \* onOnceComplete was called
  pc,              \* the await each request is at
  sess,            \* its upload
  at,              \* its local offset: where its chunk goes
  index,           \* its local index: the number behind the name
  gone,            \* requests whose connection is destroyed
  orphans          \* history: uploads registered after the server had closed

\* What belongs to the sessions, to the directory, to the link, to a request.
record == <<name, size, offset, active, saved>>
files  == <<content, temps, dir>>
link   == <<once, server, completed, creatingOnce, onceFired>>
locals == <<sess, at, index>>
vars   == <<record, files, link, locals, uploads, used, orphans, pc, gone>>

Creating == {"metadata", "opening", "opened"}
Working  == {"writing", "truncating", "linking", "linked", "unlinking"}
Await    == {"idle", "finishing"} \cup Creating \cup Working

Unsaved  == {u \in uploads : ~saved[u]}
Minimum(a, b) == IF a < b THEN a ELSE b
Expected(u) == Minimum(ChunkSize, size[u] - offset[u])

Init ==
  /\ once \in BOOLEAN
  /\ server = "open"
  /\ uploads = {} /\ used = {} /\ orphans = {}
  /\ name = [u \in Uploads |-> CHOOSE n \in Names : TRUE]
  /\ size = [u \in Uploads |-> 0]
  /\ offset = [u \in Uploads |-> 0]
  /\ active = [u \in Uploads |-> FALSE]
  /\ saved = [u \in Uploads |-> FALSE]
  /\ content = [u \in Uploads |-> [p \in Positions |-> "none"]]
  /\ temps = {}
  /\ dir \in [FileNames -> {NoUpload, OtherFile}]
  /\ \A f \in FileNames \ Names : dir[f] = NoUpload
  /\ completed = FALSE /\ creatingOnce = FALSE /\ onceFired = FALSE
  /\ pc = [r \in Requests |-> "idle"]
  /\ sess = [r \in Requests |-> NoUpload]
  /\ at = [r \in Requests |-> 0]
  /\ index = [r \in Requests |-> 0]
  /\ gone = {}

-----------------------------------------------------------------------------
(* Pieces of the handlers                                                  *)

Goto(r, from, to) == pc[r] = from /\ pc' = [pc EXCEPT ![r] = to]

\* The handler returns; its locals are gone.
Return(r, from) ==
  /\ Goto(r, from, "idle")
  /\ sess' = [sess EXCEPT ![r] = NoUpload]
  /\ at' = [at EXCEPT ![r] = 0]
  /\ index' = [index EXCEPT ![r] = 0]
  /\ gone' = gone \ {r}

Discard(S) == uploads' = uploads \ S /\ temps' = temps \ S

Fill(u, S, byte) ==
  content' = [content EXCEPT ![u] = [p \in Positions |->
                                       IF p \in S THEN byte ELSE content[u][p]]]

-----------------------------------------------------------------------------
(* POST uploads: create a session                                          *)

Admit(r) ==
  /\ Goto(r, "idle", "metadata")
  /\ creatingOnce' = IF once THEN TRUE ELSE creatingOnce
  /\ UNCHANGED <<record, files, locals, uploads, used, orphans, gone,
                 once, server, completed, onceFired>>

Used == completed \/ creatingOnce \/ uploads # {}

\* Slip: forgets that a create may be under way.
CreateBeginUnlatched(r) ==
  /\ server = "open"
  /\ ~(once /\ (completed \/ uploads # {}))
  /\ Cardinality(Unsaved) < MaxSessions
  /\ Admit(r)

CreateBegin(r) ==
  /\ server = "open"
  /\ ~(once /\ Used)
  /\ Cardinality(Unsaved) < MaxSessions
  /\ Admit(r)

\* The body does not arrive or is no acceptable name and size.
CreateRejected(r) ==
  /\ Return(r, "metadata")
  /\ creatingOnce' = FALSE
  /\ UNCHANGED <<record, files, uploads, used, orphans, once, server, completed, onceFired>>

\* A valid request: a new id, and the part file is being opened.
CreateValidated(r) ==
  /\ Goto(r, "metadata", "opening")
  /\ \E u \in Uploads \ used, n \in Names, s \in Sizes :
       /\ used' = used \cup {u}
       /\ sess' = [sess EXCEPT ![r] = u]
       /\ name' = [name EXCEPT ![u] = n]
       /\ size' = [size EXCEPT ![u] = s]
  /\ UNCHANGED <<offset, active, saved, files, uploads, orphans, at, index, link, gone>>

OpenPart(r) ==
  /\ Goto(r, "opening", "opened")
  /\ temps' = temps \cup {sess[r]}
  /\ UNCHANGED <<record, content, dir, uploads, used, orphans, locals, link, gone>>

OpenPartFails(r) ==
  /\ Return(r, "opening")
  /\ creatingOnce' = FALSE
  /\ UNCHANGED <<record, files, uploads, used, orphans, once, server, completed, onceFired>>

\* Registered and answered.  Nothing keeps a create that was under way when
\* close() came from registering a session which nothing ends any more.
CreateDone(r) ==
  /\ Return(r, "opened")
  /\ uploads' = uploads \cup {sess[r]}
  /\ orphans' = IF server = "closed" THEN orphans \cup {sess[r]} ELSE orphans
  /\ creatingOnce' = FALSE
  /\ UNCHANGED <<record, files, used, once, server, completed, onceFired>>

-----------------------------------------------------------------------------
(* PUT uploads/<id>: one chunk at the confirmed offset                     *)

\* A request that found its session in the map starts to work on it.
Work(r, u, await) ==
  /\ server = "open" /\ u \in uploads
  /\ Goto(r, "idle", await)
  /\ sess' = [sess EXCEPT ![r] = u]
  /\ active' = [active EXCEPT ![u] = TRUE]
  /\ UNCHANGED <<name, size, offset, saved, files, uploads, used, orphans, index, link, gone>>

PutBegin(r, u) ==
  /\ ~saved[u] /\ ~active[u] /\ Expected(u) > 0
  /\ at' = [at EXCEPT ![r] = offset[u]]
  /\ Work(r, u, "writing")

\* The handler's `expected', computed before the chunk was awaited.
ChunkOf(r) == Minimum(ChunkSize, size[sess[r]] - at[r])

\* Exactly the expected bytes arrived and their digest is right.
PutOk(r) ==
  LET u == sess[r] IN
  /\ Return(r, "writing")
  /\ Fill(u, (at[r] + 1)..(at[r] + ChunkOf(r)), "good")
  /\ offset' = [offset EXCEPT ![u] = offset[u] + ChunkOf(r)]
  /\ active' = [active EXCEPT ![u] = FALSE]
  /\ UNCHANGED <<name, size, saved, temps, dir, uploads, used, orphans, link>>

\* Slip: confirms a chunk before its digest is compared.
PutFailAdvances(r) ==
  LET u == sess[r] IN
  /\ Goto(r, "writing", "truncating")
  /\ Fill(u, (at[r] + 1)..(at[r] + ChunkOf(r)), "junk")
  /\ offset' = [offset EXCEPT ![u] = offset[u] + ChunkOf(r)]
  /\ at' = [at EXCEPT ![r] = offset'[u]]
  /\ UNCHANGED <<name, size, active, saved, temps, dir, uploads, used, orphans,
                 sess, index, link, gone>>

\* A short, long, cut or corrupt chunk: some of its bytes are in the file when
\* the handler goes on to truncate it.
PutFail(r) ==
  LET u == sess[r] IN
  /\ Goto(r, "writing", "truncating")
  /\ \E k \in 0..ChunkOf(r) : Fill(u, (at[r] + 1)..(at[r] + k), "junk")
  /\ at' = [at EXCEPT ![r] = offset[u]]
  /\ UNCHANGED <<record, temps, dir, uploads, used, orphans, sess, index, link, gone>>

\* Truncating to the confirmed offset may fail, unnoticed.
Truncated(r) ==
  LET u == sess[r] IN
  /\ Return(r, "truncating")
  /\ \/ u \in temps /\ Fill(u, {p \in Positions : p > at[r]}, "none")
     \/ UNCHANGED content
  /\ active' = [active EXCEPT ![u] = FALSE]
  /\ UNCHANGED <<name, size, offset, saved, temps, dir, uploads, used, orphans, link>>

-----------------------------------------------------------------------------
(* POST uploads/<id>/complete: link the part file under a free name        *)

\* Slips: completes without every byte, completes what is being completed.
CompleteBeginShort(r, u) ==
  ~saved[u] /\ ~active[u] /\ Work(r, u, "linking") /\ UNCHANGED at
CompleteBeginShared(r, u) ==
  ~saved[u] /\ offset[u] = size[u] /\ Work(r, u, "linking") /\ UNCHANGED at

CompleteBegin(r, u) ==
  /\ ~saved[u] /\ ~active[u] /\ offset[u] = size[u]
  /\ Work(r, u, "linking")
  /\ UNCHANGED at

Target(r) == Candidate(name[sess[r]], index[r])

Link(r) ==
  /\ Goto(r, "linking", "linked")
  /\ sess[r] \in temps /\ dir[Target(r)] = NoUpload
  /\ dir' = [dir EXCEPT ![Target(r)] = sess[r]]
  /\ UNCHANGED <<record, content, temps, uploads, used, orphans, locals, link, gone>>

\* Slip: always tries number 1.
NextNameFirst(r) ==
  /\ Goto(r, "linking", "linking")
  /\ sess[r] \in temps /\ dir[Target(r)] # NoUpload
  /\ index' = [index EXCEPT ![r] = 1]
  /\ UNCHANGED <<record, files, uploads, used, orphans, sess, at, link, gone>>

\* EEXIST: try the next number.
NextName(r) ==
  /\ Goto(r, "linking", "linking")
  /\ sess[r] \in temps /\ dir[Target(r)] # NoUpload /\ index[r] < MaxSuffix
  /\ index' = [index EXCEPT ![r] = index[r] + 1]
  /\ UNCHANGED <<record, files, uploads, used, orphans, sess, at, link, gone>>

\* Any other error, a part file that is gone included.
LinkFails(r) ==
  /\ Return(r, "linking")
  /\ active' = [active EXCEPT ![sess[r]] = FALSE]
  /\ UNCHANGED <<name, size, offset, saved, files, uploads, used, orphans, link>>

Linked(r) ==
  /\ Goto(r, "linked", "unlinking")
  /\ saved' = [saved EXCEPT ![sess[r]] = TRUE]
  /\ completed' = TRUE
  /\ UNCHANGED <<name, size, offset, active, files, uploads, used, orphans, locals, gone,
                 once, server, creatingOnce, onceFired>>

\* Slip: does not subscribe to the end of the response.
UnlinkedKeepsOpen(r) ==
  /\ Return(r, "unlinking")
  /\ temps' = temps \ {sess[r]}
  /\ active' = [active EXCEPT ![sess[r]] = FALSE]
  /\ UNCHANGED <<name, size, offset, saved, content, dir, uploads, used, orphans, link>>

\* The response is sent; in --once mode its 'finish' stops the receiver.
Unlinked(r) ==
  /\ pc[r] = "unlinking"
  /\ temps' = temps \ {sess[r]}
  /\ active' = [active EXCEPT ![sess[r]] = FALSE]
  /\ IF once /\ r \notin gone
       THEN Goto(r, "unlinking", "finishing") /\ UNCHANGED <<locals, gone>>
       ELSE Return(r, "unlinking")
  /\ UNCHANGED <<name, size, offset, saved, content, dir, uploads, used, orphans, link>>

\* The response has left, or the connection was destroyed before.
Finish(r) ==
  /\ Return(r, "finishing")
  /\ onceFired' = IF r \in gone THEN onceFired ELSE TRUE
  /\ UNCHANGED <<record, files, uploads, used, orphans, once, server, completed, creatingOnce>>

\* The connection of a completing request is destroyed.  Earlier in a request
\* this only makes its body fail, which the actions above include.
Hangup(r) ==
  /\ pc[r] \in {"linking", "linked", "unlinking", "finishing"}
  /\ r \notin gone
  /\ gone' = gone \cup {r}
  /\ UNCHANGED <<record, files, uploads, used, orphans, locals, link, pc>>

-----------------------------------------------------------------------------
(* Sessions that end otherwise, and the end of the receiver                *)

\* Slip: forgets the session but not its part file.
CancelKeepsPart(u) ==
  /\ server = "open" /\ u \in uploads /\ ~saved[u] /\ ~active[u]
  /\ uploads' = uploads \ {u}
  /\ UNCHANGED <<record, files, used, orphans, locals, link, pc, gone>>

\* DELETE uploads/<id>.
Cancel(u) ==
  /\ server = "open" /\ u \in uploads /\ ~saved[u] /\ ~active[u]
  /\ Discard({u})
  /\ active' = [active EXCEPT ![u] = TRUE]
  /\ UNCHANGED <<name, size, offset, saved, content, dir, used, orphans, locals, link, pc, gone>>

\* The cleanup timer, which close() clears.
Expire(u) ==
  /\ server = "open" /\ u \in uploads /\ ~active[u]
  /\ Discard({u})
  /\ UNCHANGED <<record, content, dir, used, orphans, locals, link, pc, gone>>

\* close(), on a signal, a failed start or 2 s after onOnceComplete.
Close ==
  /\ server = "open"
  /\ server' = "closing"
  /\ gone' = {r \in Requests : pc[r] # "idle"}
  /\ UNCHANGED <<record, files, uploads, used, orphans, locals, pc,
                 once, completed, creatingOnce, onceFired>>

\* server.close calls back: unsaved sessions are discarded.  Handlers at an
\* await go on afterwards.
CloseDone ==
  /\ server = "closing"
  /\ server' = "closed"
  /\ Discard(Unsaved)
  /\ UNCHANGED <<record, content, dir, used, orphans, locals, pc, gone,
                 once, completed, creatingOnce, onceFired>>

Create(r)   == CreateBegin(r) \/ CreateRejected(r) \/ CreateValidated(r)
               \/ OpenPart(r) \/ OpenPartFails(r) \/ CreateDone(r)
Put(r)      == (\E u \in Uploads : PutBegin(r, u))
               \/ PutOk(r) \/ PutFail(r) \/ Truncated(r)
Complete(r) == (\E u \in Uploads : CompleteBegin(r, u))
               \/ Link(r) \/ NextName(r) \/ LinkFails(r) \/ Linked(r)
               \/ Unlinked(r) \/ Finish(r)

Next ==
  \/ \E r \in Requests : Create(r) \/ Put(r) \/ Complete(r) \/ Hangup(r)
  \/ \E u \in Uploads : Cancel(u) \/ Expire(u)
  \/ Close \/ CloseDone

Spec == Init /\ [][Next]_vars

-----------------------------------------------------------------------------
(* Properties                                                              *)

\* Every variable keeps its type.
TypeOK ==
  /\ once \in BOOLEAN
  /\ server \in {"open", "closing", "closed"}
  /\ uploads \subseteq used /\ used \subseteq Uploads
  /\ name \in [Uploads -> Names]
  /\ size \in [Uploads -> Sizes \cup {0}]
  /\ offset \in [Uploads -> Nat]
  /\ active \in [Uploads -> BOOLEAN]
  /\ saved \in [Uploads -> BOOLEAN]
  /\ content \in [Uploads -> [Positions -> {"none", "junk", "good"}]]
  /\ temps \subseteq used
  /\ dir \in [FileNames -> Uploads \cup {NoUpload, OtherFile}]
  /\ completed \in BOOLEAN /\ creatingOnce \in BOOLEAN /\ onceFired \in BOOLEAN
  /\ pc \in [Requests -> Await]
  /\ sess \in [Requests -> Uploads \cup {NoUpload}]
  /\ at \in [Requests -> Nat]
  /\ index \in [Requests -> 0..MaxSuffix]
  /\ gone \subseteq Requests
  /\ orphans \subseteq Uploads

\* The offset a sender is told to resume from is a multiple of verified
\* chunks: every byte before it is in the part file with a checked digest,
\* however many chunks failed, were cut off or raced before.
ResumePointVerified ==
  \A u \in used :
    /\ offset[u] <= size[u]
    /\ \A p \in 1..offset[u] : content[u][p] = "good"

\* A file that appears under its final name is complete, verified and no
\* longer than announced, and stays so: a part file is the same inode, so a
\* handler that still wrote to it would change the saved file.
SavedComplete ==
  \A f \in FileNames : dir[f] \in Uploads =>
    LET u == dir[f] IN
    \A p \in Positions : content[u][p] = IF p <= size[u] THEN "good" ELSE "none"

\* An upload is saved under one name, whatever retries of complete arrive.
SavedOnce ==
  \A f, g \in FileNames : dir[f] \in Uploads /\ dir[f] = dir[g] => f = g

\* A --once link yields one file at most, across cancelled, expired and
\* concurrent sessions.
OnceAtMostOne ==
  once => Cardinality({f \in FileNames : dir[f] \in Uploads}) <= 1

\* The latch of a --once link is held exactly while a create is in progress:
\* a rejected create gives the link back to the sender.
OnceLatchReleased ==
  once => (creatingOnce <=> \E r \in Requests : pc[r] \in Creating)

\* `active' excludes: a session in the map has one working handler when it is
\* active and none when it is not.
ExclusiveWorker ==
  \A u \in uploads :
    LET workers == {r \in Requests : sess[r] = u /\ pc[r] \in Working} IN
    Cardinality(workers) = IF active[u] THEN 1 ELSE 0

\* Something will still remove the part file of this session: a cancel, the
\* cleanup or the close that is to come, or the handler at work on it.
CanEnd(u) ==
  /\ u \in uploads /\ server # "closed"
  /\ \/ ~saved[u] /\ ~active[u]
     \/ \E r \in Requests : sess[r] = u /\ pc[r] \in Working

\* A part file belongs to a session that can still be resumed, cancelled or
\* discarded, to the create about to register it, or to the complete about to
\* remove it.  The one leak the code has is a create that registers its session
\* after close() has discarded the others (ReceiveServer.ts:249).
PartFilesOwned ==
  \A u \in temps :
    \/ CanEnd(u)
    \/ \E r \in Requests : sess[r] = u /\ pc[r] \in {"opened", "unlinking"}
    \/ u \in orphans

\* Once closed, no received byte is left in a part file, unless its complete
\* is under way.  (A create in progress may still leave an empty one.)
ClosedKeepsNoData ==
  server = "closed" =>
    \A u \in temps :
      \/ \A p \in Positions : content[u][p] = "none"
      \/ \E r \in Requests : sess[r] = u /\ pc[r] = "unlinking"
=============================================================================
