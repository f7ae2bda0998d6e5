------------------------- MODULE ReceiveServerProofs --------------------------
(***************************************************************************)
(* Theorems about ReceiveServer, for any uploads, requests in progress,    *)
(* file names and sizes.                                                   *)
(***************************************************************************)
EXTENDS ReceiveServer, FiniteSetTheorems, TLAPS

\* What a step of Next is, by name.
LEMMA StepCases ==
  ASSUME [Next]_vars,
         NEW G,
         \A r \in Requests : CreateBegin(r) => G,
         \A r \in Requests : CreateRejected(r) => G,
         \A r \in Requests : CreateValidated(r) => G,
         \A r \in Requests : OpenPart(r) => G,
         \A r \in Requests : OpenPartFails(r) => G,
         \A r \in Requests : CreateDone(r) => G,
         \A r \in Requests, u \in Uploads : PutBegin(r, u) => G,
         \A r \in Requests : PutOk(r) => G,
         \A r \in Requests : PutFail(r) => G,
         \A r \in Requests : Truncated(r) => G,
         \A r \in Requests, u \in Uploads : CompleteBegin(r, u) => G,
         \A r \in Requests : Link(r) => G,
         \A r \in Requests : NextName(r) => G,
         \A r \in Requests : LinkFails(r) => G,
         \A r \in Requests : Linked(r) => G,
         \A r \in Requests : Unlinked(r) => G,
         \A r \in Requests : Finish(r) => G,
         \A r \in Requests : Hangup(r) => G,
         \A u \in Uploads : Cancel(u) => G,
         \A u \in Uploads : Expire(u) => G,
         Close => G,
         CloseDone => G,
         UNCHANGED vars => G
  PROVE  G
BY DEF Next, Create, Put, Complete

-----------------------------------------------------------------------------
(* Handlers and their sessions                                             *)

\* A handler past its first checks has a session.
HasSession ==
  \A r \in Requests :
    /\ sess[r] \in used \cup {NoUpload}
    /\ pc[r] \notin {"idle", "metadata"} => sess[r] \in used

\* `active' is set as long as a handler works on the session, even when the
\* session has been dropped from the map meanwhile ...
WorkerActive == \A r \in Requests : pc[r] \in Working => active[sess[r]]

\* ... has one owner ...
OneWorker ==
  \A r, q \in Requests :
    pc[r] \in Working /\ pc[q] \in Working /\ sess[r] = sess[q] => r = q

\* ... and is not left set on a session one can still reach.
ActiveWorked ==
  \A u \in uploads :
    active[u] => \E r \in Requests : pc[r] \in Working /\ sess[r] = u

\* A session no request has worked on.
Fresh(u) ==
  /\ offset[u] = 0 /\ ~active[u] /\ ~saved[u]
  /\ \A p \in Positions : content[u][p] = "none"
  /\ \A f \in FileNames : dir[f] # u

UnusedFresh == \A u \in Uploads \ used : Fresh(u)

\* A session being created belongs to its create alone.
NewFresh ==
  \A r \in Requests :
    pc[r] \in {"opening", "opened"} =>
      /\ sess[r] \notin uploads /\ Fresh(sess[r])
      /\ \A q \in Requests : sess[q] = sess[r] => q = r

Owners == HasSession /\ WorkerActive /\ OneWorker /\ ActiveWorked /\ UnusedFresh /\ NewFresh

\* Every step keeps who works on what.
LEMMA OwnersStep ==
  ASSUME TypeOK, Owners, [Next]_vars
  PROVE  Owners'
<1>. USE ReceiveAssumption DEF TypeOK, Owners, Fresh, Working, Creating, Await, HasSession, WorkerActive, OneWorker, ActiveWorked, UnusedFresh, NewFresh, record, files, link, locals
<1>1. ASSUME NEW r \in Requests, CreateBegin(r) PROVE Owners'
  <2>. USE <1>1 DEF CreateBegin, Admit, Goto
  <2>1. HasSession'
    OBVIOUS
  <2>2. WorkerActive'
    OBVIOUS
  <2>3. OneWorker'
    OBVIOUS
  <2>4. ActiveWorked'
    <3>1. \A w \in Requests : pc[w] \in Working => pc'[w] = pc[w] /\ sess'[w] = sess[w]
      OBVIOUS
    <3>2. active' = active /\ uploads' = uploads
      OBVIOUS
    <3>. QED BY <3>1, <3>2
  <2>5. UnusedFresh'
    OBVIOUS
  <2>6. NewFresh'
    OBVIOUS
  <2>. QED BY <2>1, <2>2, <2>3, <2>4, <2>5, <2>6 DEF Owners
<1>2. ASSUME NEW r \in Requests, CreateRejected(r) PROVE Owners'
  <2>. USE <1>2 DEF CreateRejected, Return, Goto
  <2>1. HasSession'
    OBVIOUS
  <2>2. WorkerActive'
    OBVIOUS
  <2>3. OneWorker'
    OBVIOUS
  <2>4. ActiveWorked'
    OBVIOUS
  <2>5. UnusedFresh'
    OBVIOUS
  <2>6. NewFresh'
    <3>1. ASSUME NEW q \in Requests, pc'[q] \in {"opening", "opened"}
          PROVE  pc[q] = pc'[q] /\ sess'[q] = sess[q] /\ sess[q] # sess[r] /\ sess[q] \in Uploads
      <4>1. q # r /\ pc[q] = pc'[q] /\ sess'[q] = sess[q]
        BY <3>1
      <4>2. sess[q] # sess[r]
        BY <3>1, <4>1
      <4>3. sess[q] \in Uploads
        BY <3>1, <4>1
      <4>. QED BY <4>1, <4>2, <4>3
    <3>2. ASSUME NEW q \in Requests, pc'[q] \in {"opening", "opened"}
          PROVE  Fresh(sess[q])'
      <4>1. Fresh(sess[q])
        BY <3>1, <3>2
      <4>2. content'[sess[q]] = content[sess[q]] /\ active'[sess[q]] = active[sess[q]]
        BY <3>1, <3>2
      <4>. QED BY <3>1, <3>2, <4>1, <4>2
    <3>. QED BY <3>1, <3>2
  <2>. QED BY <2>1, <2>2, <2>3, <2>4, <2>5, <2>6 DEF Owners
<1>3. ASSUME NEW r \in Requests, CreateValidated(r) PROVE Owners'
  BY <1>3 DEF CreateValidated, Goto
<1>4. ASSUME NEW r \in Requests, OpenPart(r) PROVE Owners'
  BY <1>4 DEF OpenPart, Goto
<1>5. ASSUME NEW r \in Requests, OpenPartFails(r) PROVE Owners'
  <2>. USE <1>5 DEF OpenPartFails, Return, Goto
  <2>1. HasSession'
    OBVIOUS
  <2>2. WorkerActive'
    OBVIOUS
  <2>3. OneWorker'
    OBVIOUS
  <2>4. ActiveWorked'
    OBVIOUS
  <2>5. UnusedFresh'
    OBVIOUS
  <2>6. NewFresh'
    <3>1. ASSUME NEW q \in Requests, pc'[q] \in {"opening", "opened"}
          PROVE  pc[q] = pc'[q] /\ sess'[q] = sess[q] /\ sess[q] # sess[r] /\ sess[q] \in Uploads
      <4>1. q # r /\ pc[q] = pc'[q] /\ sess'[q] = sess[q]
        BY <3>1
      <4>2. sess[q] # sess[r]
        BY <3>1, <4>1
      <4>3. sess[q] \in Uploads
        BY <3>1, <4>1
      <4>. QED BY <4>1, <4>2, <4>3
    <3>. QED BY <3>1
  <2>. QED BY <2>1, <2>2, <2>3, <2>4, <2>5, <2>6 DEF Owners
<1>6. ASSUME NEW r \in Requests, CreateDone(r) PROVE Owners'
  <2>. USE <1>6 DEF CreateDone, Return, Goto
  <2>1. HasSession'
    OBVIOUS
  <2>2. WorkerActive'
    OBVIOUS
  <2>3. OneWorker'
    OBVIOUS
  <2>4. ActiveWorked'
    OBVIOUS
  <2>5. UnusedFresh'
    OBVIOUS
  <2>6. NewFresh'
    <3>1. ASSUME NEW q \in Requests, pc'[q] \in {"opening", "opened"}
          PROVE  pc[q] = pc'[q] /\ sess'[q] = sess[q] /\ sess[q] # sess[r] /\ sess[q] \in Uploads
      <4>1. q # r /\ pc[q] = pc'[q] /\ sess'[q] = sess[q]
        BY <3>1
      <4>2. sess[q] # sess[r]
        BY <3>1, <4>1
      <4>3. sess[q] \in Uploads
        BY <3>1, <4>1
      <4>. QED BY <4>1, <4>2, <4>3
    <3>. QED BY <3>1
  <2>. QED BY <2>1, <2>2, <2>3, <2>4, <2>5, <2>6 DEF Owners
<1>7. ASSUME NEW r \in Requests, NEW u \in Uploads, PutBegin(r, u) PROVE Owners'
  <2>. USE <1>7 DEF PutBegin, Work, Goto, Expected
  <2>1. HasSession'
    OBVIOUS
  <2>2. WorkerActive'
    OBVIOUS
  <2>3. OneWorker'
    OBVIOUS
  <2>4. ActiveWorked'
    <3>. SUFFICES ASSUME NEW v \in uploads', active'[v]
                  PROVE  \E w \in Requests : pc'[w] \in Working /\ sess'[w] = v
      OBVIOUS
    <3>1. pc'[r] = "writing" /\ sess'[r] = u
      OBVIOUS
    <3>2. CASE v = u
      BY <3>1, <3>2
    <3>3. CASE v # u
      <4>1. PICK w \in Requests : pc[w] \in Working /\ sess[w] = v
        BY <3>3
      <4>2. pc'[w] = pc[w] /\ sess'[w] = sess[w]
        BY <4>1
      <4>. QED BY <4>1, <4>2
    <3>. QED BY <3>2, <3>3
  <2>5. UnusedFresh'
    OBVIOUS
  <2>6. NewFresh'
    OBVIOUS
  <2>. QED BY <2>1, <2>2, <2>3, <2>4, <2>5, <2>6 DEF Owners
<1>8. ASSUME NEW r \in Requests, PutOk(r) PROVE Owners'
  <2>. USE <1>8 DEF PutOk, Return, Goto, Fill
  <2>1. HasSession'
    OBVIOUS
  <2>2. WorkerActive'
    OBVIOUS
  <2>3. OneWorker'
    OBVIOUS
  <2>4. ActiveWorked'
    <3>. SUFFICES ASSUME NEW v \in uploads, active'[v]
                  PROVE  \E w \in Requests : pc'[w] \in Working /\ sess'[w] = v
      OBVIOUS
    <3>1. active[v] /\ v # sess[r]
      OBVIOUS
    <3>2. PICK w \in Requests : pc[w] \in Working /\ sess[w] = v
      BY <3>1
    <3>3. pc'[w] = pc[w] /\ sess'[w] = sess[w]
      BY <3>1, <3>2
    <3>. QED BY <3>2, <3>3
  <2>5. UnusedFresh'
    OBVIOUS
  <2>6. NewFresh'
    <3>1. ASSUME NEW q \in Requests, pc'[q] \in {"opening", "opened"}
          PROVE  pc[q] = pc'[q] /\ sess'[q] = sess[q] /\ sess[q] # sess[r] /\ sess[q] \in Uploads
      <4>1. q # r /\ pc[q] = pc'[q] /\ sess'[q] = sess[q]
        BY <3>1
      <4>2. sess[q] # sess[r]
        BY <3>1, <4>1
      <4>3. sess[q] \in Uploads
        BY <3>1, <4>1
      <4>. QED BY <4>1, <4>2, <4>3
    <3>. QED BY <3>1
  <2>. QED BY <2>1, <2>2, <2>3, <2>4, <2>5, <2>6 DEF Owners
<1>9. ASSUME NEW r \in Requests, PutFail(r) PROVE Owners'
  BY <1>9 DEF PutFail, Goto, Fill
<1>10. ASSUME NEW r \in Requests, Truncated(r) PROVE Owners'
  <2>0. /\ pc[r] = "truncating" /\ pc' = [pc EXCEPT ![r] = "idle"]
        /\ sess' = [sess EXCEPT ![r] = NoUpload]
        /\ active' = [active EXCEPT ![sess[r]] = FALSE]
        /\ UNCHANGED <<offset, saved, dir, uploads, used>>
        /\ \A v \in Uploads : v # sess[r] => content'[v] = content[v]
    BY <1>10 DEF Truncated, Return, Goto, Fill
  <2>. USE <2>0
  <2>1. HasSession'
    OBVIOUS
  <2>2. WorkerActive'
    OBVIOUS
  <2>3. OneWorker'
    OBVIOUS
  <2>4. ActiveWorked'
    <3>. SUFFICES ASSUME NEW v \in uploads, active'[v]
                  PROVE  \E w \in Requests : pc'[w] \in Working /\ sess'[w] = v
      OBVIOUS
    <3>1. active[v] /\ v # sess[r]
      OBVIOUS
    <3>2. PICK w \in Requests : pc[w] \in Working /\ sess[w] = v
      BY <3>1
    <3>3. pc'[w] = pc[w] /\ sess'[w] = sess[w]
      BY <3>1, <3>2
    <3>. QED BY <3>2, <3>3
  <2>5. UnusedFresh'
    OBVIOUS
  <2>6. NewFresh'
    <3>1. ASSUME NEW q \in Requests, pc'[q] \in {"opening", "opened"}
          PROVE  pc[q] = pc'[q] /\ sess'[q] = sess[q] /\ sess[q] # sess[r] /\ sess[q] \in Uploads
      <4>1. q # r /\ pc[q] = pc'[q] /\ sess'[q] = sess[q]
        BY <3>1
      <4>2. sess[q] # sess[r]
        BY <3>1, <4>1
      <4>3. sess[q] \in Uploads
        BY <3>1, <4>1
      <4>. QED BY <4>1, <4>2, <4>3
    <3>2. ASSUME NEW q \in Requests, pc'[q] \in {"opening", "opened"}
          PROVE  Fresh(sess[q])'
      <4>1. Fresh(sess[q])
        BY <3>1, <3>2
      <4>2. content'[sess[q]] = content[sess[q]] /\ active'[sess[q]] = active[sess[q]]
        BY <3>1, <3>2
      <4>. QED BY <3>1, <3>2, <4>1, <4>2
    <3>. QED BY <3>1, <3>2
  <2>. QED BY <2>1, <2>2, <2>3, <2>4, <2>5, <2>6 DEF Owners
<1>11. ASSUME NEW r \in Requests, NEW u \in Uploads, CompleteBegin(r, u) PROVE Owners'
  <2>. USE <1>11 DEF CompleteBegin, Work, Goto
  <2>1. HasSession'
    OBVIOUS
  <2>2. WorkerActive'
    OBVIOUS
  <2>3. OneWorker'
    OBVIOUS
  <2>4. ActiveWorked'
    <3>. SUFFICES ASSUME NEW v \in uploads', active'[v]
                  PROVE  \E w \in Requests : pc'[w] \in Working /\ sess'[w] = v
      OBVIOUS
    <3>1. pc'[r] = "linking" /\ sess'[r] = u
      OBVIOUS
    <3>2. CASE v = u
      BY <3>1, <3>2
    <3>3. CASE v # u
      <4>1. PICK w \in Requests : pc[w] \in Working /\ sess[w] = v
        BY <3>3
      <4>2. pc'[w] = pc[w] /\ sess'[w] = sess[w]
        BY <4>1
      <4>. QED BY <4>1, <4>2
    <3>. QED BY <3>2, <3>3
  <2>5. UnusedFresh'
    OBVIOUS
  <2>6. NewFresh'
    OBVIOUS
  <2>. QED BY <2>1, <2>2, <2>3, <2>4, <2>5, <2>6 DEF Owners
<1>12. ASSUME NEW r \in Requests, Link(r) PROVE Owners'
  BY <1>12 DEF Link, Goto
<1>13. ASSUME NEW r \in Requests, NextName(r) PROVE Owners'
  BY <1>13 DEF NextName, Goto
<1>14. ASSUME NEW r \in Requests, LinkFails(r) PROVE Owners'
  <2>. USE <1>14 DEF LinkFails, Return, Goto
  <2>1. HasSession'
    OBVIOUS
  <2>2. WorkerActive'
    OBVIOUS
  <2>3. OneWorker'
    OBVIOUS
  <2>4. ActiveWorked'
    <3>. SUFFICES ASSUME NEW v \in uploads, active'[v]
                  PROVE  \E w \in Requests : pc'[w] \in Working /\ sess'[w] = v
      OBVIOUS
    <3>1. active[v] /\ v # sess[r]
      OBVIOUS
    <3>2. PICK w \in Requests : pc[w] \in Working /\ sess[w] = v
      BY <3>1
    <3>3. pc'[w] = pc[w] /\ sess'[w] = sess[w]
      BY <3>1, <3>2
    <3>. QED BY <3>2, <3>3
  <2>5. UnusedFresh'
    OBVIOUS
  <2>6. NewFresh'
    <3>1. ASSUME NEW q \in Requests, pc'[q] \in {"opening", "opened"}
          PROVE  pc[q] = pc'[q] /\ sess'[q] = sess[q] /\ sess[q] # sess[r] /\ sess[q] \in Uploads
      <4>1. q # r /\ pc[q] = pc'[q] /\ sess'[q] = sess[q]
        BY <3>1
      <4>2. sess[q] # sess[r]
        BY <3>1, <4>1
      <4>3. sess[q] \in Uploads
        BY <3>1, <4>1
      <4>. QED BY <4>1, <4>2, <4>3
    <3>. QED BY <3>1
  <2>. QED BY <2>1, <2>2, <2>3, <2>4, <2>5, <2>6 DEF Owners
<1>15. ASSUME NEW r \in Requests, Linked(r) PROVE Owners'
  BY <1>15 DEF Linked, Goto
<1>16. ASSUME NEW r \in Requests, Unlinked(r) PROVE Owners'
  <2>. USE <1>16 DEF Unlinked, Return, Goto
  <2>1. HasSession'
    OBVIOUS
  <2>2. WorkerActive'
    OBVIOUS
  <2>3. OneWorker'
    OBVIOUS
  <2>4. ActiveWorked'
    <3>. SUFFICES ASSUME NEW v \in uploads, active'[v]
                  PROVE  \E w \in Requests : pc'[w] \in Working /\ sess'[w] = v
      OBVIOUS
    <3>1. active[v] /\ v # sess[r]
      OBVIOUS
    <3>2. PICK w \in Requests : pc[w] \in Working /\ sess[w] = v
      BY <3>1
    <3>3. pc'[w] = pc[w] /\ sess'[w] = sess[w]
      BY <3>1, <3>2
    <3>. QED BY <3>2, <3>3
  <2>5. UnusedFresh'
    OBVIOUS
  <2>6. NewFresh'
    <3>1. ASSUME NEW q \in Requests, pc'[q] \in {"opening", "opened"}
          PROVE  pc[q] = pc'[q] /\ sess'[q] = sess[q] /\ sess[q] # sess[r] /\ sess[q] \in Uploads
      <4>1. q # r /\ pc[q] = pc'[q] /\ sess'[q] = sess[q]
        BY <3>1
      <4>2. sess[q] # sess[r]
        BY <3>1, <4>1
      <4>3. sess[q] \in Uploads
        BY <3>1, <4>1
      <4>. QED BY <4>1, <4>2, <4>3
    <3>. QED BY <3>1
  <2>. QED BY <2>1, <2>2, <2>3, <2>4, <2>5, <2>6 DEF Owners
<1>17. ASSUME NEW r \in Requests, Finish(r) PROVE Owners'
  <2>. USE <1>17 DEF Finish, Return, Goto
  <2>1. HasSession'
    OBVIOUS
  <2>2. WorkerActive'
    OBVIOUS
  <2>3. OneWorker'
    OBVIOUS
  <2>4. ActiveWorked'
    OBVIOUS
  <2>5. UnusedFresh'
    OBVIOUS
  <2>6. NewFresh'
    OBVIOUS
  <2>. QED BY <2>1, <2>2, <2>3, <2>4, <2>5, <2>6 DEF Owners
<1>18. ASSUME NEW r \in Requests, Hangup(r) PROVE Owners'
  BY <1>18 DEF Hangup
<1>19. ASSUME NEW u \in Uploads, Cancel(u) PROVE Owners'
  BY <1>19 DEF Cancel, Discard
<1>20. ASSUME NEW u \in Uploads, Expire(u) PROVE Owners'
  BY <1>20 DEF Expire, Discard
<1>21. ASSUME Close PROVE Owners'
  BY <1>21 DEF Close
<1>22. ASSUME CloseDone PROVE Owners'
  BY <1>22 DEF CloseDone, Discard, Unsaved
<1>23. ASSUME UNCHANGED vars PROVE Owners'
  BY <1>23 DEF vars
<1>. HIDE ReceiveAssumption DEF TypeOK, Owners, Fresh, Working, Creating, Await, HasSession, WorkerActive, OneWorker, ActiveWorked, UnusedFresh, NewFresh
<1>. QED BY <1>1, <1>2, <1>3, <1>4, <1>5, <1>6, <1>7, <1>8, <1>9, <1>10, <1>11, <1>12, <1>13, <1>14, <1>15, <1>16, <1>17, <1>18, <1>19, <1>20, <1>21, <1>22, <1>23, StepCases

-----------------------------------------------------------------------------
(* The bytes of a session                                                  *)

\* A confirmed offset is within the file, the bytes up to it are verified and
\* there are none past the announced size.
VerifiedAt(u) ==
  /\ offset[u] <= size[u]
  /\ \A p \in Positions :
       /\ p <= offset[u] => content[u][p] = "good"
       /\ p > size[u] => content[u][p] = "none"

Verified == \A u \in Uploads : VerifiedAt(u)

\* What a handler learned of the offset is still true when it goes on.
OffsetKnown ==
  \A r \in Requests :
    /\ pc[r] = "writing" => at[r] = offset[sess[r]] /\ at[r] < size[sess[r]]
    /\ pc[r] = "truncating" => at[r] = offset[sess[r]]
    /\ pc[r] \in {"linking", "linked", "unlinking"} => offset[sess[r]] = size[sess[r]]

Bytes == Verified /\ OffsetKnown

\* Positions in a file are numbers.
LEMMA PositionsNat == Positions \subseteq Nat
BY ReceiveAssumption DEF Positions

\* So are the size and the offset of an upload.
LEMMA SizesNat ==
  ASSUME TypeOK, NEW u \in Uploads
  PROVE  size[u] \in Nat /\ offset[u] \in Nat
<1>1. size \in [Uploads -> Sizes \cup {0}] /\ offset \in [Uploads -> Nat]
  BY DEF TypeOK
<1>2. \A s \in Sizes : s \in Nat
  BY ReceiveAssumption
<1>3. size[u] \in Sizes \/ size[u] = 0
  BY <1>1
<1>4. size[u] \in Nat
  <2>1. CASE size[u] \in Sizes
    BY <1>2, <2>1, Zenon
  <2>2. CASE size[u] = 0
    BY <2>2
  <2>. QED BY <1>3, <2>1, <2>2
<1>5. offset[u] \in Nat
  BY <1>1
<1>. QED BY <1>4, <1>5

\* A chunk ends within the file.
LEMMA ChunkBound ==
  ASSUME TypeOK, Owners, Bytes, NEW r \in Requests, pc[r] = "writing"
  PROVE  /\ ChunkOf(r) \in Nat /\ at[r] \in Nat
         /\ at[r] + ChunkOf(r) <= size[sess[r]]
<1>1. sess[r] \in Uploads
  BY DEF TypeOK, Owners, HasSession
<1>2. size[sess[r]] \in Nat
  BY <1>1, SizesNat
<1>3. at[r] \in Nat
  BY DEF TypeOK
<1>4. at[r] < size[sess[r]]
  BY DEF Bytes, OffsetKnown
<1>5. ChunkSize \in Nat
  BY ReceiveAssumption
<1>. QED BY <1>2, <1>3, <1>4, <1>5 DEF ChunkOf, Minimum

\* Every step keeps the bytes verified and what handlers know of them.
LEMMA BytesStep ==
  ASSUME TypeOK, Owners, Bytes, [Next]_vars
  PROVE  Bytes'
<1>. USE ReceiveAssumption DEF TypeOK, Creating, Working, Await, Bytes, Verified, VerifiedAt, OffsetKnown, Owners, HasSession, WorkerActive, OneWorker, NewFresh, UnusedFresh, Fresh, record, files, link, locals
<1>1. ASSUME NEW r \in Requests, CreateBegin(r) PROVE Bytes'
  BY <1>1 DEF CreateBegin, Admit, Goto
<1>2. ASSUME NEW r \in Requests, CreateRejected(r) PROVE Bytes'
  BY <1>2 DEF CreateRejected, Return, Goto
<1>3. ASSUME NEW r \in Requests, CreateValidated(r) PROVE Bytes'
  <2>. USE <1>3 DEF CreateValidated, Goto
  <2>1. Verified'
    OBVIOUS
  <2>2. OffsetKnown'
    OBVIOUS
  <2>. QED BY <2>1, <2>2 DEF Bytes
<1>4. ASSUME NEW r \in Requests, OpenPart(r) PROVE Bytes'
  BY <1>4 DEF OpenPart, Goto
<1>5. ASSUME NEW r \in Requests, OpenPartFails(r) PROVE Bytes'
  BY <1>5 DEF OpenPartFails, Return, Goto
<1>6. ASSUME NEW r \in Requests, CreateDone(r) PROVE Bytes'
  BY <1>6 DEF CreateDone, Return, Goto
<1>7. ASSUME NEW r \in Requests, NEW u \in Uploads, PutBegin(r, u) PROVE Bytes'
  <2>. USE <1>7 DEF PutBegin, Work, Goto, Expected
  <2>1. Verified'
    OBVIOUS
  <2>2. OffsetKnown'
    <3>1. offset[u] < size[u]
      <4>1. Expected(u) > 0 /\ ChunkSize \in Nat /\ size[u] \in Nat /\ offset[u] \in Nat
        BY SizesNat
      <4>. QED BY <4>1 DEF Expected, Minimum
    <3>2. at'[r] = offset[u] /\ sess'[r] = u /\ pc'[r] = "writing"
      OBVIOUS
    <3>3. \A q \in Requests : q # r => at'[q] = at[q] /\ sess'[q] = sess[q] /\ pc'[q] = pc[q]
      OBVIOUS
    <3>. QED BY <3>1, <3>2, <3>3
  <2>. QED BY <2>1, <2>2 DEF Bytes
<1>8. ASSUME NEW r \in Requests, PutOk(r) PROVE Bytes'
  <2>0. /\ pc[r] = "writing" /\ pc' = [pc EXCEPT ![r] = "idle"]
        /\ sess' = [sess EXCEPT ![r] = NoUpload]
        /\ at' = [at EXCEPT ![r] = 0]
        /\ offset' = [offset EXCEPT ![sess[r]] = offset[sess[r]] + ChunkOf(r)]
        /\ content' = [content EXCEPT ![sess[r]] = [p \in Positions |->
                 IF p \in (at[r] + 1)..(at[r] + ChunkOf(r)) THEN "good" ELSE content[sess[r]][p]]]
        /\ UNCHANGED size
    BY <1>8 DEF PutOk, Return, Goto, Fill
  <2>1. Verified'
    <3>. SUFFICES ASSUME NEW u \in Uploads PROVE VerifiedAt(u)'
      OBVIOUS
    <3>1. sess[r] \in Uploads /\ VerifiedAt(u)
      BY <2>0
    <3>2. CASE u # sess[r]
      BY <2>0, <3>1, <3>2
    <3>3. CASE u = sess[r]
      <4>1. ChunkOf(r) \in Nat /\ at[r] \in Nat /\ at[r] + ChunkOf(r) <= size[u]
        BY <2>0, <3>3, ChunkBound
      <4>2. at[r] = offset[u]
        BY <2>0, <3>3
      <4>3. offset'[u] = at[r] + ChunkOf(r) /\ size'[u] = size[u] /\ size[u] \in Nat
        BY <2>0, <3>3, <3>1, <4>2, SizesNat
      <4>4. \A p \in Positions : content'[u][p] =
                  IF p \in (at[r] + 1)..(at[r] + ChunkOf(r)) THEN "good" ELSE content[u][p]
        BY <2>0, <3>3
      <4>. HIDE DEF TypeOK, Owners, Bytes, Verified, OffsetKnown
      <4>. QED BY <3>1, <4>1, <4>2, <4>3, <4>4, PositionsNat
    <3>. QED BY <3>2, <3>3
  <2>2. OffsetKnown'
    <3>1. ASSUME NEW q \in Requests, pc'[q] \in Working, q # r
          PROVE  at'[q] = at[q] /\ sess'[q] = sess[q] /\ pc'[q] = pc[q]
                 /\ offset'[sess[q]] = offset[sess[q]] /\ size'[sess[q]] = size[sess[q]]
      BY <2>0, <3>1
    <3>. QED BY <2>0, <3>1
  <2>. QED BY <2>1, <2>2 DEF Bytes
<1>9. ASSUME NEW r \in Requests, PutFail(r) PROVE Bytes'
  <2>0. /\ pc[r] = "writing" /\ pc' = [pc EXCEPT ![r] = "truncating"]
        /\ sess' = sess
        /\ at' = [at EXCEPT ![r] = offset[sess[r]]]
        /\ \E k \in 0..ChunkOf(r) : content' = [content EXCEPT ![sess[r]] = [p \in Positions |->
                 IF p \in (at[r] + 1)..(at[r] + k) THEN "junk" ELSE content[sess[r]][p]]]
        /\ UNCHANGED <<offset, size>>
    BY <1>9 DEF PutFail, Goto, Fill
  <2>1. Verified'
    <3>. SUFFICES ASSUME NEW u \in Uploads PROVE VerifiedAt(u)'
      OBVIOUS
    <3>1. sess[r] \in Uploads /\ VerifiedAt(u)
      BY <2>0
    <3>2. CASE u # sess[r]
      BY <2>0, <3>1, <3>2
    <3>3. CASE u = sess[r]
      <4>1. PICK k \in 0..ChunkOf(r) : \A p \in Positions : content'[u][p] =
                  IF p \in (at[r] + 1)..(at[r] + k) THEN "junk" ELSE content[u][p]
        BY <2>0, <3>3
      <4>2. ChunkOf(r) \in Nat /\ at[r] \in Nat /\ at[r] + ChunkOf(r) <= size[u]
        BY <2>0, <3>3, ChunkBound
      <4>3. at[r] = offset[u] /\ k \in Nat /\ k <= ChunkOf(r)
        BY <2>0, <3>3, <4>2
      <4>4. offset'[u] = offset[u] /\ size'[u] = size[u] /\ size[u] \in Nat
        BY <2>0, <3>1, SizesNat
      <4>. HIDE DEF TypeOK, Owners, Bytes, Verified, OffsetKnown
      <4>. QED BY <3>1, <4>1, <4>2, <4>3, <4>4, PositionsNat
    <3>. QED BY <3>2, <3>3
  <2>2. OffsetKnown'
    <3>1. ASSUME NEW q \in Requests, pc'[q] \in Working, q # r
          PROVE  at'[q] = at[q] /\ sess'[q] = sess[q] /\ pc'[q] = pc[q]
                 /\ offset'[sess[q]] = offset[sess[q]] /\ size'[sess[q]] = size[sess[q]]
      BY <2>0, <3>1
    <3>. QED BY <2>0, <3>1
  <2>. QED BY <2>1, <2>2 DEF Bytes
<1>10. ASSUME NEW r \in Requests, Truncated(r) PROVE Bytes'
  <2>0. /\ pc[r] = "truncating" /\ pc' = [pc EXCEPT ![r] = "idle"]
        /\ sess' = [sess EXCEPT ![r] = NoUpload]
        /\ at' = [at EXCEPT ![r] = 0]
        /\ \/ content' = [content EXCEPT ![sess[r]] = [p \in Positions |->
                   IF p \in {q \in Positions : q > at[r]} THEN "none" ELSE content[sess[r]][p]]]
           \/ content' = content
        /\ UNCHANGED <<offset, size>>
    BY <1>10 DEF Truncated, Return, Goto, Fill
  <2>1. Verified'
    <3>. SUFFICES ASSUME NEW u \in Uploads PROVE VerifiedAt(u)'
      OBVIOUS
    <3>1. sess[r] \in Uploads /\ VerifiedAt(u)
      BY <2>0
    <3>2. CASE u # sess[r]
      BY <2>0, <3>1, <3>2
    <3>3. CASE u = sess[r]
      <4>1. at[r] = offset[u]
        BY <2>0, <3>3
      <4>2. \A p \in Positions :
              content'[u][p] = content[u][p] \/ (p > at[r] /\ content'[u][p] = "none")
        BY <2>0, <3>3
      <4>3. offset'[u] = offset[u] /\ size'[u] = size[u] /\ size[u] \in Nat /\ offset[u] \in Nat
        BY <2>0, <3>1, SizesNat
      <4>. HIDE DEF TypeOK, Owners, Bytes, Verified, OffsetKnown
      <4>. QED BY <3>1, <4>1, <4>2, <4>3, PositionsNat
    <3>. QED BY <3>2, <3>3
  <2>2. OffsetKnown'
    <3>1. ASSUME NEW q \in Requests, pc'[q] \in Working, q # r
          PROVE  at'[q] = at[q] /\ sess'[q] = sess[q] /\ pc'[q] = pc[q]
                 /\ offset'[sess[q]] = offset[sess[q]] /\ size'[sess[q]] = size[sess[q]]
      BY <2>0, <3>1
    <3>. QED BY <2>0, <3>1
  <2>. QED BY <2>1, <2>2 DEF Bytes
<1>11. ASSUME NEW r \in Requests, NEW u \in Uploads, CompleteBegin(r, u) PROVE Bytes'
  <2>. USE <1>11 DEF CompleteBegin, Work, Goto
  <2>1. Verified'
    OBVIOUS
  <2>2. OffsetKnown'
    OBVIOUS
  <2>. QED BY <2>1, <2>2 DEF Bytes
<1>12. ASSUME NEW r \in Requests, Link(r) PROVE Bytes'
  BY <1>12 DEF Link, Goto
<1>13. ASSUME NEW r \in Requests, NextName(r) PROVE Bytes'
  BY <1>13 DEF NextName, Goto
<1>14. ASSUME NEW r \in Requests, LinkFails(r) PROVE Bytes'
  BY <1>14 DEF LinkFails, Return, Goto
<1>15. ASSUME NEW r \in Requests, Linked(r) PROVE Bytes'
  BY <1>15 DEF Linked, Goto
<1>16. ASSUME NEW r \in Requests, Unlinked(r) PROVE Bytes'
  BY <1>16 DEF Unlinked, Return, Goto
<1>17. ASSUME NEW r \in Requests, Finish(r) PROVE Bytes'
  BY <1>17 DEF Finish, Return, Goto
<1>18. ASSUME NEW r \in Requests, Hangup(r) PROVE Bytes'
  BY <1>18 DEF Hangup
<1>19. ASSUME NEW u \in Uploads, Cancel(u) PROVE Bytes'
  BY <1>19 DEF Cancel, Discard
<1>20. ASSUME NEW u \in Uploads, Expire(u) PROVE Bytes'
  BY <1>20 DEF Expire, Discard
<1>21. ASSUME Close PROVE Bytes'
  BY <1>21 DEF Close
<1>22. ASSUME CloseDone PROVE Bytes'
  BY <1>22 DEF CloseDone, Discard, Unsaved
<1>23. ASSUME UNCHANGED vars PROVE Bytes'
  BY <1>23 DEF vars
<1>. HIDE ReceiveAssumption DEF TypeOK, Creating, Working, Await, Bytes, Verified, VerifiedAt, OffsetKnown, Owners, HasSession, WorkerActive, OneWorker, NewFresh, UnusedFresh, Fresh
<1>. QED BY <1>1, <1>2, <1>3, <1>4, <1>5, <1>6, <1>7, <1>8, <1>9, <1>10, <1>11, <1>12, <1>13, <1>14, <1>15, <1>16, <1>17, <1>18, <1>19, <1>20, <1>21, <1>22, <1>23, StepCases

-----------------------------------------------------------------------------
(* Saved files                                                             *)

\* A file under its final name has every byte, and its session is marked
\* saved or about to be by the handler that linked it.
SavedWhole ==
  \A f \in FileNames : dir[f] \in Uploads =>
    /\ offset[dir[f]] = size[dir[f]]
    /\ \/ saved[dir[f]]
       \/ \E r \in Requests : pc[r] = "linked" /\ sess[r] = dir[f]

\* No handler that may still write to a part file works on a saved one.
WritersUnsaved ==
  \A r \in Requests : pc[r] \in {"writing", "truncating", "linking"} =>
    ~saved[sess[r]] /\ \A f \in FileNames : dir[f] # sess[r]

SavedCompletes == \A u \in Uploads : saved[u] => completed

\* A saved upload keeps its part file only until its complete unlinks it.
SavedUnlinked ==
  \A u \in temps : saved[u] => \E r \in Requests : pc[r] = "unlinking" /\ sess[r] = u

Saving == SavedWhole /\ WritersUnsaved /\ SavedOnce /\ SavedCompletes /\ SavedUnlinked

\* Every step keeps saved files whole, saved once and out of reach.
LEMMA SavingStep ==
  ASSUME TypeOK, Owners, Bytes, Saving, [Next]_vars
  PROVE  Saving'
<1>. USE ReceiveAssumption DEF TypeOK, Creating, Working, Await, Saving, SavedWhole, WritersUnsaved, SavedOnce, SavedCompletes, SavedUnlinked, OffsetKnown, Bytes, Owners, HasSession, WorkerActive, OneWorker, NewFresh, UnusedFresh, Fresh, record, files, link, locals
<1>1. ASSUME NEW r \in Requests, CreateBegin(r) PROVE Saving'
  BY <1>1 DEF CreateBegin, Admit, Goto
<1>2. ASSUME NEW r \in Requests, CreateRejected(r) PROVE Saving'
  BY <1>2 DEF CreateRejected, Return, Goto
<1>3. ASSUME NEW r \in Requests, CreateValidated(r) PROVE Saving'
  <2>. USE <1>3 DEF CreateValidated, Goto
  <2>1. SavedWhole'
    OBVIOUS
  <2>2. WritersUnsaved'
    OBVIOUS
  <2>3. SavedOnce'
    OBVIOUS
  <2>4. SavedCompletes'
    OBVIOUS
  <2>5. SavedUnlinked'
    OBVIOUS
  <2>. QED BY <2>1, <2>2, <2>3, <2>4, <2>5 DEF Saving
<1>4. ASSUME NEW r \in Requests, OpenPart(r) PROVE Saving'
  <2>. USE <1>4 DEF OpenPart, Goto
  <2>1. SavedWhole'
    OBVIOUS
  <2>2. WritersUnsaved'
    OBVIOUS
  <2>3. SavedOnce'
    OBVIOUS
  <2>4. SavedCompletes'
    OBVIOUS
  <2>5. SavedUnlinked'
    OBVIOUS
  <2>. QED BY <2>1, <2>2, <2>3, <2>4, <2>5 DEF Saving
<1>5. ASSUME NEW r \in Requests, OpenPartFails(r) PROVE Saving'
  BY <1>5 DEF OpenPartFails, Return, Goto
<1>6. ASSUME NEW r \in Requests, CreateDone(r) PROVE Saving'
  BY <1>6 DEF CreateDone, Return, Goto
<1>7. ASSUME NEW r \in Requests, NEW u \in Uploads, PutBegin(r, u) PROVE Saving'
  <2>. USE <1>7 DEF PutBegin, Work, Goto, Expected
  <2>1. SavedWhole'
    OBVIOUS
  <2>2. WritersUnsaved'
    OBVIOUS
  <2>3. SavedOnce'
    OBVIOUS
  <2>4. SavedCompletes'
    OBVIOUS
  <2>5. SavedUnlinked'
    OBVIOUS
  <2>. QED BY <2>1, <2>2, <2>3, <2>4, <2>5 DEF Saving
<1>8. ASSUME NEW r \in Requests, PutOk(r) PROVE Saving'
  <2>. USE <1>8 DEF PutOk, Return, Goto, Fill
  <2>1. SavedWhole'
    OBVIOUS
  <2>2. WritersUnsaved'
    OBVIOUS
  <2>3. SavedOnce'
    OBVIOUS
  <2>4. SavedCompletes'
    OBVIOUS
  <2>5. SavedUnlinked'
    OBVIOUS
  <2>. QED BY <2>1, <2>2, <2>3, <2>4, <2>5 DEF Saving
<1>9. ASSUME NEW r \in Requests, PutFail(r) PROVE Saving'
  <2>. USE <1>9 DEF PutFail, Goto, Fill
  <2>1. SavedWhole'
    OBVIOUS
  <2>2. WritersUnsaved'
    OBVIOUS
  <2>3. SavedOnce'
    OBVIOUS
  <2>4. SavedCompletes'
    OBVIOUS
  <2>5. SavedUnlinked'
    OBVIOUS
  <2>. QED BY <2>1, <2>2, <2>3, <2>4, <2>5 DEF Saving
<1>10. ASSUME NEW r \in Requests, Truncated(r) PROVE Saving'
  <2>. USE <1>10 DEF Truncated, Return, Goto, Fill
  <2>1. SavedWhole'
    OBVIOUS
  <2>2. WritersUnsaved'
    OBVIOUS
  <2>3. SavedOnce'
    OBVIOUS
  <2>4. SavedCompletes'
    OBVIOUS
  <2>5. SavedUnlinked'
    OBVIOUS
  <2>. QED BY <2>1, <2>2, <2>3, <2>4, <2>5 DEF Saving
<1>11. ASSUME NEW r \in Requests, NEW u \in Uploads, CompleteBegin(r, u) PROVE Saving'
  <2>. USE <1>11 DEF CompleteBegin, Work, Goto
  <2>1. SavedWhole'
    OBVIOUS
  <2>2. WritersUnsaved'
    OBVIOUS
  <2>3. SavedOnce'
    OBVIOUS
  <2>4. SavedCompletes'
    OBVIOUS
  <2>5. SavedUnlinked'
    OBVIOUS
  <2>. QED BY <2>1, <2>2, <2>3, <2>4, <2>5 DEF Saving
<1>12. ASSUME NEW r \in Requests, Link(r) PROVE Saving'
  <2>. USE <1>12 DEF Link, Goto
  <2>1. SavedWhole'
    OBVIOUS
  <2>2. WritersUnsaved'
    OBVIOUS
  <2>3. SavedOnce'
    OBVIOUS
  <2>4. SavedCompletes'
    OBVIOUS
  <2>5. SavedUnlinked'
    OBVIOUS
  <2>. QED BY <2>1, <2>2, <2>3, <2>4, <2>5 DEF Saving
<1>13. ASSUME NEW r \in Requests, NextName(r) PROVE Saving'
  BY <1>13 DEF NextName, Goto
<1>14. ASSUME NEW r \in Requests, LinkFails(r) PROVE Saving'
  <2>. USE <1>14 DEF LinkFails, Return, Goto
  <2>1. SavedWhole'
    OBVIOUS
  <2>2. WritersUnsaved'
    OBVIOUS
  <2>3. SavedOnce'
    OBVIOUS
  <2>4. SavedCompletes'
    OBVIOUS
  <2>5. SavedUnlinked'
    OBVIOUS
  <2>. QED BY <2>1, <2>2, <2>3, <2>4, <2>5 DEF Saving
<1>15. ASSUME NEW r \in Requests, Linked(r) PROVE Saving'
  <2>. USE <1>15 DEF Linked, Goto
  <2>1. SavedWhole'
    OBVIOUS
  <2>2. WritersUnsaved'
    OBVIOUS
  <2>3. SavedOnce'
    OBVIOUS
  <2>4. SavedCompletes'
    OBVIOUS
  <2>5. SavedUnlinked'
    OBVIOUS
  <2>. QED BY <2>1, <2>2, <2>3, <2>4, <2>5 DEF Saving
<1>16. ASSUME NEW r \in Requests, Unlinked(r) PROVE Saving'
  <2>. USE <1>16 DEF Unlinked, Return, Goto
  <2>1. SavedWhole'
    OBVIOUS
  <2>2. WritersUnsaved'
    OBVIOUS
  <2>3. SavedOnce'
    OBVIOUS
  <2>4. SavedCompletes'
    OBVIOUS
  <2>5. SavedUnlinked'
    OBVIOUS
  <2>. QED BY <2>1, <2>2, <2>3, <2>4, <2>5 DEF Saving
<1>17. ASSUME NEW r \in Requests, Finish(r) PROVE Saving'
  BY <1>17 DEF Finish, Return, Goto
<1>18. ASSUME NEW r \in Requests, Hangup(r) PROVE Saving'
  BY <1>18 DEF Hangup
<1>19. ASSUME NEW u \in Uploads, Cancel(u) PROVE Saving'
  BY <1>19 DEF Cancel, Discard
<1>20. ASSUME NEW u \in Uploads, Expire(u) PROVE Saving'
  BY <1>20 DEF Expire, Discard
<1>21. ASSUME Close PROVE Saving'
  BY <1>21 DEF Close
<1>22. ASSUME CloseDone PROVE Saving'
  BY <1>22 DEF CloseDone, Discard, Unsaved
<1>23. ASSUME UNCHANGED vars PROVE Saving'
  BY <1>23 DEF vars
<1>. HIDE ReceiveAssumption DEF TypeOK, Creating, Working, Await, Saving, SavedWhole, WritersUnsaved, SavedOnce, SavedCompletes, SavedUnlinked, OffsetKnown, Bytes, Owners, HasSession, WorkerActive, OneWorker, NewFresh, UnusedFresh, Fresh
<1>. QED BY <1>1, <1>2, <1>3, <1>4, <1>5, <1>6, <1>7, <1>8, <1>9, <1>10, <1>11, <1>12, <1>13, <1>14, <1>15, <1>16, <1>17, <1>18, <1>19, <1>20, <1>21, <1>22, <1>23, StepCases

-----------------------------------------------------------------------------
(* A link for one file                                                     *)

WorkersReachable ==
  server # "closed" => \A r \in Requests : pc[r] \in Working => sess[r] \in uploads

\* A session that may still bring a file.
Live(u) == u \in uploads \/ \E r \in Requests : pc[r] \in Working /\ sess[r] = u

\* Of a --once link: a create under way is alone with it, ...
OneCreate ==
  once => \A r, q \in Requests : pc[r] \in Creating /\ pc[q] \in Creating => r = q
CreateAlone ==
  once => \A r \in Requests : pc[r] \in Creating =>
    /\ \A u \in Uploads : ~Live(u)
    /\ \A f \in FileNames : dir[f] \notin Uploads

\* ... at most one session may still bring a file, ...
OneLive == once => \A u, v \in Uploads : Live(u) /\ Live(v) => u = v

\* ... and if a file is there, it is that session's.
LiveIsSaved ==
  once => \A u \in Uploads, f \in FileNames : Live(u) /\ dir[f] \in Uploads => dir[f] = u
OneFile ==
  once => \A f, g \in FileNames : dir[f] \in Uploads /\ dir[g] \in Uploads => dir[f] = dir[g]

OnceOnly ==
  /\ WorkersReachable /\ OnceLatchReleased /\ OneCreate /\ CreateAlone
  /\ OneLive /\ LiveIsSaved /\ OneFile

\* Every step of a --once link keeps it to one file.
LEMMA OnceStep ==
  ASSUME TypeOK, Owners, Saving, OnceOnly, [Next]_vars
  PROVE  OnceOnly'
<1>. USE ReceiveAssumption DEF TypeOK, Creating, Working, Await, OnceOnly, Live, WorkersReachable, OnceLatchReleased, OneCreate, CreateAlone, OneLive, LiveIsSaved, OneFile, Owners, HasSession, WorkerActive, NewFresh, record, files, link, locals
<1>1. ASSUME NEW r \in Requests, CreateBegin(r) PROVE OnceOnly'
  <2>. USE <1>1 DEF CreateBegin, Admit, Goto, Used
  <2>1. WorkersReachable'
    OBVIOUS
  <2>2. OnceLatchReleased'
    OBVIOUS
  <2>3. OneCreate'
    OBVIOUS
  <2>4. CreateAlone'
    <3>1. once => uploads = {} /\ ~completed /\ server = "open"
      OBVIOUS
    <3>2. once => \A w \in Requests : pc[w] \notin Working
      BY <3>1
    <3>3. once => \A f \in FileNames : dir[f] \notin Uploads
      BY <3>1, <3>2 DEF Saving, SavedWhole, SavedCompletes
    <3>4. \A w \in Requests : pc'[w] \in Working => pc[w] \in Working
      OBVIOUS
    <3>5. uploads' = uploads /\ dir' = dir /\ once' = once
      OBVIOUS
    <3>. QED BY <3>1, <3>2, <3>3, <3>4, <3>5
  <2>5. OneLive'
    OBVIOUS
  <2>6. LiveIsSaved'
    OBVIOUS
  <2>7. OneFile'
    OBVIOUS
  <2>. QED BY <2>1, <2>2, <2>3, <2>4, <2>5, <2>6, <2>7 DEF OnceOnly
<1>2. ASSUME NEW r \in Requests, CreateRejected(r) PROVE OnceOnly'
  <2>. USE <1>2 DEF CreateRejected, Return, Goto
  <2>1. WorkersReachable'
    OBVIOUS
  <2>2. OnceLatchReleased'
    OBVIOUS
  <2>3. OneCreate'
    OBVIOUS
  <2>4. CreateAlone'
    OBVIOUS
  <2>5. OneLive'
    OBVIOUS
  <2>6. LiveIsSaved'
    OBVIOUS
  <2>7. OneFile'
    OBVIOUS
  <2>. QED BY <2>1, <2>2, <2>3, <2>4, <2>5, <2>6, <2>7 DEF OnceOnly
<1>3. ASSUME NEW r \in Requests, CreateValidated(r) PROVE OnceOnly'
  <2>. USE <1>3 DEF CreateValidated, Goto
  <2>1. WorkersReachable'
    OBVIOUS
  <2>2. OnceLatchReleased'
    OBVIOUS
  <2>3. OneCreate'
    OBVIOUS
  <2>4. CreateAlone'
    OBVIOUS
  <2>5. OneLive'
    OBVIOUS
  <2>6. LiveIsSaved'
    OBVIOUS
  <2>7. OneFile'
    OBVIOUS
  <2>. QED BY <2>1, <2>2, <2>3, <2>4, <2>5, <2>6, <2>7 DEF OnceOnly
<1>4. ASSUME NEW r \in Requests, OpenPart(r) PROVE OnceOnly'
  <2>. USE <1>4 DEF OpenPart, Goto
  <2>1. WorkersReachable'
    OBVIOUS
  <2>2. OnceLatchReleased'
    OBVIOUS
  <2>3. OneCreate'
    OBVIOUS
  <2>4. CreateAlone'
    OBVIOUS
  <2>5. OneLive'
    OBVIOUS
  <2>6. LiveIsSaved'
    OBVIOUS
  <2>7. OneFile'
    OBVIOUS
  <2>. QED BY <2>1, <2>2, <2>3, <2>4, <2>5, <2>6, <2>7 DEF OnceOnly
<1>5. ASSUME NEW r \in Requests, OpenPartFails(r) PROVE OnceOnly'
  <2>. USE <1>5 DEF OpenPartFails, Return, Goto
  <2>1. WorkersReachable'
    OBVIOUS
  <2>2. OnceLatchReleased'
    OBVIOUS
  <2>3. OneCreate'
    OBVIOUS
  <2>4. CreateAlone'
    OBVIOUS
  <2>5. OneLive'
    OBVIOUS
  <2>6. LiveIsSaved'
    OBVIOUS
  <2>7. OneFile'
    OBVIOUS
  <2>. QED BY <2>1, <2>2, <2>3, <2>4, <2>5, <2>6, <2>7 DEF OnceOnly
<1>6. ASSUME NEW r \in Requests, CreateDone(r) PROVE OnceOnly'
  <2>. USE <1>6 DEF CreateDone, Return, Goto
  <2>1. WorkersReachable'
    OBVIOUS
  <2>2. OnceLatchReleased'
    OBVIOUS
  <2>3. OneCreate'
    OBVIOUS
  <2>4. CreateAlone'
    OBVIOUS
  <2>5. OneLive'
    OBVIOUS
  <2>6. LiveIsSaved'
    OBVIOUS
  <2>7. OneFile'
    OBVIOUS
  <2>. QED BY <2>1, <2>2, <2>3, <2>4, <2>5, <2>6, <2>7 DEF OnceOnly
<1>7. ASSUME NEW r \in Requests, NEW u \in Uploads, PutBegin(r, u) PROVE OnceOnly'
  <2>. USE <1>7 DEF PutBegin, Work, Goto, Expected
  <2>1. WorkersReachable'
    OBVIOUS
  <2>2. OnceLatchReleased'
    OBVIOUS
  <2>3. OneCreate'
    OBVIOUS
  <2>4. CreateAlone'
    OBVIOUS
  <2>5. OneLive'
    OBVIOUS
  <2>6. LiveIsSaved'
    OBVIOUS
  <2>7. OneFile'
    OBVIOUS
  <2>. QED BY <2>1, <2>2, <2>3, <2>4, <2>5, <2>6, <2>7 DEF OnceOnly
<1>8. ASSUME NEW r \in Requests, PutOk(r) PROVE OnceOnly'
  <2>. USE <1>8 DEF PutOk, Return, Goto, Fill
  <2>1. WorkersReachable'
    OBVIOUS
  <2>2. OnceLatchReleased'
    OBVIOUS
  <2>3. OneCreate'
    OBVIOUS
  <2>4. CreateAlone'
    OBVIOUS
  <2>5. OneLive'
    OBVIOUS
  <2>6. LiveIsSaved'
    OBVIOUS
  <2>7. OneFile'
    OBVIOUS
  <2>. QED BY <2>1, <2>2, <2>3, <2>4, <2>5, <2>6, <2>7 DEF OnceOnly
<1>9. ASSUME NEW r \in Requests, PutFail(r) PROVE OnceOnly'
  <2>. USE <1>9 DEF PutFail, Goto, Fill
  <2>1. WorkersReachable'
    OBVIOUS
  <2>2. OnceLatchReleased'
    OBVIOUS
  <2>3. OneCreate'
    OBVIOUS
  <2>4. CreateAlone'
    OBVIOUS
  <2>5. OneLive'
    OBVIOUS
  <2>6. LiveIsSaved'
    OBVIOUS
  <2>7. OneFile'
    OBVIOUS
  <2>. QED BY <2>1, <2>2, <2>3, <2>4, <2>5, <2>6, <2>7 DEF OnceOnly
<1>10. ASSUME NEW r \in Requests, Truncated(r) PROVE OnceOnly'
  <2>. USE <1>10 DEF Truncated, Return, Goto, Fill
  <2>1. WorkersReachable'
    OBVIOUS
  <2>2. OnceLatchReleased'
    OBVIOUS
  <2>3. OneCreate'
    OBVIOUS
  <2>4. CreateAlone'
    OBVIOUS
  <2>5. OneLive'
    OBVIOUS
  <2>6. LiveIsSaved'
    OBVIOUS
  <2>7. OneFile'
    OBVIOUS
  <2>. QED BY <2>1, <2>2, <2>3, <2>4, <2>5, <2>6, <2>7 DEF OnceOnly
<1>11. ASSUME NEW r \in Requests, NEW u \in Uploads, CompleteBegin(r, u) PROVE OnceOnly'
  <2>. USE <1>11 DEF CompleteBegin, Work, Goto
  <2>1. WorkersReachable'
    OBVIOUS
  <2>2. OnceLatchReleased'
    OBVIOUS
  <2>3. OneCreate'
    OBVIOUS
  <2>4. CreateAlone'
    OBVIOUS
  <2>5. OneLive'
    OBVIOUS
  <2>6. LiveIsSaved'
    OBVIOUS
  <2>7. OneFile'
    OBVIOUS
  <2>. QED BY <2>1, <2>2, <2>3, <2>4, <2>5, <2>6, <2>7 DEF OnceOnly
<1>12. ASSUME NEW r \in Requests, Link(r) PROVE OnceOnly'
  <2>. USE <1>12 DEF Link, Goto
  <2>1. WorkersReachable'
    OBVIOUS
  <2>2. OnceLatchReleased'
    OBVIOUS
  <2>3. OneCreate'
    OBVIOUS
  <2>4. CreateAlone'
    OBVIOUS
  <2>5. OneLive'
    OBVIOUS
  <2>6. LiveIsSaved'
    OBVIOUS
  <2>7. OneFile'
    OBVIOUS
  <2>. QED BY <2>1, <2>2, <2>3, <2>4, <2>5, <2>6, <2>7 DEF OnceOnly
<1>13. ASSUME NEW r \in Requests, NextName(r) PROVE OnceOnly'
  <2>. USE <1>13 DEF NextName, Goto
  <2>1. WorkersReachable'
    OBVIOUS
  <2>2. OnceLatchReleased'
    OBVIOUS
  <2>3. OneCreate'
    OBVIOUS
  <2>4. CreateAlone'
    OBVIOUS
  <2>5. OneLive'
    OBVIOUS
  <2>6. LiveIsSaved'
    OBVIOUS
  <2>7. OneFile'
    OBVIOUS
  <2>. QED BY <2>1, <2>2, <2>3, <2>4, <2>5, <2>6, <2>7 DEF OnceOnly
<1>14. ASSUME NEW r \in Requests, LinkFails(r) PROVE OnceOnly'
  <2>. USE <1>14 DEF LinkFails, Return, Goto
  <2>1. WorkersReachable'
    OBVIOUS
  <2>2. OnceLatchReleased'
    OBVIOUS
  <2>3. OneCreate'
    OBVIOUS
  <2>4. CreateAlone'
    OBVIOUS
  <2>5. OneLive'
    OBVIOUS
  <2>6. LiveIsSaved'
    OBVIOUS
  <2>7. OneFile'
    OBVIOUS
  <2>. QED BY <2>1, <2>2, <2>3, <2>4, <2>5, <2>6, <2>7 DEF OnceOnly
<1>15. ASSUME NEW r \in Requests, Linked(r) PROVE OnceOnly'
  <2>. USE <1>15 DEF Linked, Goto
  <2>1. WorkersReachable'
    OBVIOUS
  <2>2. OnceLatchReleased'
    OBVIOUS
  <2>3. OneCreate'
    OBVIOUS
  <2>4. CreateAlone'
    OBVIOUS
  <2>5. OneLive'
    OBVIOUS
  <2>6. LiveIsSaved'
    OBVIOUS
  <2>7. OneFile'
    OBVIOUS
  <2>. QED BY <2>1, <2>2, <2>3, <2>4, <2>5, <2>6, <2>7 DEF OnceOnly
<1>16. ASSUME NEW r \in Requests, Unlinked(r) PROVE OnceOnly'
  <2>. USE <1>16 DEF Unlinked, Return, Goto
  <2>1. WorkersReachable'
    OBVIOUS
  <2>2. OnceLatchReleased'
    OBVIOUS
  <2>3. OneCreate'
    OBVIOUS
  <2>4. CreateAlone'
    OBVIOUS
  <2>5. OneLive'
    OBVIOUS
  <2>6. LiveIsSaved'
    OBVIOUS
  <2>7. OneFile'
    OBVIOUS
  <2>. QED BY <2>1, <2>2, <2>3, <2>4, <2>5, <2>6, <2>7 DEF OnceOnly
<1>17. ASSUME NEW r \in Requests, Finish(r) PROVE OnceOnly'
  <2>. USE <1>17 DEF Finish, Return, Goto
  <2>1. WorkersReachable'
    OBVIOUS
  <2>2. OnceLatchReleased'
    OBVIOUS
  <2>3. OneCreate'
    OBVIOUS
  <2>4. CreateAlone'
    OBVIOUS
  <2>5. OneLive'
    OBVIOUS
  <2>6. LiveIsSaved'
    OBVIOUS
  <2>7. OneFile'
    OBVIOUS
  <2>. QED BY <2>1, <2>2, <2>3, <2>4, <2>5, <2>6, <2>7 DEF OnceOnly
<1>18. ASSUME NEW r \in Requests, Hangup(r) PROVE OnceOnly'
  <2>. USE <1>18 DEF Hangup
  <2>1. WorkersReachable'
    OBVIOUS
  <2>2. OnceLatchReleased'
    OBVIOUS
  <2>3. OneCreate'
    OBVIOUS
  <2>4. CreateAlone'
    OBVIOUS
  <2>5. OneLive'
    OBVIOUS
  <2>6. LiveIsSaved'
    OBVIOUS
  <2>7. OneFile'
    OBVIOUS
  <2>. QED BY <2>1, <2>2, <2>3, <2>4, <2>5, <2>6, <2>7 DEF OnceOnly
<1>19. ASSUME NEW u \in Uploads, Cancel(u) PROVE OnceOnly'
  <2>. USE <1>19 DEF Cancel, Discard
  <2>1. WorkersReachable'
    OBVIOUS
  <2>2. OnceLatchReleased'
    OBVIOUS
  <2>3. OneCreate'
    OBVIOUS
  <2>4. CreateAlone'
    OBVIOUS
  <2>5. OneLive'
    OBVIOUS
  <2>6. LiveIsSaved'
    OBVIOUS
  <2>7. OneFile'
    OBVIOUS
  <2>. QED BY <2>1, <2>2, <2>3, <2>4, <2>5, <2>6, <2>7 DEF OnceOnly
<1>20. ASSUME NEW u \in Uploads, Expire(u) PROVE OnceOnly'
  <2>. USE <1>20 DEF Expire, Discard
  <2>1. WorkersReachable'
    OBVIOUS
  <2>2. OnceLatchReleased'
    OBVIOUS
  <2>3. OneCreate'
    OBVIOUS
  <2>4. CreateAlone'
    OBVIOUS
  <2>5. OneLive'
    OBVIOUS
  <2>6. LiveIsSaved'
    OBVIOUS
  <2>7. OneFile'
    OBVIOUS
  <2>. QED BY <2>1, <2>2, <2>3, <2>4, <2>5, <2>6, <2>7 DEF OnceOnly
<1>21. ASSUME Close PROVE OnceOnly'
  <2>. USE <1>21 DEF Close
  <2>1. WorkersReachable'
    OBVIOUS
  <2>2. OnceLatchReleased'
    OBVIOUS
  <2>3. OneCreate'
    OBVIOUS
  <2>4. CreateAlone'
    OBVIOUS
  <2>5. OneLive'
    OBVIOUS
  <2>6. LiveIsSaved'
    OBVIOUS
  <2>7. OneFile'
    OBVIOUS
  <2>. QED BY <2>1, <2>2, <2>3, <2>4, <2>5, <2>6, <2>7 DEF OnceOnly
<1>22. ASSUME CloseDone PROVE OnceOnly'
  <2>. USE <1>22 DEF CloseDone, Discard, Unsaved
  <2>1. WorkersReachable'
    OBVIOUS
  <2>2. OnceLatchReleased'
    OBVIOUS
  <2>3. OneCreate'
    OBVIOUS
  <2>4. CreateAlone'
    OBVIOUS
  <2>5. OneLive'
    OBVIOUS
  <2>6. LiveIsSaved'
    OBVIOUS
  <2>7. OneFile'
    OBVIOUS
  <2>. QED BY <2>1, <2>2, <2>3, <2>4, <2>5, <2>6, <2>7 DEF OnceOnly
<1>23. ASSUME UNCHANGED vars PROVE OnceOnly'
  BY <1>23 DEF vars
<1>. HIDE ReceiveAssumption DEF TypeOK, Creating, Working, Await, OnceOnly, Live, WorkersReachable, OnceLatchReleased, OneCreate, CreateAlone, OneLive, LiveIsSaved, OneFile, Owners, HasSession, WorkerActive, NewFresh
<1>. QED BY <1>1, <1>2, <1>3, <1>4, <1>5, <1>6, <1>7, <1>8, <1>9, <1>10, <1>11, <1>12, <1>13, <1>14, <1>15, <1>16, <1>17, <1>18, <1>19, <1>20, <1>21, <1>22, <1>23, StepCases

-----------------------------------------------------------------------------
(* Who removes a part file                                                 *)

\* Before the receiver has closed a part file is a session's or that of a create
\* about to register it.  Afterwards a handler still has it, or it is one of the
\* files a late create has left behind.
PartFilesHeld ==
  /\ server # "closed" =>
       \A u \in temps : u \in uploads \/ \E r \in Requests : sess[r] = u /\ pc[r] = "opened"
  /\ server = "closed" =>
       \A u \in temps :
         \/ \E r \in Requests : sess[r] = u /\ pc[r] \in {"opened", "unlinking"}
         \/ u \in orphans

\* Every step keeps part files held.
LEMMA PartsStep ==
  ASSUME TypeOK, Owners, SavedUnlinked, PartFilesHeld, [Next]_vars
  PROVE  PartFilesHeld'
<1>. USE ReceiveAssumption DEF TypeOK, Creating, Working, Await, PartFilesHeld, Owners, HasSession, WorkerActive, ActiveWorked, NewFresh, record, files, link, locals
<1>1. ASSUME NEW r \in Requests, CreateBegin(r) PROVE PartFilesHeld'
  BY <1>1 DEF CreateBegin, Admit, Goto
<1>2. ASSUME NEW r \in Requests, CreateRejected(r) PROVE PartFilesHeld'
  BY <1>2 DEF CreateRejected, Return, Goto
<1>3. ASSUME NEW r \in Requests, CreateValidated(r) PROVE PartFilesHeld'
  BY <1>3 DEF CreateValidated, Goto
<1>4. ASSUME NEW r \in Requests, OpenPart(r) PROVE PartFilesHeld'
  BY <1>4 DEF OpenPart, Goto
<1>5. ASSUME NEW r \in Requests, OpenPartFails(r) PROVE PartFilesHeld'
  BY <1>5 DEF OpenPartFails, Return, Goto
<1>6. ASSUME NEW r \in Requests, CreateDone(r) PROVE PartFilesHeld'
  BY <1>6 DEF CreateDone, Return, Goto
<1>7. ASSUME NEW r \in Requests, NEW u \in Uploads, PutBegin(r, u) PROVE PartFilesHeld'
  BY <1>7 DEF PutBegin, Work, Goto, Expected
<1>8. ASSUME NEW r \in Requests, PutOk(r) PROVE PartFilesHeld'
  BY <1>8 DEF PutOk, Return, Goto, Fill
<1>9. ASSUME NEW r \in Requests, PutFail(r) PROVE PartFilesHeld'
  BY <1>9 DEF PutFail, Goto, Fill
<1>10. ASSUME NEW r \in Requests, Truncated(r) PROVE PartFilesHeld'
  BY <1>10 DEF Truncated, Return, Goto, Fill
<1>11. ASSUME NEW r \in Requests, NEW u \in Uploads, CompleteBegin(r, u) PROVE PartFilesHeld'
  BY <1>11 DEF CompleteBegin, Work, Goto
<1>12. ASSUME NEW r \in Requests, Link(r) PROVE PartFilesHeld'
  BY <1>12 DEF Link, Goto
<1>13. ASSUME NEW r \in Requests, NextName(r) PROVE PartFilesHeld'
  BY <1>13 DEF NextName, Goto
<1>14. ASSUME NEW r \in Requests, LinkFails(r) PROVE PartFilesHeld'
  BY <1>14 DEF LinkFails, Return, Goto
<1>15. ASSUME NEW r \in Requests, Linked(r) PROVE PartFilesHeld'
  BY <1>15 DEF Linked, Goto
<1>16. ASSUME NEW r \in Requests, Unlinked(r) PROVE PartFilesHeld'
  <2>1. /\ pc[r] = "unlinking" /\ temps' = temps \ {sess[r]}
        /\ UNCHANGED <<uploads, server, orphans>>
    BY <1>16 DEF Unlinked
  <2>2. \A q \in Requests : q # r => pc'[q] = pc[q] /\ sess'[q] = sess[q]
    BY <1>16 DEF Unlinked, Return, Goto
  <2>3. ASSUME NEW u \in temps', NEW await, NEW q \in Requests, sess[q] = u, pc[q] = await
        PROVE  sess'[q] = u /\ pc'[q] = await
    BY <2>1, <2>2, <2>3
  <2>4. ASSUME server # "closed", NEW u \in temps', u \notin uploads
        PROVE  \E q \in Requests : sess'[q] = u /\ pc'[q] = "opened"
    <3>1. PICK q \in Requests : sess[q] = u /\ pc[q] = "opened"
      BY <2>1, <2>4
    <3>. QED BY <2>3, <2>4, <3>1
  <2>5. ASSUME server = "closed", NEW u \in temps', u \notin orphans
        PROVE  \E q \in Requests : sess'[q] = u /\ pc'[q] \in {"opened", "unlinking"}
    <3>1. PICK q \in Requests : sess[q] = u /\ pc[q] \in {"opened", "unlinking"}
      BY <2>1, <2>5
    <3>. QED BY <2>3, <2>5, <3>1
  <2>. QED BY <2>1, <2>4, <2>5
<1>17. ASSUME NEW r \in Requests, Finish(r) PROVE PartFilesHeld'
  BY <1>17 DEF Finish, Return, Goto
<1>18. ASSUME NEW r \in Requests, Hangup(r) PROVE PartFilesHeld'
  BY <1>18 DEF Hangup
<1>19. ASSUME NEW u \in Uploads, Cancel(u) PROVE PartFilesHeld'
  BY <1>19 DEF Cancel, Discard
<1>20. ASSUME NEW u \in Uploads, Expire(u) PROVE PartFilesHeld'
  BY <1>20 DEF Expire, Discard
<1>21. ASSUME Close PROVE PartFilesHeld'
  BY <1>21 DEF Close
<1>22. ASSUME CloseDone PROVE PartFilesHeld'
  BY <1>22 DEF CloseDone, Discard, Unsaved, SavedUnlinked
<1>23. ASSUME UNCHANGED vars PROVE PartFilesHeld'
  BY <1>23 DEF vars
<1>. HIDE ReceiveAssumption DEF TypeOK, Creating, Working, Await, PartFilesHeld, Owners, HasSession, WorkerActive, ActiveWorked, NewFresh
<1>. QED BY <1>1, <1>2, <1>3, <1>4, <1>5, <1>6, <1>7, <1>8, <1>9, <1>10, <1>11, <1>12, <1>13, <1>14, <1>15, <1>16, <1>17, <1>18, <1>19, <1>20, <1>21, <1>22, <1>23, StepCases

-----------------------------------------------------------------------------
(* The closed receiver                                                     *)

\* After close() a part file is a saved one's or has not been written to.
ClosedEmpty ==
  server = "closed" => \A u \in temps : ~saved[u] =>
    /\ \A p \in Positions : content[u][p] = "none"
    /\ \A r \in Requests : sess[r] = u => pc[r] \notin Working

\* Every step keeps the part files of a closed receiver empty.
LEMMA ClosedStep ==
  ASSUME TypeOK, Owners, PartFilesHeld, ClosedEmpty, [Next]_vars
  PROVE  ClosedEmpty'
<1>. USE ReceiveAssumption DEF TypeOK, Creating, Working, Await, ClosedEmpty, PartFilesHeld, Owners, HasSession, WorkerActive, NewFresh, Fresh, record, files, link, locals
<1>1. ASSUME NEW r \in Requests, CreateBegin(r) PROVE ClosedEmpty'
  BY <1>1 DEF CreateBegin, Admit, Goto
<1>2. ASSUME NEW r \in Requests, CreateRejected(r) PROVE ClosedEmpty'
  BY <1>2 DEF CreateRejected, Return, Goto
<1>3. ASSUME NEW r \in Requests, CreateValidated(r) PROVE ClosedEmpty'
  BY <1>3 DEF CreateValidated, Goto
<1>4. ASSUME NEW r \in Requests, OpenPart(r) PROVE ClosedEmpty'
  BY <1>4 DEF OpenPart, Goto
<1>5. ASSUME NEW r \in Requests, OpenPartFails(r) PROVE ClosedEmpty'
  BY <1>5 DEF OpenPartFails, Return, Goto
<1>6. ASSUME NEW r \in Requests, CreateDone(r) PROVE ClosedEmpty'
  BY <1>6 DEF CreateDone, Return, Goto
<1>7. ASSUME NEW r \in Requests, NEW u \in Uploads, PutBegin(r, u) PROVE ClosedEmpty'
  BY <1>7 DEF PutBegin, Work, Goto, Expected
<1>8. ASSUME NEW r \in Requests, PutOk(r) PROVE ClosedEmpty'
  BY <1>8 DEF PutOk, Return, Goto, Fill
<1>9. ASSUME NEW r \in Requests, PutFail(r) PROVE ClosedEmpty'
  BY <1>9 DEF PutFail, Goto, Fill
<1>10. ASSUME NEW r \in Requests, Truncated(r) PROVE ClosedEmpty'
  BY <1>10 DEF Truncated, Return, Goto, Fill
<1>11. ASSUME NEW r \in Requests, NEW u \in Uploads, CompleteBegin(r, u) PROVE ClosedEmpty'
  BY <1>11 DEF CompleteBegin, Work, Goto
<1>12. ASSUME NEW r \in Requests, Link(r) PROVE ClosedEmpty'
  BY <1>12 DEF Link, Goto
<1>13. ASSUME NEW r \in Requests, NextName(r) PROVE ClosedEmpty'
  BY <1>13 DEF NextName, Goto
<1>14. ASSUME NEW r \in Requests, LinkFails(r) PROVE ClosedEmpty'
  BY <1>14 DEF LinkFails, Return, Goto
<1>15. ASSUME NEW r \in Requests, Linked(r) PROVE ClosedEmpty'
  BY <1>15 DEF Linked, Goto
<1>16. ASSUME NEW r \in Requests, Unlinked(r) PROVE ClosedEmpty'
  BY <1>16 DEF Unlinked, Return, Goto
<1>17. ASSUME NEW r \in Requests, Finish(r) PROVE ClosedEmpty'
  BY <1>17 DEF Finish, Return, Goto
<1>18. ASSUME NEW r \in Requests, Hangup(r) PROVE ClosedEmpty'
  BY <1>18 DEF Hangup
<1>19. ASSUME NEW u \in Uploads, Cancel(u) PROVE ClosedEmpty'
  BY <1>19 DEF Cancel, Discard
<1>20. ASSUME NEW u \in Uploads, Expire(u) PROVE ClosedEmpty'
  BY <1>20 DEF Expire, Discard
<1>21. ASSUME Close PROVE ClosedEmpty'
  BY <1>21 DEF Close
<1>22. ASSUME CloseDone PROVE ClosedEmpty'
  BY <1>22 DEF CloseDone, Discard, Unsaved
<1>23. ASSUME UNCHANGED vars PROVE ClosedEmpty'
  BY <1>23 DEF vars
<1>. HIDE ReceiveAssumption DEF TypeOK, Creating, Working, Await, ClosedEmpty, PartFilesHeld, Owners, HasSession, WorkerActive, NewFresh, Fresh
<1>. QED BY <1>1, <1>2, <1>3, <1>4, <1>5, <1>6, <1>7, <1>8, <1>9, <1>10, <1>11, <1>12, <1>13, <1>14, <1>15, <1>16, <1>17, <1>18, <1>19, <1>20, <1>21, <1>22, <1>23, StepCases

-----------------------------------------------------------------------------
(* Types                                                                   *)

\* A handler that returns leaves everything well typed.
LEMMA ReturnTypes ==
  ASSUME TypeOK, NEW r \in Requests, NEW from, Return(r, from)
  PROVE  /\ pc' \in [Requests -> Await]
         /\ sess' \in [Requests -> Uploads \cup {NoUpload}]
         /\ at' \in [Requests -> Nat]
         /\ index' \in [Requests -> 0..MaxSuffix]
         /\ gone' \subseteq Requests
<1>1. 0 \in 0..MaxSuffix
  BY ReceiveAssumption
<1>2. index' \in [Requests -> 0..MaxSuffix]
  BY <1>1 DEF TypeOK, Return
<1>. QED BY <1>2 DEF TypeOK, Return, Goto, Await

\* The bytes of a part file that is written to or cut are of the three kinds.
LEMMA FillTypes ==
  ASSUME TypeOK, NEW u, NEW T, NEW byte \in {"none", "junk", "good"}, Fill(u, T, byte)
  PROVE  content' \in [Uploads -> [Positions -> {"none", "junk", "good"}]]
<1>. DEFINE Bs == [Positions -> {"none", "junk", "good"}]
            part == [p \in Positions |-> IF p \in T THEN byte ELSE content[u][p]]
<1>1. content \in [Uploads -> Bs] /\ content' = [content EXCEPT ![u] = part]
  BY DEF TypeOK, Fill
<1>2. u \in Uploads => part \in Bs
  BY <1>1
<1>. HIDE DEF Bs, part
<1>3. content' \in [Uploads -> Bs]
  BY <1>1, <1>2
<1>. QED BY <1>3 DEF Bs

\* Every step keeps the types.
LEMMA TypeStep ==
  ASSUME TypeOK, Owners, Bytes, [Next]_vars
  PROVE  TypeOK'
<1>. USE ReceiveAssumption DEF TypeOK, Creating, Working, Await, Owners, HasSession, record, files, link, locals
<1>1. ASSUME NEW r \in Requests, CreateBegin(r) PROVE TypeOK'
  BY <1>1 DEF CreateBegin, Admit, Goto
<1>2. ASSUME NEW r \in Requests, CreateRejected(r) PROVE TypeOK'
  <2>. USE <1>2 DEF CreateRejected
  <2>1. /\ pc' \in [Requests -> Await]
        /\ sess' \in [Requests -> Uploads \cup {NoUpload}]
        /\ at' \in [Requests -> Nat]
        /\ index' \in [Requests -> 0..MaxSuffix]
        /\ gone' \subseteq Requests
    BY ReturnTypes
  <2>. QED BY <2>1 DEF Return, Goto
<1>3. ASSUME NEW r \in Requests, CreateValidated(r) PROVE TypeOK'
  BY <1>3 DEF CreateValidated, Goto
<1>4. ASSUME NEW r \in Requests, OpenPart(r) PROVE TypeOK'
  BY <1>4 DEF OpenPart, Goto
<1>5. ASSUME NEW r \in Requests, OpenPartFails(r) PROVE TypeOK'
  <2>. USE <1>5 DEF OpenPartFails
  <2>1. /\ pc' \in [Requests -> Await]
        /\ sess' \in [Requests -> Uploads \cup {NoUpload}]
        /\ at' \in [Requests -> Nat]
        /\ index' \in [Requests -> 0..MaxSuffix]
        /\ gone' \subseteq Requests
    BY ReturnTypes
  <2>. QED BY <2>1 DEF Return, Goto
<1>6. ASSUME NEW r \in Requests, CreateDone(r) PROVE TypeOK'
  <2>. USE <1>6 DEF CreateDone
  <2>1. /\ pc' \in [Requests -> Await]
        /\ sess' \in [Requests -> Uploads \cup {NoUpload}]
        /\ at' \in [Requests -> Nat]
        /\ index' \in [Requests -> 0..MaxSuffix]
        /\ gone' \subseteq Requests
    BY ReturnTypes
  <2>2. sess[r] \in used
    BY DEF Return, Goto
  <2>3. uploads' \subseteq used
    BY <2>2
  <2>. QED BY <2>1, <2>3
<1>7. ASSUME NEW r \in Requests, NEW u \in Uploads, PutBegin(r, u) PROVE TypeOK'
  BY <1>7 DEF PutBegin, Work, Goto, Expected
<1>8. ASSUME NEW r \in Requests, PutOk(r) PROVE TypeOK'
  <2>1. /\ pc' \in [Requests -> Await]
        /\ sess' \in [Requests -> Uploads \cup {NoUpload}]
        /\ at' \in [Requests -> Nat]
        /\ index' \in [Requests -> 0..MaxSuffix]
        /\ gone' \subseteq Requests
    BY <1>8, ReturnTypes DEF PutOk
  <2>2. sess[r] \in Uploads /\ ChunkOf(r) \in Nat
    BY <1>8, ChunkBound DEF PutOk, Return, Goto
  <2>3. offset[sess[r]] + ChunkOf(r) \in Nat
    BY <2>2
  <2>4. offset' \in [Uploads -> Nat]
    BY <1>8, <2>3 DEF PutOk
  <2>5. content' \in [Uploads -> [Positions -> {"none", "junk", "good"}]]
    <3>1. Fill(sess[r], (at[r] + 1)..(at[r] + ChunkOf(r)), "good")
      BY <1>8 DEF PutOk
    <3>. QED BY <3>1, FillTypes
  <2>. QED BY <1>8, <2>1, <2>4, <2>5 DEF PutOk
<1>9. ASSUME NEW r \in Requests, PutFail(r) PROVE TypeOK'
  <2>1. sess[r] \in Uploads /\ offset[sess[r]] \in Nat
    BY <1>9 DEF PutFail, Goto
  <2>2. at' \in [Requests -> Nat] /\ pc' \in [Requests -> Await]
    BY <1>9, <2>1 DEF PutFail, Goto
  <2>3. content' \in [Uploads -> [Positions -> {"none", "junk", "good"}]]
    <3>1. PICK k \in 0..ChunkOf(r) : Fill(sess[r], (at[r] + 1)..(at[r] + k), "junk")
      BY <1>9 DEF PutFail
    <3>. QED BY <3>1, FillTypes
  <2>. QED BY <1>9, <2>2, <2>3 DEF PutFail
<1>10. ASSUME NEW r \in Requests, Truncated(r) PROVE TypeOK'
  <2>. USE <1>10 DEF Truncated
  <2>1. /\ pc' \in [Requests -> Await]
        /\ sess' \in [Requests -> Uploads \cup {NoUpload}]
        /\ at' \in [Requests -> Nat]
        /\ index' \in [Requests -> 0..MaxSuffix]
        /\ gone' \subseteq Requests
    BY ReturnTypes
  <2>2. content' \in [Uploads -> [Positions -> {"none", "junk", "good"}]]
    <3>1. CASE Fill(sess[r], {p \in Positions : p > at[r]}, "none")
      BY <3>1, FillTypes
    <3>2. CASE content' = content
      BY <3>2
    <3>. QED BY <3>1, <3>2
  <2>. QED BY <2>1, <2>2 DEF Return, Goto
<1>11. ASSUME NEW r \in Requests, NEW u \in Uploads, CompleteBegin(r, u) PROVE TypeOK'
  BY <1>11 DEF CompleteBegin, Work, Goto
<1>12. ASSUME NEW r \in Requests, Link(r) PROVE TypeOK'
  BY <1>12 DEF Link, Goto
<1>13. ASSUME NEW r \in Requests, NextName(r) PROVE TypeOK'
  BY <1>13 DEF NextName, Goto
<1>14. ASSUME NEW r \in Requests, LinkFails(r) PROVE TypeOK'
  <2>. USE <1>14 DEF LinkFails
  <2>1. /\ pc' \in [Requests -> Await]
        /\ sess' \in [Requests -> Uploads \cup {NoUpload}]
        /\ at' \in [Requests -> Nat]
        /\ index' \in [Requests -> 0..MaxSuffix]
        /\ gone' \subseteq Requests
    BY ReturnTypes
  <2>. QED BY <2>1 DEF Return, Goto
<1>15. ASSUME NEW r \in Requests, Linked(r) PROVE TypeOK'
  BY <1>15 DEF Linked, Goto
<1>16. ASSUME NEW r \in Requests, Unlinked(r) PROVE TypeOK'
  <2>. USE <1>16 DEF Unlinked
  <2>1. /\ pc' \in [Requests -> Await]
        /\ sess' \in [Requests -> Uploads \cup {NoUpload}]
        /\ at' \in [Requests -> Nat]
        /\ index' \in [Requests -> 0..MaxSuffix]
        /\ gone' \subseteq Requests
    BY ReturnTypes DEF Goto
  <2>. QED BY <2>1 DEF Return, Goto
<1>17. ASSUME NEW r \in Requests, Finish(r) PROVE TypeOK'
  <2>. USE <1>17 DEF Finish
  <2>1. /\ pc' \in [Requests -> Await]
        /\ sess' \in [Requests -> Uploads \cup {NoUpload}]
        /\ at' \in [Requests -> Nat]
        /\ index' \in [Requests -> 0..MaxSuffix]
        /\ gone' \subseteq Requests
    BY ReturnTypes
  <2>. QED BY <2>1 DEF Return, Goto
<1>18. ASSUME NEW r \in Requests, Hangup(r) PROVE TypeOK'
  BY <1>18 DEF Hangup
<1>19. ASSUME NEW u \in Uploads, Cancel(u) PROVE TypeOK'
  BY <1>19 DEF Cancel, Discard
<1>20. ASSUME NEW u \in Uploads, Expire(u) PROVE TypeOK'
  BY <1>20 DEF Expire, Discard
<1>21. ASSUME Close PROVE TypeOK'
  BY <1>21 DEF Close
<1>22. ASSUME CloseDone PROVE TypeOK'
  BY <1>22 DEF CloseDone, Discard, Unsaved
<1>23. ASSUME UNCHANGED vars PROVE TypeOK'
  BY <1>23 DEF vars
<1>. HIDE ReceiveAssumption DEF TypeOK, Creating, Working, Await, Owners, HasSession
<1>. QED BY <1>1, <1>2, <1>3, <1>4, <1>5, <1>6, <1>7, <1>8, <1>9, <1>10, <1>11, <1>12, <1>13, <1>14, <1>15, <1>16, <1>17, <1>18, <1>19, <1>20, <1>21, <1>22, <1>23, StepCases

-----------------------------------------------------------------------------
(* The theorems                                                            *)

IInv ==
  /\ TypeOK /\ Owners /\ PartFilesHeld /\ Bytes /\ Saving
  /\ OnceOnly /\ ClosedEmpty

\* At the start nothing is received and every request is idle.
LEMMA InvInit == Init => IInv
<1>. SUFFICES ASSUME Init PROVE IInv
  OBVIOUS
<1>. USE ReceiveAssumption DEF Init, Creating, Working, Await
<1>1. TypeOK
  <2>1. (CHOOSE n \in Names : TRUE) \in Names
    OBVIOUS
  <2>2. dir \in [FileNames -> Uploads \cup {NoUpload, OtherFile}]
    OBVIOUS
  <2>3. name \in [Uploads -> Names]
    BY <2>1
  <2>4. index \in [Requests -> 0..MaxSuffix]
    OBVIOUS
  <2>5. content \in [Uploads -> [Positions -> {"none", "junk", "good"}]]
    OBVIOUS
  <2>. QED BY <2>2, <2>3, <2>4, <2>5 DEF TypeOK
<1>2. Owners
  BY DEF Owners, HasSession, WorkerActive, OneWorker, ActiveWorked, UnusedFresh, Fresh, NewFresh
<1>3. PartFilesHeld
  BY DEF PartFilesHeld
<1>4. Bytes
  <2>1. \A p \in Positions : ~(p <= 0)
    BY DEF Positions
  <2>. QED BY <2>1 DEF Bytes, Verified, VerifiedAt, OffsetKnown
<1>5. Saving
  BY DEF Saving, SavedWhole, WritersUnsaved, SavedOnce, SavedCompletes, SavedUnlinked
<1>6. OnceOnly
  BY DEF OnceOnly, Live, WorkersReachable, OnceLatchReleased, OneCreate, CreateAlone,
         OneLive, LiveIsSaved, OneFile
<1>7. ClosedEmpty
  BY DEF ClosedEmpty
<1>. QED BY <1>1, <1>2, <1>3, <1>4, <1>5, <1>6, <1>7 DEF IInv

\* The inductive invariant: who works on a session, which bytes it has, what
\* was saved of it and what a --once link has yielded.
THEOREM ReceiveInvariant == Spec => []IInv
<1>1. IInv /\ [Next]_vars => IInv'
  <2>. SUFFICES ASSUME IInv, [Next]_vars PROVE IInv'
    OBVIOUS
  <2>. USE DEF IInv
  <2>1. TypeOK'
    BY TypeStep
  <2>2. Owners'
    BY OwnersStep
  <2>3. PartFilesHeld'
    BY PartsStep DEF Saving
  <2>4. Bytes'
    BY BytesStep
  <2>5. Saving'
    BY SavingStep
  <2>6. OnceOnly'
    BY OnceStep
  <2>7. ClosedEmpty'
    BY ClosedStep
  <2>. QED BY <2>1, <2>2, <2>3, <2>4, <2>5, <2>6, <2>7
<1>. QED BY InvInit, <1>1, PTL DEF Spec

\* Every variable keeps its type.
THEOREM ReceiveTypeOK == Spec => []TypeOK
<1>1. IInv => TypeOK
  BY DEF IInv
<1>. QED BY <1>1, ReceiveInvariant, PTL

\* The offset a sender resumes from has only verified bytes before it.
THEOREM ReceiveResumePointVerified == Spec => []ResumePointVerified
<1>1. IInv => ResumePointVerified
  <2>. SUFFICES ASSUME IInv, NEW u \in used
                PROVE  /\ offset[u] <= size[u]
                       /\ \A p \in 1..offset[u] : content[u][p] = "good"
    BY DEF ResumePointVerified
  <2>1. u \in Uploads /\ VerifiedAt(u)
    BY DEF IInv, TypeOK, Bytes, Verified
  <2>2. size[u] \in Nat /\ offset[u] \in Nat
    BY <2>1, SizesNat DEF IInv
  <2>3. size[u] \in Sizes \cup {0}
    BY <2>1 DEF IInv, TypeOK
  <2>4. 1..offset[u] \subseteq Positions
    <3>1. CASE size[u] = 0
      BY <2>1, <2>2, <3>1 DEF VerifiedAt
    <3>2. CASE size[u] \in Sizes
      <4>1. 1..size[u] \subseteq Positions
        BY <3>2 DEF Positions
      <4>2. 1..offset[u] \subseteq 1..size[u]
        BY <2>1, <2>2 DEF VerifiedAt
      <4>. QED BY <4>1, <4>2
    <3>. QED BY <2>3, <3>1, <3>2
  <2>5. \A p \in 1..offset[u] : p <= offset[u]
    BY <2>2
  <2>. QED BY <2>1, <2>4, <2>5 DEF VerifiedAt
<1>. QED BY <1>1, ReceiveInvariant, PTL

\* A file under its final name is complete, verified and as long as announced.
THEOREM ReceiveSavedComplete == Spec => []SavedComplete
<1>1. IInv => SavedComplete
  <2>. SUFFICES ASSUME IInv, NEW f \in FileNames, dir[f] \in Uploads, NEW p \in Positions
                PROVE  content[dir[f]][p] = IF p <= size[dir[f]] THEN "good" ELSE "none"
    BY DEF SavedComplete
  <2>1. offset[dir[f]] = size[dir[f]]
    BY DEF IInv, Saving, SavedWhole
  <2>2. VerifiedAt(dir[f])
    BY DEF IInv, Bytes, Verified
  <2>3. size[dir[f]] \in Nat /\ p \in Nat
    BY SizesNat, PositionsNat DEF IInv
  <2>. QED BY <2>1, <2>2, <2>3 DEF VerifiedAt
<1>. QED BY <1>1, ReceiveInvariant, PTL

\* An upload is saved under one name.
THEOREM ReceiveSavedOnce == Spec => []SavedOnce
<1>1. IInv => SavedOnce
  BY DEF IInv, Saving
<1>. QED BY <1>1, ReceiveInvariant, PTL

\* A --once link yields one file at most.
THEOREM ReceiveOnceAtMostOne == Spec => []OnceAtMostOne
<1>1. IInv => OnceAtMostOne
  <2>. SUFFICES ASSUME IInv, once
                PROVE  Cardinality({f \in FileNames : dir[f] \in Uploads}) <= 1
    BY DEF OnceAtMostOne
  <2>. DEFINE Files == {f \in FileNames : dir[f] \in Uploads}
  <2>1. \A f, g \in Files : f = g
    BY DEF IInv, OnceOnly, OneFile, Saving, SavedOnce
  <2>2. CASE Files # {}
    <3>1. PICK f \in Files : Files = {f}
      BY <2>1, <2>2
    <3>2. Cardinality(Files) = 1
      BY <3>1, FS_Singleton
    <3>. QED BY <3>2
  <2>3. CASE Files = {}
    <3>1. Cardinality(Files) = 0
      BY <2>3, FS_EmptySet
    <3>. QED BY <3>1
  <2>. QED BY <2>2, <2>3
<1>. QED BY <1>1, ReceiveInvariant, PTL

\* A part file belongs to a session that can still end, to a handler that is
\* about to register or to remove it, or to a create that came in too late for
\* close() to discard it.
THEOREM ReceivePartFilesOwned == Spec => []PartFilesOwned
<1>1. IInv => PartFilesOwned
  <2>. SUFFICES ASSUME IInv, NEW u \in temps, server # "closed", u \in uploads
                PROVE  CanEnd(u) \/ \E r \in Requests : sess[r] = u /\ pc[r] = "unlinking"
    BY DEF IInv, PartFilesHeld, PartFilesOwned
  <2>1. CASE active[u]
    BY <2>1 DEF IInv, Owners, ActiveWorked, CanEnd
  <2>2. CASE ~active[u] /\ saved[u]
    BY <2>2 DEF IInv, Saving, SavedUnlinked
  <2>3. CASE ~active[u] /\ ~saved[u]
    BY <2>3 DEF CanEnd
  <2>. QED BY <2>1, <2>2, <2>3
<1>. QED BY <1>1, ReceiveInvariant, PTL

\* A session has one working handler while it is active, and none otherwise.
THEOREM ReceiveExclusiveWorker == Spec => []ExclusiveWorker
<1>1. IInv => ExclusiveWorker
  <2>. SUFFICES ASSUME IInv, NEW u \in uploads
                PROVE  Cardinality({r \in Requests : sess[r] = u /\ pc[r] \in Working})
                         = IF active[u] THEN 1 ELSE 0
    BY DEF ExclusiveWorker
  <2>. DEFINE workers == {r \in Requests : sess[r] = u /\ pc[r] \in Working}
  <2>1. CASE active[u]
    <3>1. PICK r \in Requests : pc[r] \in Working /\ sess[r] = u
      BY <2>1 DEF IInv, Owners, ActiveWorked
    <3>2. workers = {r}
      BY <3>1 DEF IInv, Owners, OneWorker
    <3>3. Cardinality(workers) = 1
      BY <3>2, FS_Singleton
    <3>. QED BY <2>1, <3>3
  <2>2. CASE ~active[u]
    <3>1. workers = {}
      BY <2>2 DEF IInv, Owners, WorkerActive
    <3>2. Cardinality(workers) = 0
      BY <3>1, FS_EmptySet
    <3>. QED BY <2>2, <3>2
  <2>. QED BY <2>1, <2>2
<1>. QED BY <1>1, ReceiveInvariant, PTL

\* The latch of a --once link is held exactly while a create is in progress.
THEOREM ReceiveOnceLatchReleased == Spec => []OnceLatchReleased
<1>1. IInv => OnceLatchReleased
  BY DEF IInv, OnceOnly
<1>. QED BY <1>1, ReceiveInvariant, PTL

\* Once closed, no received byte is left in a part file of an unsaved upload.
THEOREM ReceiveClosedKeepsNoData == Spec => []ClosedKeepsNoData
<1>1. IInv => ClosedKeepsNoData
  BY DEF IInv, ClosedEmpty, ClosedKeepsNoData, Saving, SavedUnlinked
<1>. QED BY <1>1, ReceiveInvariant, PTL
=============================================================================
