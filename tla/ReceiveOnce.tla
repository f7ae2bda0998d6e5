----------------------------- MODULE ReceiveOnce -----------------------------
(***************************************************************************)
(* What must eventually happen in the upload server, and when `tunli        *)
(* receive --once' stops (src/commands/CommandReceive/CommandReceive.ts).  *)
(***************************************************************************)
EXTENDS ReceiveServer

\* A handler at an await is resumed: the file system answers, the body of a
\* request arrives or its connection fails, a response is flushed.  A failure
\* is never owed, except where nothing else can come.
Resume(r) ==
  \/ CreateRejected(r) \/ CreateValidated(r)
  \/ OpenPart(r) \/ OpenPartFails(r) \/ CreateDone(r)
  \/ PutOk(r) \/ PutFail(r) \/ Truncated(r)
  \/ Link(r) \/ NextName(r) \/ (sess[r] \notin temps /\ LinkFails(r))
  \/ Linked(r) \/ Unlinked(r) \/ Finish(r)

\* onOnceComplete: setTimeout(() => stop(), 2000).
OnceClose == onceFired /\ Close

\* Timers fire, awaits are resumed, server.close calls back.  Nothing is
\* assumed of the senders: no request is ever made, retried or kept open.
Fairness ==
  /\ \A r \in Requests : WF_vars(Resume(r))
  /\ WF_vars(OnceClose)
  /\ WF_vars(CloseDone)

FairSpec == Spec /\ Fairness

-----------------------------------------------------------------------------
(* Properties                                                              *)

\* Every request is answered or dropped: no handler waits for another one for
\* ever, and the search for a free name ends.
HandlersReturn == \A r \in Requests : pc[r] # "idle" ~> pc[r] = "idle"

\* A --once upload that is saved while its connection is open stops the
\* receiver (src/README.md:85, `stop after one successful upload'), unless
\* that connection is destroyed before the response is out: `finish' is then
\* never emitted, and the receiver goes on with its file saved, answering 410.
OnceStopsUnlessCut ==
  \A r \in Requests :
    (once /\ pc[r] = "unlinking" /\ r \notin gone)
      ~> (server = "closed" \/ r \in gone)
=============================================================================
