---------------------------- MODULE ReplayBuffer -----------------------------
(***************************************************************************)
(* The ring buffer of captured requests (src/daemon/ReplayBuffer.ts) as    *)
(* operators on sequences, oldest entry first.  Of an entry only the id,   *)
(* the body and bodyUnavailable matter here; its meta form is an entry     *)
(* whose body is NoBody.                                                   *)
(***************************************************************************)
EXTENDS Integers, Sequences

CONSTANTS
  Capacity,        \* REPLAY_BUFFER_CAPACITY
  NoBody           \* body: null

ASSUME CapacityAssumption == Capacity \in Nat \ {0}

Entry(id, body, state) == [id |-> id, body |-> body, state |-> state]

\* Slip: drops the newest of the old entries instead of the oldest.
PushPops(buf, e) ==
  IF Len(buf) >= Capacity THEN Append(SubSeq(buf, 1, Len(buf) - 1), e) ELSE Append(buf, e)

\* push: append, and shift once when that exceeds the capacity.
Push(buf, e) ==
  LET longer == Append(buf, e) IN
  IF Len(longer) > Capacity THEN Tail(longer) ELSE longer

\* getAll: newest first; limit 0 stands for no limit, as undefined does.
GetAll(buf, limit) ==
  LET n == IF limit = 0 \/ limit > Len(buf) THEN Len(buf) ELSE limit IN
  [i \in 1..n |-> buf[Len(buf) + 1 - i]]

\* getById: the entries with that id; find() returns the first.
Matches(buf, id) == {i \in DOMAIN buf : buf[i].id = id}
GetById(buf, id) == buf[CHOOSE i \in Matches(buf, id) : \A j \in Matches(buf, id) : i <= j]

\* Slip: keeps the flag of the entry.
ToMetaKeepsFlag(buf) == [i \in DOMAIN buf |-> [buf[i] EXCEPT !.body = NoBody]]

\* toMeta and restoreFromMeta: what survives a restart of the daemon has no
\* body, and says so even of a request that never had one.
ToMeta(buf) == [i \in DOMAIN buf |-> Entry(buf[i].id, NoBody, "unavailable")]
RestoreFromMeta(metas) == [i \in DOMAIN metas |-> [metas[i] EXCEPT !.body = NoBody]]

\* filter(): what is left when any of the entries are dropped; kept[i] is the
\* old position of the i-th entry left.
Filters(n, m) ==
  {kept \in [1..n -> 1..m] : \A i, j \in 1..n : i < j => kept[i] < kept[j]}
Filtered(metas) ==
  UNION {{[i \in 1..n |-> metas[kept[i]]] : kept \in Filters(n, Len(metas))} :
           n \in 0..Len(metas)}
=============================================================================
