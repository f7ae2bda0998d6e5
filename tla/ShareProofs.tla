---------------------------- MODULE ShareProofs -----------------------------
(***************************************************************************)
(* Theorems about Share, for any number of connections, sessions, chunks   *)
(* and dropped sockets: what a private tunnel delivers, and when its two   *)
(* ends are open.                                                          *)
(***************************************************************************)
EXTENDS Share, SequenceTheorems, FiniteSetTheorems, TLAPS

Events ==
  [type : {"register", "connect", "connected", "error", "start", "data", "end"},
   session : Nat, chunk : Nat \cup {None}, by : Conns \cup {None}]

-----------------------------------------------------------------------------
(* Queues                                                                  *)

\* An event joins the end of a queue.
LEMMA QueueAppend ==
  ASSUME NEW q \in Seq(Events), NEW e \in Events
  PROVE  /\ q \o <<e>> = Append(q, e)
         /\ Append(q, e) \in Seq(Events) /\ DOMAIN Append(q, e) = 1..Len(q) + 1
         /\ DOMAIN q = 1..Len(q) /\ Len(q) \in Nat
         /\ \A i \in DOMAIN q : Append(q, e)[i] = q[i]
         /\ Append(q, e)[Len(q) + 1] = e
         /\ Range(Append(q, e)) = Range(q) \cup {e}
<1>1. q \o <<e>> = Append(q, e)
  OBVIOUS
<1>2. /\ Append(q, e) \in Seq(Events) /\ DOMAIN Append(q, e) = 1..Len(q) + 1
      /\ DOMAIN q = 1..Len(q) /\ Len(q) \in Nat
  OBVIOUS
<1>3. \A i \in DOMAIN q : Append(q, e)[i] = q[i]
  OBVIOUS
<1>4. Append(q, e)[Len(q) + 1] = e
  OBVIOUS
<1>5. Range(Append(q, e)) = Range(q) \cup {e}
  <2>. DEFINE r == Append(q, e)
  <2>1. \A x : x \in Range(r) <=> \E i \in 1..Len(q) + 1 : x = r[i]
    BY <1>2 DEF Range
  <2>2. \A x : x \in Range(q) <=> \E i \in 1..Len(q) : x = q[i]
    BY <1>2 DEF Range
  <2>3. (\A i \in 1..Len(q) : r[i] = q[i]) /\ r[Len(q) + 1] = e /\ Len(q) \in Nat
    BY <1>2, <1>3, <1>4
  <2>. HIDE DEF r
  <2>4. \A i : i \in 1..Len(q) + 1 <=> i \in 1..Len(q) \/ i = Len(q) + 1
    BY <2>3
  <2>5. \A x : x \in Range(r) <=> x \in Range(q) \/ x = e
    BY <2>1, <2>2, <2>3, <2>4
  <2>. QED BY <2>5 DEF r
<1>. QED BY <1>1, <1>2, <1>3, <1>4, <1>5

\* Its first event is taken out.
LEMMA QueueTail ==
  ASSUME NEW q \in Seq(Events), q # <<>>
  PROVE  /\ Head(q) \in Events /\ Head(q) = q[1] /\ Head(q) \in Range(q)
         /\ Tail(q) \in Seq(Events) /\ DOMAIN Tail(q) = 1..Len(q) - 1
         /\ DOMAIN q = 1..Len(q) /\ Len(q) \in Nat \ {0}
         /\ \A i \in DOMAIN Tail(q) : Tail(q)[i] = q[i + 1]
         /\ Range(q) = {Head(q)} \cup Range(Tail(q))
<1>1. /\ Tail(q) \in Seq(Events) /\ DOMAIN Tail(q) = 1..Len(q) - 1
      /\ DOMAIN q = 1..Len(q) /\ Len(q) \in Nat \ {0}
  OBVIOUS
<1>2. Head(q) = q[1] /\ Head(q) \in Events
  OBVIOUS
<1>3. \A i \in DOMAIN Tail(q) : Tail(q)[i] = q[i + 1]
  OBVIOUS
<1>4. Range(q) = {Head(q)} \cup Range(Tail(q))
  <2>. DEFINE r == Tail(q)
              h == Head(q)
  <2>1. \A x : x \in Range(r) <=> \E i \in 1..Len(q) - 1 : x = r[i]
    BY <1>1 DEF Range
  <2>2. \A x : x \in Range(q) <=> \E i \in 1..Len(q) : x = q[i]
    BY <1>1 DEF Range
  <2>3. (\A i \in 1..Len(q) - 1 : r[i] = q[i + 1]) /\ h = q[1] /\ Len(q) \in Nat \ {0}
    BY <1>1, <1>2, <1>3
  <2>. HIDE DEF r, h
  <2>4. \A x : x \in Range(q) => x = h \/ x \in Range(r)
    <3>. SUFFICES ASSUME NEW i \in 1..Len(q), q[i] # h PROVE q[i] \in Range(r)
      BY <2>2
    <3>1. i - 1 \in 1..Len(q) - 1 /\ q[(i - 1) + 1] = q[i]
      BY <2>3
    <3>. QED BY <2>1, <2>3, <3>1
  <2>5. \A x : x \in Range(r) => x \in Range(q)
    <3>. SUFFICES ASSUME NEW i \in 1..Len(q) - 1 PROVE r[i] \in Range(q)
      BY <2>1
    <3>1. i + 1 \in 1..Len(q) /\ r[i] = q[i + 1]
      BY <2>3
    <3>. QED BY <2>2, <3>1
  <2>6. h \in Range(q)
    BY <2>2, <2>3
  <2>. QED BY <2>4, <2>5, <2>6 DEF r, h
<1>. QED BY <1>1, <1>2, <1>3, <1>4

\* The ends of all sessions that were bridged.
Ends == [i \in DOMAIN SetToSeq(bridged) |-> Event("end", SetToSeq(bridged)[i])]

\* A set that is finite is listed by SetToSeq in full.
LEMMA ListsAll ==
  ASSUME NEW S, IsFiniteSet(S)
  PROVE  SetToSeq(S) \in Seq(S) /\ Range(SetToSeq(S)) = S
<1>. DEFINE n == Cardinality(S)
            f == SetToSeq(S)
<1>1. n \in Nat
  BY FS_CardinalityType
<1>2. \E g : ExistsBijection(1..n, S)
  BY FS_CardinalityType
<1>3. \E g \in [1..n -> S] : IsInjective(g)
  <2>1. PICK g : g \in Bijection(1..n, S)
    BY <1>2 DEF ExistsBijection
  <2>. QED BY <2>1 DEF Bijection, Injection, IsInjective
<1>4. f \in [1..n -> S] /\ IsInjective(f)
  BY <1>3 DEF SetToSeq
<1>5. f \in Seq(S) /\ DOMAIN f = 1..n
  BY <1>1, <1>4, IsASeq
<1>6. f \in Injection(1..n, S)
  BY <1>4 DEF Injection
<1>7. Cardinality(1..n) = n
  BY <1>1, FS_Interval
<1>8. f \in Surjection(1..n, S)
  BY <1>6, <1>7, FS_Injection
<1>9. Range(f) = S
  BY <1>8 DEF Surjection, Range
<1>. QED BY <1>5, <1>9

\* The relay adds the end of every session to a queue.
LEMMA QueueEnds ==
  ASSUME NEW q \in Seq(Events), bridged \subseteq Nat, IsFiniteSet(bridged)
  PROVE  /\ q \o Ends \in Seq(Events) /\ DOMAIN q = 1..Len(q) /\ Len(q) \in Nat
         /\ \E n \in Nat : DOMAIN (q \o Ends) = 1..Len(q) + n
         /\ \A i \in DOMAIN q : (q \o Ends)[i] = q[i]
         /\ \A i \in DOMAIN (q \o Ends) \ DOMAIN q : (q \o Ends)[i].type = "end"
         /\ Range(q \o Ends) = Range(q) \cup {Event("end", s) : s \in bridged}
<1>. DEFINE f == SetToSeq(bridged)
            E == Ends
            n == Len(f)
            r == q \o E
<1>1. f \in Seq(bridged) /\ Range(f) = bridged
  BY ListsAll
<1>2. n \in Nat /\ DOMAIN f = 1..n /\ \A i \in 1..n : f[i] \in bridged
  BY <1>1
<1>3. E = [i \in 1..n |-> Event("end", f[i])]
  BY <1>2 DEF Ends
<1>4. \A i \in 1..n : E[i] = Event("end", f[i]) /\ E[i] \in Events /\ E[i].type = "end"
  BY <1>2, <1>3 DEF Event, Events
<1>5. E \in Seq(Events) /\ Len(E) = n
  <2>1. E \in [1..n -> Events]
    BY <1>3, <1>4
  <2>2. E \in Seq(Events)
    BY <1>2, <2>1, IsASeq
  <2>. QED BY <1>2, <2>1, <2>2, LenProperties
<1>. HIDE DEF f, E, n
<1>6. r \in Seq(Events) /\ DOMAIN q = 1..Len(q) /\ Len(q) \in Nat /\ DOMAIN r = 1..Len(q) + n
  <2>1. r \in Seq(Events) /\ Len(r) = Len(q) + Len(E)
    BY <1>5, ConcatProperties
  <2>3. DOMAIN q = 1..Len(q) /\ Len(q) \in Nat
    OBVIOUS
  <2>2. DOMAIN r = 1..Len(r)
    BY <2>1
  <2>. QED BY <1>5, <2>1, <2>2, <2>3
<1>7. \A i \in 1..Len(q) + n : r[i] = IF i <= Len(q) THEN q[i] ELSE E[i - Len(q)]
  BY <1>2, <1>5, ConcatProperties
<1>. HIDE DEF r
<1>8. \A i \in DOMAIN q : r[i] = q[i]
  BY <1>2, <1>6, <1>7
<1>9. \A i \in DOMAIN r \ DOMAIN q : i - Len(q) \in 1..n /\ r[i] = E[i - Len(q)]
  BY <1>2, <1>6, <1>7
<1>10. Range(r) = Range(q) \cup {Event("end", s) : s \in bridged}
  <2>1. Range(r) \subseteq Range(q) \cup {Event("end", s) : s \in bridged}
    <3>. SUFFICES ASSUME NEW i \in DOMAIN r
         PROVE  r[i] \in Range(q) \cup {Event("end", s) : s \in bridged}
      BY DEF Range
    <3>1. CASE i \in DOMAIN q
      BY <1>8, <3>1 DEF Range
    <3>2. CASE i \notin DOMAIN q
      <4>1. PICK j \in 1..n : r[i] = E[j]
        BY <1>9, <3>2
      <4>. QED BY <1>2, <1>4, <4>1
    <3>. QED BY <3>1, <3>2
  <2>2. Range(q) \subseteq Range(r)
    <3>1. DOMAIN q \subseteq DOMAIN r
      BY <1>2, <1>6
    <3>. QED BY <1>8, <3>1 DEF Range
  <2>3. ASSUME NEW s \in bridged PROVE Event("end", s) \in Range(r)
    <3>1. PICK i \in 1..n : f[i] = s
      BY <1>1, <1>2 DEF Range
    <3>2. Len(q) + i \in DOMAIN r /\ ~(Len(q) + i <= Len(q)) /\ (Len(q) + i) - Len(q) = i
      BY <1>2, <1>6
    <3>3. r[Len(q) + i] = E[i]
      BY <1>6, <1>7, <3>2
    <3>. QED BY <1>4, <3>1, <3>2, <3>3 DEF Range
  <2>. QED BY <2>1, <2>2, <2>3
<1>11. \A i \in DOMAIN r \ DOMAIN q : r[i].type = "end"
  BY <1>4, <1>9
<1>. QED BY <1>2, <1>6, <1>8, <1>10, <1>11 DEF r, E

-----------------------------------------------------------------------------
(* Streams                                                                 *)

\* The place of an event in its session: its start, then its chunks.
Num(e) == IF e.type = "start" THEN 0 ELSE e.chunk
Item(e, s) == e.type \in {"start", "data"} /\ e.session = s

\* In q, session s has the events of connection c from k + 1 to m, in order.
Run(q, s, c, k, m) ==
  /\ k \in Int /\ m \in Int /\ k <= m
  /\ \A i \in DOMAIN q : Item(q[i], s) => q[i].by = c /\ Num(q[i]) \in (k + 1)..m
  /\ \A i, j \in DOMAIN q : Item(q[i], s) /\ Item(q[j], s) /\ i < j => Num(q[i]) < Num(q[j])
  /\ \A n \in (k + 1)..m : \E i \in DOMAIN q : Item(q[i], s) /\ Num(q[i]) = n

\* A queue that holds nothing of the session.
LEMMA RunNone ==
  ASSUME NEW q, NEW s, NEW c, NEW k \in Int, \A e \in Range(q) : ~Item(e, s)
  PROVE  Run(q, s, c, k, k)
BY DEF Run, Range

\* What joins the queue is of another kind, or of another session.
LEMMA RunSkip ==
  ASSUME NEW q \in Seq(Events), NEW r \in Seq(Events), NEW s, NEW c, NEW k, NEW m,
         Run(q, s, c, k, m), DOMAIN q \subseteq DOMAIN r,
         \A i \in DOMAIN q : r[i] = q[i],
         \A i \in DOMAIN r \ DOMAIN q : ~Item(r[i], s)
  PROVE  Run(r, s, c, k, m)
BY DEF Run

\* The next event of the session joins the queue.
LEMMA RunAdd ==
  ASSUME NEW q \in Seq(Events), NEW e \in Events, NEW s, NEW c, NEW k, NEW m,
         Run(q, s, c, k, m), Item(e, s), e.by = c, Num(e) = m + 1
  PROVE  Run(Append(q, e), s, c, k, m + 1)
<1>. DEFINE r == Append(q, e)
<1>1. /\ DOMAIN r = 1..Len(q) + 1 /\ DOMAIN q = 1..Len(q) /\ Len(q) \in Nat
      /\ (\A i \in DOMAIN q : r[i] = q[i]) /\ r[Len(q) + 1] = e
  BY QueueAppend
<1>. HIDE DEF r
<1>2. \A i \in DOMAIN r : i \in DOMAIN q \/ i = Len(q) + 1
  BY <1>1
<1>3. k \in Int /\ m \in Int /\ k <= m
  BY DEF Run
<1>4. \A i \in DOMAIN r : Item(r[i], s) => r[i].by = c /\ Num(r[i]) \in (k + 1)..(m + 1)
  <2>. SUFFICES ASSUME NEW i \in DOMAIN r, Item(r[i], s)
       PROVE  r[i].by = c /\ Num(r[i]) \in (k + 1)..(m + 1)
    OBVIOUS
  <2>1. CASE i \in DOMAIN q
    <3>1. r[i].by = c /\ Num(r[i]) \in (k + 1)..m
      BY <1>1, <2>1 DEF Run
    <3>. QED BY <1>3, <3>1
  <2>2. CASE i = Len(q) + 1
    BY <1>1, <1>3, <2>2
  <2>. QED BY <1>2, <2>1, <2>2
<1>5. ASSUME NEW i \in DOMAIN r, NEW j \in DOMAIN r, Item(r[i], s), Item(r[j], s), i < j
      PROVE  Num(r[i]) < Num(r[j])
  <2>1. i \in DOMAIN q
    BY <1>1, <1>2, <1>5
  <2>2. CASE j \in DOMAIN q
    BY <1>1, <1>5, <2>1, <2>2 DEF Run
  <2>3. CASE j = Len(q) + 1
    <3>1. Num(r[i]) \in (k + 1)..m /\ Num(r[j]) = m + 1
      BY <1>1, <1>5, <2>1, <2>3 DEF Run
    <3>. QED BY <1>3, <3>1
  <2>. QED BY <1>2, <2>2, <2>3
<1>6. ASSUME NEW n \in (k + 1)..(m + 1) PROVE \E i \in DOMAIN r : Item(r[i], s) /\ Num(r[i]) = n
  <2>1. CASE n = m + 1
    <3>1. Len(q) + 1 \in DOMAIN r
      BY <1>1
    <3>. QED BY <1>1, <2>1, <3>1
  <2>2. CASE n # m + 1
    <3>1. n \in (k + 1)..m
      BY <1>3, <2>2
    <3>2. PICK i \in DOMAIN q : Item(q[i], s) /\ Num(q[i]) = n
      BY <3>1 DEF Run
    <3>. QED BY <1>1, <3>2
  <2>. QED BY <2>1, <2>2
<1>7. m + 1 \in Int /\ k <= m + 1
  BY <1>3
<1>8. Run(r, s, c, k, m + 1)
  BY <1>3, <1>4, <1>5, <1>6, <1>7 DEF Run
<1>. QED BY <1>8 DEF r

\* An event of another kind or session leaves the queue, ...
LEMMA RunDrop ==
  ASSUME NEW q \in Seq(Events), q # <<>>, NEW s, NEW c, NEW k, NEW m,
         Run(q, s, c, k, m), ~Item(Head(q), s)
  PROVE  Run(Tail(q), s, c, k, m)
<1>. DEFINE r == Tail(q)
<1>1. /\ DOMAIN r = 1..Len(q) - 1 /\ DOMAIN q = 1..Len(q) /\ Len(q) \in Nat \ {0}
      /\ (\A i \in DOMAIN r : r[i] = q[i + 1]) /\ ~Item(q[1], s)
  BY QueueTail
<1>. HIDE DEF r
<1>2. \A i \in DOMAIN r : i + 1 \in DOMAIN q /\ r[i] = q[i + 1]
  BY <1>1
<1>3. \A i, j \in DOMAIN r : i < j => i + 1 < j + 1
  BY <1>1
<1>4. ASSUME NEW i \in DOMAIN q, Item(q[i], s) PROVE i - 1 \in DOMAIN r /\ r[i - 1] = q[i]
  <2>1. i # 1 /\ i \in 1..Len(q)
    BY <1>1, <1>4
  <2>2. i - 1 \in DOMAIN r /\ (i - 1) + 1 = i
    BY <1>1, <2>1
  <2>. QED BY <1>2, <2>2
<1>5. \A i \in DOMAIN r : Item(r[i], s) => r[i].by = c /\ Num(r[i]) \in (k + 1)..m
  BY <1>2 DEF Run
<1>6. \A i, j \in DOMAIN r : Item(r[i], s) /\ Item(r[j], s) /\ i < j => Num(r[i]) < Num(r[j])
  BY <1>2, <1>3 DEF Run
<1>7. \A n \in (k + 1)..m : \E i \in DOMAIN r : Item(r[i], s) /\ Num(r[i]) = n
  BY <1>4 DEF Run
<1>. QED BY <1>5, <1>6, <1>7 DEF Run, r

\* ... or the first one of the session.
LEMMA RunTake ==
  ASSUME NEW q \in Seq(Events), q # <<>>, NEW s, NEW c, NEW k, NEW m,
         Run(q, s, c, k, m), Item(Head(q), s)
  PROVE  /\ Head(q).by = c /\ Num(Head(q)) = k + 1 /\ k + 1 <= m
         /\ Run(Tail(q), s, c, k + 1, m)
<1>. DEFINE r == Tail(q)
            h == Head(q)
<1>1. /\ DOMAIN r = 1..Len(q) - 1 /\ DOMAIN q = 1..Len(q) /\ Len(q) \in Nat \ {0}
      /\ (\A i \in DOMAIN r : r[i] = q[i + 1]) /\ Item(q[1], s) /\ h = q[1]
  BY QueueTail
<1>. HIDE DEF r, h
<1>2. \A i \in DOMAIN r : i + 1 \in DOMAIN q /\ r[i] = q[i + 1] /\ 1 < i + 1
  BY <1>1
<1>3. \A i, j \in DOMAIN r : i < j => i + 1 < j + 1
  BY <1>1
<1>4. \A i \in DOMAIN q : i # 1 => 1 < i /\ i - 1 \in DOMAIN r /\ r[i - 1] = q[i]
  <2>. SUFFICES ASSUME NEW i \in DOMAIN q, i # 1
       PROVE  1 < i /\ i - 1 \in DOMAIN r /\ r[i - 1] = q[i]
    OBVIOUS
  <2>1. i - 1 \in DOMAIN r /\ (i - 1) + 1 = i /\ 1 < i
    BY <1>1
  <2>. QED BY <1>2, <2>1
<1>5. k \in Int /\ m \in Int /\ k <= m /\ 1 \in DOMAIN q
  BY <1>1 DEF Run
<1>6. q[1].by = c /\ Num(q[1]) \in (k + 1)..m
  BY <1>1, <1>5 DEF Run
<1>7. \A i \in DOMAIN q : Item(q[i], s) /\ i # 1 => Num(q[1]) < Num(q[i])
  BY <1>1, <1>4, <1>5 DEF Run
<1>8. Num(q[1]) = k + 1
  <2>1. k + 1 \in (k + 1)..m
    BY <1>5, <1>6
  <2>2. PICK i \in DOMAIN q : Item(q[i], s) /\ Num(q[i]) = k + 1
    BY <2>1 DEF Run
  <2>3. CASE i # 1
    BY <1>5, <1>6, <1>7, <2>2, <2>3
  <2>. QED BY <2>2, <2>3
<1>9. \A i \in DOMAIN r : Item(r[i], s) => r[i].by = c /\ Num(r[i]) \in (k + 2)..m
  <2>. SUFFICES ASSUME NEW i \in DOMAIN r, Item(r[i], s)
       PROVE  r[i].by = c /\ Num(r[i]) \in (k + 2)..m
    OBVIOUS
  <2>1. i + 1 \in DOMAIN q /\ r[i] = q[i + 1] /\ i + 1 # 1
    BY <1>1, <1>2
  <2>2. r[i].by = c /\ Num(r[i]) \in (k + 1)..m
    BY <2>1 DEF Run
  <2>3. k + 1 < Num(r[i])
    BY <1>7, <1>8, <2>1
  <2>. QED BY <1>5, <2>2, <2>3
<1>10. \A i, j \in DOMAIN r : Item(r[i], s) /\ Item(r[j], s) /\ i < j => Num(r[i]) < Num(r[j])
  BY <1>2, <1>3 DEF Run
<1>11. ASSUME NEW n \in (k + 2)..m PROVE \E i \in DOMAIN r : Item(r[i], s) /\ Num(r[i]) = n
  <2>1. n \in (k + 1)..m /\ n # k + 1
    BY <1>5
  <2>2. PICK i \in DOMAIN q : Item(q[i], s) /\ Num(q[i]) = n
    BY <2>1 DEF Run
  <2>3. i # 1
    BY <1>8, <2>1, <2>2
  <2>. QED BY <1>4, <2>2, <2>3
<1>12. k + 1 + 1 = k + 2 /\ k + 1 \in Int /\ k + 1 <= m
  BY <1>5, <1>6
<1>. QED BY <1>1, <1>5, <1>6, <1>8, <1>9, <1>10, <1>11, <1>12 DEF Run, r, h

-----------------------------------------------------------------------------
(* The order of other events                                               *)

\* No session is announced twice.
Once(q) == \A i, j \in DOMAIN q : i # j /\ q[i].type = "connected" => q[i] # q[j]

\* The end of a session is followed by the request for the next one.
Followed(q) ==
  \A i \in DOMAIN q : q[i].type = "end" =>
    \E j \in DOMAIN q : i < j /\ q[j].type = "connect"

\* The end of session s comes before any request for another one.
EndFirst(q, s) ==
  \E i \in DOMAIN q :
    q[i] = Event("end", s) /\ \A j \in DOMAIN q : j < i => q[j].type # "connect"

\* Nothing of a session comes after its end.
Final(q) ==
  \A i, j \in DOMAIN q : q[i].type = "end" /\ i < j => ~Item(q[j], q[i].session)

Has(q, type) == \E e \in Range(q) : e.type = type

\* r is q with further events at its end, none of which is a start or data.
Extends(q, r) ==
  /\ q \in Seq(Events) /\ r \in Seq(Events)
  /\ DOMAIN q \subseteq DOMAIN r /\ \A i \in DOMAIN q : r[i] = q[i]
  /\ \A i \in DOMAIN r \ DOMAIN q : r[i].type \notin {"start", "data"}

\* What an event at the end of a queue does to these.
LEMMA AppendOrder ==
  ASSUME NEW q \in Seq(Events), NEW e \in Events
  PROVE  /\ Once(q) /\ (e.type = "connected" => e \notin Range(q)) => Once(Append(q, e))
         /\ Followed(q) /\ e.type # "end" => Followed(Append(q, e))
         /\ e.type = "connect" => Followed(Append(q, e))
         /\ \A s : EndFirst(q, s) => EndFirst(Append(q, e), s)
         /\ \A s : e = Event("end", s) /\ ~Has(q, "connect") => EndFirst(Append(q, e), s)
         /\ e.type \notin {"start", "data"} => Extends(q, Append(q, e))
         /\ Final(q) /\ (\A x \in Range(q) : x.type = "end" => ~Item(e, x.session)) =>
              Final(Append(q, e))
<1>. DEFINE r == Append(q, e)
<1>1. /\ DOMAIN r = 1..Len(q) + 1 /\ DOMAIN q = 1..Len(q) /\ Len(q) \in Nat
      /\ (\A i \in DOMAIN q : r[i] = q[i]) /\ r[Len(q) + 1] = e /\ r \in Seq(Events)
  BY QueueAppend
<1>. HIDE DEF r
<1>2. /\ \A i \in DOMAIN r : i \in DOMAIN q \/ i = Len(q) + 1
      /\ Len(q) + 1 \in DOMAIN r /\ DOMAIN q \subseteq DOMAIN r
      /\ \A i \in DOMAIN q : i < Len(q) + 1 /\ ~(Len(q) + 1 < i)
  BY <1>1
<1>3. ASSUME Once(q), e.type = "connected" => e \notin Range(q) PROVE Once(r)
  <2>. SUFFICES ASSUME NEW i \in DOMAIN r, NEW j \in DOMAIN r, i # j,
                       r[i].type = "connected", r[i] = r[j]
       PROVE  FALSE
    BY DEF Once
  <2>1. CASE i \in DOMAIN q /\ j \in DOMAIN q
    BY <1>1, <1>3, <2>1 DEF Once
  <2>2. CASE i = Len(q) + 1 /\ j \in DOMAIN q
    BY <1>1, <1>3, <2>2 DEF Range
  <2>3. CASE i \in DOMAIN q /\ j = Len(q) + 1
    BY <1>1, <1>3, <2>3 DEF Range
  <2>. QED BY <1>2, <2>1, <2>2, <2>3
<1>4. ASSUME Followed(q), e.type # "end" PROVE Followed(r)
  BY <1>1, <1>2, <1>4 DEF Followed
<1>5. ASSUME e.type = "connect" PROVE Followed(r)
  BY <1>1, <1>2, <1>5 DEF Followed
<1>6. ASSUME NEW s, EndFirst(q, s) PROVE EndFirst(r, s)
  <2>1. PICK i \in DOMAIN q :
          q[i] = Event("end", s) /\ \A j \in DOMAIN q : j < i => q[j].type # "connect"
    BY <1>6 DEF EndFirst
  <2>2. \A j \in DOMAIN r : j < i => j \in DOMAIN q
    BY <1>1, <1>2
  <2>. QED BY <1>1, <1>2, <2>1, <2>2 DEF EndFirst
<1>7. ASSUME NEW s, e = Event("end", s), ~Has(q, "connect") PROVE EndFirst(r, s)
  <2>1. \A j \in DOMAIN r : j < Len(q) + 1 => j \in DOMAIN q
    BY <1>1, <1>2
  <2>2. \A j \in DOMAIN q : q[j].type # "connect"
    BY <1>7 DEF Has, Range
  <2>. QED BY <1>1, <1>2, <1>7, <2>1, <2>2 DEF EndFirst
<1>8. ASSUME e.type \notin {"start", "data"} PROVE Extends(q, r)
  BY <1>1, <1>2, <1>8 DEF Extends
<1>9. ASSUME Final(q), \A x \in Range(q) : x.type = "end" => ~Item(e, x.session)
      PROVE  Final(r)
  <2>. SUFFICES ASSUME NEW i \in DOMAIN r, NEW j \in DOMAIN r, r[i].type = "end", i < j
       PROVE  ~Item(r[j], r[i].session)
    BY DEF Final
  <2>1. i \in DOMAIN q
    BY <1>1, <1>2
  <2>2. CASE j \in DOMAIN q
    BY <1>1, <1>9, <2>1, <2>2 DEF Final
  <2>3. CASE j = Len(q) + 1
    BY <1>1, <1>9, <2>1, <2>3 DEF Range
  <2>. QED BY <1>2, <2>2, <2>3
<1>. QED BY <1>3, <1>4, <1>5, <1>6, <1>7, <1>8, <1>9 DEF r

\* What taking the first event does to them.
LEMMA TailOrder ==
  ASSUME NEW q \in Seq(Events), q # <<>>
  PROVE  /\ Once(q) => /\ Once(Tail(q))
                       /\ Head(q).type = "connected" => Head(q) \notin Range(Tail(q))
         /\ Followed(q) => Followed(Tail(q))
         /\ \A s : EndFirst(q, s) =>
              \/ Head(q) = Event("end", s)
              \/ Head(q).type # "connect" /\ EndFirst(Tail(q), s)
         /\ Final(q) =>
              /\ Final(Tail(q))
              /\ Head(q).type = "end" => \A e \in Range(Tail(q)) : ~Item(e, Head(q).session)
<1>. DEFINE r == Tail(q)
            h == Head(q)
<1>1. /\ DOMAIN r = 1..Len(q) - 1 /\ DOMAIN q = 1..Len(q) /\ Len(q) \in Nat \ {0}
      /\ (\A i \in DOMAIN r : r[i] = q[i + 1]) /\ h = q[1]
  BY QueueTail
<1>. HIDE DEF r, h
<1>2. \A i \in DOMAIN r : i + 1 \in DOMAIN q /\ r[i] = q[i + 1] /\ 1 < i + 1 /\ 1 # i + 1
  BY <1>1
<1>3. \A i, j \in DOMAIN r : (i < j => i + 1 < j + 1) /\ (i # j => i + 1 # j + 1)
  BY <1>1
<1>4. \A i \in DOMAIN q : i # 1 => i - 1 \in DOMAIN r /\ r[i - 1] = q[i] /\ 1 < i
  <2>. SUFFICES ASSUME NEW i \in DOMAIN q, i # 1
       PROVE  i - 1 \in DOMAIN r /\ r[i - 1] = q[i] /\ 1 < i
    OBVIOUS
  <2>1. i - 1 \in DOMAIN r /\ (i - 1) + 1 = i /\ 1 < i
    BY <1>1
  <2>. QED BY <1>2, <2>1
<1>5. 1 \in DOMAIN q
  BY <1>1
<1>6. ASSUME Once(q) PROVE Once(r) /\ (h.type = "connected" => h \notin Range(r))
  BY <1>1, <1>2, <1>3, <1>5, <1>6 DEF Once, Range
<1>7. ASSUME Followed(q) PROVE Followed(r)
  <2>. SUFFICES ASSUME NEW i \in DOMAIN r, r[i].type = "end"
       PROVE  \E j \in DOMAIN r : i < j /\ r[j].type = "connect"
    BY DEF Followed
  <2>1. PICK j \in DOMAIN q : i + 1 < j /\ q[j].type = "connect"
    BY <1>2, <1>7 DEF Followed
  <2>2. j # 1 /\ i < j - 1
    BY <1>1, <1>2, <2>1
  <2>. QED BY <1>4, <2>1, <2>2
<1>8. ASSUME NEW s, EndFirst(q, s), h # Event("end", s)
      PROVE  h.type # "connect" /\ EndFirst(r, s)
  <2>1. PICK i \in DOMAIN q :
          q[i] = Event("end", s) /\ \A j \in DOMAIN q : j < i => q[j].type # "connect"
    BY <1>8 DEF EndFirst
  <2>2. i # 1
    BY <1>1, <1>8, <2>1
  <2>3. i - 1 \in DOMAIN r /\ r[i - 1] = q[i] /\ 1 < i
    BY <1>4, <2>2
  <2>4. \A j \in DOMAIN r : j < i - 1 => j + 1 < i
    BY <1>1, <2>3
  <2>5. \A j \in DOMAIN r : j < i - 1 => r[j].type # "connect"
    BY <1>2, <2>1, <2>4
  <2>6. h.type # "connect"
    BY <1>1, <1>5, <2>1, <2>3
  <2>. QED BY <2>1, <2>3, <2>5, <2>6 DEF EndFirst
<1>9. ASSUME Final(q) PROVE Final(r)
  BY <1>2, <1>3, <1>9 DEF Final
<1>10. ASSUME Final(q), h.type = "end" PROVE \A e \in Range(r) : ~Item(e, h.session)
  BY <1>1, <1>2, <1>5, <1>10 DEF Final, Range
<1>. QED BY <1>6, <1>7, <1>8, <1>9, <1>10 DEF r, h

\* What the ends of all sessions do to them.
LEMMA EndsOrder ==
  ASSUME NEW q \in Seq(Events), bridged \subseteq Nat, IsFiniteSet(bridged)
  PROVE  /\ Extends(q, q \o Ends)
         /\ Once(q) => Once(q \o Ends)
         /\ Final(q) => Final(q \o Ends)
<1>. DEFINE r == q \o Ends
<1>1. /\ r \in Seq(Events) /\ DOMAIN q = 1..Len(q) /\ Len(q) \in Nat
      /\ \E n \in Nat : DOMAIN r = 1..Len(q) + n
      /\ \A i \in DOMAIN q : r[i] = q[i]
      /\ \A i \in DOMAIN r \ DOMAIN q : r[i].type = "end"
  BY QueueEnds
<1>. HIDE DEF r
<1>2. DOMAIN q \subseteq DOMAIN r
  BY <1>1
<1>3. Extends(q, r)
  BY <1>1, <1>2 DEF Extends
<1>4. ASSUME Once(q) PROVE Once(r)
  <2>. SUFFICES ASSUME NEW i \in DOMAIN r, NEW j \in DOMAIN r, i # j,
                       r[i].type = "connected", r[i] = r[j]
       PROVE  FALSE
    BY DEF Once
  <2>1. i \in DOMAIN q /\ j \in DOMAIN q
    BY <1>1
  <2>. QED BY <1>1, <1>4, <2>1 DEF Once
<1>5. ASSUME Final(q) PROVE Final(r)
  <2>. SUFFICES ASSUME NEW i \in DOMAIN r, NEW j \in DOMAIN r,
                       r[i].type = "end", i < j, Item(r[j], r[i].session)
       PROVE  FALSE
    BY DEF Final
  <2>1. j \in DOMAIN q
    BY <1>1 DEF Item
  <2>2. i \in DOMAIN q
    BY <1>1, <2>1
  <2>. QED BY <1>1, <1>5, <2>1, <2>2 DEF Final
<1>. QED BY <1>3, <1>4, <1>5 DEF r

\* Streams do not notice such events.
LEMMA RunExtends ==
  ASSUME NEW q, NEW r, Extends(q, r), NEW s, NEW c, NEW k, NEW m, Run(q, s, c, k, m)
  PROVE  Run(r, s, c, k, m)
BY RunSkip DEF Extends, Item

-----------------------------------------------------------------------------
(* The inductive invariant, for as long as connections come in order       *)

Known == 1..created

Types ==
  /\ up \in [Sides -> {"down", "up", "gone"}]
  /\ toRelay \in [Sides -> Seq(Events)] /\ inbox \in [Sides -> Seq(Events)]
  /\ created \in 0..MaxSessions /\ bridged \subseteq Known
  /\ sessionId \in 0..created /\ active \in Conns \cup {None}
  /\ local \in [Conns -> {"none", "open", "ending", "ended", "closed"}]
  /\ sessions \in [Sessions -> Conns \cup {None}]
  /\ target \in [Conns -> {"none", "open", "ending", "ended"}]
  /\ opened \in [Conns -> 0..created]
  /\ sentBy \in [Sides -> [Conns -> Nat]]
  /\ given \in [Sides -> [Conns -> Seq(Conns \X Nat)]]
  /\ dropped \subseteq Sides

\* What may be in each queue: what the client sends, ...
FromClient(e) ==
  \/ e.type = "connect"
  \/ \E s \in Known : e = Event("end", s)
  \/ \E s \in Known, c \in Conns : e = Start(s, c)
  \/ \E s \in Known, c \in Conns, n \in Nat \ {0} : e = Data(s, c, n)

\* ... what the host sends, for the session its connection was opened for, ...
Sends(e) == \E c \in Conns, n \in Nat \ {0} : opened[c] # 0 /\ e = Data(opened[c], c, n)
FromHost(e) ==
  \/ e.type = "register"
  \/ \E c \in Conns : opened[c] # 0 /\ target[c] = "ended" /\ e = Event("end", opened[c])
  \/ Sends(e)

\* ... and what the relay makes of it.
AtClient(e) ==
  \/ e.type = "error"
  \/ \E s \in Known : e = Event("connected", s) \/ e = Event("end", s)
  \/ Sends(e)
AtHost(e) == FromClient(e) /\ e.type # "connect"

Mail ==
  /\ \A e \in Range(toRelay["client"]) : FromClient(e)
  /\ \A e \in Range(toRelay["host"]) : FromHost(e)
  /\ \A e \in Range(inbox["client"]) : AtClient(e)
  /\ \A e \in Range(inbox["host"]) : AtHost(e)

ToHost == Range(toRelay["client"]) \cup Range(inbox["host"])

\* A connection was asked for in a session; an event of the session names it.
Started(s, c) == Start(s, c) \in ToHost \/ opened[c] = s
Uses(s, c) ==
  \/ \E e \in ToHost : Item(e, s) /\ e.by = c
  \/ opened[c] = s

\* What did not begin left no trace.
Untouched ==
  /\ \A c \in Conns : opened[c] = 0 <=> target[c] = "none"
  /\ \A c \in Conns : opened[c] = 0 =>
       given["client"][c] = <<>> /\ given["host"][c] = <<>> /\ sentBy["host"][c] = 0
  /\ \A c \in Conns : local[c] = "none" =>
       sentBy["client"][c] = 0 /\ \A s \in Sessions : ~Uses(s, c)
  /\ \A s \in Sessions : sessions[s] # None => opened[sessions[s]] = s

\* A session serves one connection, and a connection starts in one session.
OneSession ==
  /\ \A s \in Sessions, b, c \in Conns : Started(s, b) /\ Started(s, c) => b = c
  /\ \A s, r \in Sessions, c \in Conns : Started(s, c) /\ Started(r, c) => s = r
  /\ \A s \in Sessions, c \in Conns : Start(s, c) \in ToHost => opened[c] = 0

\* The client's session serves at most the connection it still has, and one
\* that is announced serves none.
Current ==
  /\ \A s \in Sessions, c \in Conns :
       sessionId = s /\ Uses(s, c) => local[c] \in {"open", "ending"}
  /\ \A s \in Sessions : Event("connected", s) \in Range(inbox["client"]) =>
       /\ s # sessionId /\ \A c \in Conns : ~Uses(s, c)
       /\ Event("end", s) \notin Range(toRelay["client"])
  /\ Once(inbox["client"])
  /\ \A s \in Sessions : sessionId = s => Event("end", s) \notin Range(toRelay["client"])

\* One connection at a time.
OneConn ==
  /\ \A b, c \in Conns :
       local[b] \notin {"none", "closed"} /\ local[c] \notin {"none", "closed"} => b = c
  /\ \A c \in Conns : local[c] = "open" <=> active = c

Bridge ==
  /\ up["client"] # "up" => bridged = {}
  /\ Followed(toRelay["client"])
  /\ \A s \in Sessions, c \in Conns :
       Start(s, c) \in Range(inbox["host"]) => Start(s, c) \notin Range(toRelay["client"])

\* A session that the relay bridges is the client's, or the client's end of it
\* is under way and nothing was asked for before.
InUse(s, c) ==
  /\ sessionId = s /\ active = c
  /\ ~Has(toRelay["client"], "connect") /\ ~Has(toRelay["client"], "end")
Leaving(s) ==
  /\ sessionId = 0 /\ active = None /\ EndFirst(toRelay["client"], s)
  /\ \A e \in Range(toRelay["client"]) : e.type = "end" => e.session = s
Alive ==
  \A s \in bridged, c \in Conns : Started(s, c) =>
    /\ ~Has(inbox["client"], "connected") /\ ~Has(inbox["client"], "end")
    /\ InUse(s, c) \/ Leaving(s)

\* What was not yet given to the target of a connection is under way to it.
Reached(c) == IF opened[c] = 0 THEN -1 ELSE Len(given["host"][c])
Routed(s, c) ==
  \/ opened[c] = s /\ sessions[s] = c
  \/ Start(s, c) \in Range(inbox["host"])
  \/ s \in bridged /\ Start(s, c) \in Range(toRelay["client"])
Flows(s, c) ==
  \E m \in Int :
    /\ Run(inbox["host"], s, c, Reached(c), m)
    /\ s \in bridged => \E n \in Int : /\ Run(toRelay["client"], s, c, m, n)
                                       /\ sessionId = s => n = sentBy["client"][c]
HostFlow == \A s \in Sessions, c \in Conns : Routed(s, c) => Flows(s, c)

\* What was not yet given to the active connection is under way to it.
Returns(c) ==
  \E m \in Int :
    /\ Run(inbox["client"], opened[c], c, Len(given["client"][c]), m)
    /\ opened[c] \in bridged => Run(toRelay["host"], opened[c], c, m, sentBy["host"][c])
ClientFlow ==
  /\ \A e \in Range(inbox["client"]) : e.type = "data" => active = None \/ active = e.by
  /\ \A c \in Conns : active = c => Returns(c)

\* The target of a session that is over hears of it.
TargetsEnd ==
  /\ \A s \in Sessions : Event("end", s) \in Range(inbox["host"]) => s \notin bridged
  /\ \A s \in Sessions, c \in Conns :
       Start(s, c) \in Range(inbox["host"]) \/ (opened[c] = s /\ target[c] = "open") =>
          s \in bridged \/ Event("end", s) \in Range(inbox["host"]) \/ "host" \in dropped
  /\ \A c \in Conns : target[c] = "open" => sessions[opened[c]] = c
  /\ \A s \in Sessions : sessions[s] # None => target[sessions[s]] = "open"
  /\ Final(inbox["host"])

\* The client hears of the end of its session, unless a socket dropped.
Served(c) ==
  \E s \in bridged :
    \/ Start(s, c) \in ToHost
    \/ opened[c] = s /\ (target[c] = "open" \/ Event("end", s) \in Range(toRelay["host"]))
LocalsEnd ==
  dropped = {} =>
    /\ \A s \in Sessions : Event("connected", s) \in Range(inbox["client"]) => s \in bridged
    /\ \A s \in Sessions : sessionId = s => s \in bridged \/ Has(inbox["client"], "end")
    /\ \A c \in Conns : local[c] = "open" => Has(inbox["client"], "end") \/ Served(c)

Inv ==
  /\ Types /\ Mail /\ Untouched /\ OneSession /\ Current /\ OneConn /\ Bridge /\ Alive
  /\ HostFlow /\ ClientFlow /\ TargetsEnd /\ LocalsEnd /\ PipedInOrder
IInv == orderly => Inv

-----------------------------------------------------------------------------
(* What keeps each part of the invariant                                   *)

\* The sides, the queues' types, and how the sets of sessions lie in each other.
LEMMA Basics ==
  ASSUME Types
  PROVE  /\ "client" \in Sides /\ "host" \in Sides
         /\ Other("client") = "host" /\ Other("host") = "client"
         /\ \A p \in Sides : toRelay[p] \in Seq(Events) /\ inbox[p] \in Seq(Events)
         /\ Known \subseteq Sessions /\ Sessions \subseteq Nat \ {0}
         /\ IsFiniteSet(bridged) /\ bridged \subseteq Nat /\ bridged \subseteq Sessions
         /\ None \notin Conns
<1>1. Known \subseteq Sessions /\ Sessions \subseteq Nat \ {0} /\ created \in Nat
  BY ShareAssumption DEF Types, Known, Sessions
<1>2. IsFiniteSet(bridged)
  <2>1. IsFiniteSet(1..created)
    BY <1>1, FS_Interval
  <2>. QED BY <2>1, FS_Subset DEF Types, Known
<1>3. bridged \subseteq Nat /\ bridged \subseteq Sessions
  BY <1>1 DEF Types
<1>. QED BY <1>1, <1>2, <1>3, ShareAssumption DEF Types, Sides, Other

\* Events are told apart by their type, their session and their connection.
LEMMA EventFields ==
  /\ \A t, s : Event(t, s).type = t /\ Event(t, s).session = s
  /\ \A s, c : Start(s, c).type = "start" /\ Start(s, c).session = s /\ Start(s, c).by = c
  /\ \A s, c, n : /\ Data(s, c, n).type = "data" /\ Data(s, c, n).session = s
                  /\ Data(s, c, n).by = c /\ Data(s, c, n).chunk = n
BY DEF Event, Start, Data

\* Whatever either side or the relay builds is an event.
LEMMA EventTypes ==
  ASSUME NEW s \in Nat
  PROVE  /\ \A t \in {"register", "connect", "connected", "error", "end"} : Event(t, s) \in Events
         /\ \A c \in Conns : Start(s, c) \in Events /\ \A n \in Nat : Data(s, c, n) \in Events
BY DEF Event, Start, Data, Events

\* No connection is named in a session it was not named in before.
NothingNew ==
  /\ opened' = opened
  /\ \A e \in ToHost' : e.type \in {"start", "data"} => e \in ToHost

\* Then no session is used by a connection that did not use it.
LEMMA UsesKept ==
  ASSUME NothingNew
  PROVE  /\ \A s, c : Uses(s, c)' => Uses(s, c)
         /\ \A s, c : Started(s, c)' => Started(s, c)
<1>1. \A s, c : Uses(s, c)' => Uses(s, c)
  BY DEF NothingNew, Uses, Item
<1>2. \A s, c : Started(s, c)' => Started(s, c)
  BY EventFields DEF NothingNew, Started
<1>. QED BY <1>1, <1>2

\* What joins the queues is of the kinds that belong there.
LEMMA MailKept ==
  ASSUME Mail, Known \subseteq Known',
         \A c \in Conns : opened[c] # 0 =>
           opened'[c] = opened[c] /\ (target[c] = "ended" => target'[c] = "ended"),
         \A e \in Range(toRelay'["client"]) : e \in Range(toRelay["client"]) \/ FromClient(e)',
         \A e \in Range(toRelay'["host"]) : e \in Range(toRelay["host"]) \/ FromHost(e)',
         \A e \in Range(inbox'["client"]) : e \in Range(inbox["client"]) \/ AtClient(e)',
         \A e \in Range(inbox'["host"]) : e \in Range(inbox["host"]) \/ AtHost(e)'
  PROVE  Mail'
<1>1. \A e : FromClient(e) => FromClient(e)'
  BY DEF FromClient
<1>2. \A e : Sends(e) => Sends(e)'
  BY DEF Sends
<1>3. \A e : FromHost(e) => FromHost(e)'
  BY <1>2 DEF FromHost
<1>4. \A e : AtClient(e) => AtClient(e)'
  BY <1>2 DEF AtClient
<1>5. \A e : AtHost(e) => AtHost(e)'
  BY <1>1 DEF AtHost
<1>. QED BY <1>1, <1>3, <1>4, <1>5 DEF Mail

\* Sessions stay paired with their connections when none is named anew.
LEMMA OneSessionKept ==
  ASSUME OneSession, NothingNew
  PROVE  OneSession'
<1>1. \A s, c : Started(s, c)' => Started(s, c)
  BY UsesKept
<1>2. \A s, c : Start(s, c) \in ToHost' => Start(s, c) \in ToHost
  BY EventFields DEF NothingNew
<1>. QED BY <1>1, <1>2 DEF OneSession, NothingNew

\* What did not begin stays without a trace when none is named anew.
LEMMA UntouchedKept ==
  ASSUME Untouched, NothingNew,
         \A c \in Conns : target'[c] = "none" <=> target[c] = "none",
         \A c \in Conns : opened[c] = 0 =>
           /\ given'["client"][c] = given["client"][c] /\ given'["host"][c] = given["host"][c]
           /\ sentBy'["host"][c] = sentBy["host"][c],
         \A c \in Conns : local'[c] = "none" =>
           local[c] = "none" /\ sentBy'["client"][c] = sentBy["client"][c],
         \A s \in Sessions : sessions'[s] # None => sessions'[s] = sessions[s]
  PROVE  Untouched'
<1>1. \A s, c : Uses(s, c)' => Uses(s, c)
  BY UsesKept
<1>. QED BY <1>1 DEF Untouched, NothingNew

\* The client keeps or forgets its session, and none is announced anew.
LEMMA CurrentKept ==
  ASSUME Current, NothingNew, sessionId' = 0 \/ sessionId' = sessionId,
         \A c \in Conns : local[c] \in {"open", "ending"} =>
           sessionId' = 0 \/ local'[c] \in {"open", "ending"},
         \A s \in Sessions : Event("connected", s) \in Range(inbox'["client"]) =>
           s # sessionId' /\ Event("connected", s) \in Range(inbox["client"]),
         Once(inbox'["client"]),
         \A s \in Sessions : Event("end", s) \in Range(toRelay'["client"]) =>
           \/ Event("end", s) \in Range(toRelay["client"])
           \/ s = sessionId /\ sessionId' = 0,
         0 \notin Sessions
  PROVE  Current'
<1>1. \A s, c : Uses(s, c)' => Uses(s, c)
  BY UsesKept
<1>3. \A s \in Sessions, c \in Conns :
        sessionId' = s /\ Uses(s, c)' => local'[c] \in {"open", "ending"}
  BY <1>1 DEF Current
<1>4. \A s \in Sessions : Event("connected", s) \in Range(inbox'["client"]) =>
       /\ s # sessionId' /\ \A c \in Conns : ~Uses(s, c)'
       /\ Event("end", s) \notin Range(toRelay'["client"])
  BY <1>1 DEF Current
<1>5. \A s \in Sessions : sessionId' = s => Event("end", s) \notin Range(toRelay'["client"])
  BY DEF Current
<1>. QED BY <1>3, <1>4, <1>5 DEF Current

\* Bridged sessions become fewer, and the client does not turn to another one.
LEMMA AliveKept ==
  ASSUME Alive, NothingNew, bridged' \subseteq bridged, UNCHANGED <<sessionId, active>>,
         Has(inbox'["client"], "connected") => Has(inbox["client"], "connected"),
         Has(inbox'["client"], "end") => Has(inbox["client"], "end"),
         Has(toRelay'["client"], "connect") => Has(toRelay["client"], "connect"),
         \A e \in Range(toRelay'["client"]) : e.type = "end" => e \in Range(toRelay["client"]),
         \A s \in bridged' : EndFirst(toRelay["client"], s) => EndFirst(toRelay'["client"], s)
  PROVE  Alive'
<1>1. \A s, c : Started(s, c)' => Started(s, c)
  BY UsesKept
<1>2. ASSUME NEW s \in bridged', NEW c \in Conns, InUse(s, c) PROVE InUse(s, c)'
  BY <1>2 DEF InUse, Has
<1>3. ASSUME NEW s \in bridged', Leaving(s) PROVE Leaving(s)'
  BY <1>3 DEF Leaving
<1>. QED BY <1>1, <1>2, <1>3 DEF Alive

\* Every stream of session s in q is still there in r.
Carries(q, r, s) == \A c, k, m : Run(q, s, c, k, m) => Run(r, s, c, k, m)

\* What a queue may gain or lose without disturbing a session's streams.
LEMMA CarriesOn ==
  /\ \A q, s : Carries(q, q, s)
  /\ \A q, r, s : Extends(q, r) => Carries(q, r, s)
  /\ \A q \in Seq(Events) : \A s : q # <<>> /\ ~Item(Head(q), s) => Carries(q, Tail(q), s)
  /\ \A q \in Seq(Events), e \in Events : \A s : ~Item(e, s) => Carries(q, Append(q, e), s)
<1>1. \A q, r, s : Extends(q, r) => Carries(q, r, s)
  BY RunExtends DEF Carries
<1>2. \A q \in Seq(Events) : \A s : q # <<>> /\ ~Item(Head(q), s) => Carries(q, Tail(q), s)
  BY RunDrop DEF Carries
<1>3. ASSUME NEW q \in Seq(Events), NEW e \in Events, NEW s, ~Item(e, s)
      PROVE  Carries(q, Append(q, e), s)
  <2>. DEFINE r == Append(q, e)
  <2>1. /\ DOMAIN r = 1..Len(q) + 1 /\ DOMAIN q = 1..Len(q) /\ Len(q) \in Nat /\ r \in Seq(Events)
        /\ (\A i \in DOMAIN q : r[i] = q[i]) /\ r[Len(q) + 1] = e
    BY QueueAppend
  <2>. HIDE DEF r
  <2>2. DOMAIN q \subseteq DOMAIN r /\ \A i \in DOMAIN r \ DOMAIN q : ~Item(r[i], s)
    BY <1>3, <2>1
  <2>. QED BY <2>1, <2>2, RunSkip DEF Carries, r
<1>4. \A q, s : Carries(q, q, s)
  BY DEF Carries
<1>. QED BY <1>1, <1>2, <1>3, <1>4

\* A stream to a target goes on when its ends do not move.
LEMMA FlowsKept ==
  ASSUME NEW s, NEW c, Flows(s, c),
         opened'[c] = opened[c], given'["host"][c] = given["host"][c],
         Carries(inbox["host"], inbox'["host"], s),
         s \in bridged' => s \in bridged /\ Carries(toRelay["client"], toRelay'["client"], s),
         sessionId' = s => sessionId = s /\ sentBy'["client"][c] = sentBy["client"][c]
  PROVE  Flows(s, c)'
<1>1. PICK m \in Int :
        /\ Run(inbox["host"], s, c, Reached(c), m)
        /\ s \in bridged => \E n \in Int : /\ Run(toRelay["client"], s, c, m, n)
                                           /\ sessionId = s => n = sentBy["client"][c]
  BY DEF Flows
<1>2. Reached(c)' = Reached(c)
  BY DEF Reached
<1>3. Run(inbox'["host"], s, c, Reached(c)', m)
  BY <1>1, <1>2 DEF Carries
<1>4. ASSUME s \in bridged'
      PROVE  \E n \in Int : /\ Run(toRelay'["client"], s, c, m, n)
                            /\ sessionId' = s => n = sentBy'["client"][c]
  <2>1. PICK n \in Int : Run(toRelay["client"], s, c, m, n) /\ (sessionId = s => n = sentBy["client"][c])
    BY <1>1, <1>4
  <2>2. Run(toRelay'["client"], s, c, m, n)
    BY <1>4, <2>1 DEF Carries
  <2>. QED BY <2>1, <2>2
<1>. QED BY <1>3, <1>4 DEF Flows

\* So do all of them, ...
LEMMA HostFlowKept ==
  ASSUME HostFlow,
         \A s \in Sessions, c \in Conns : Routed(s, c)' =>
           /\ Routed(s, c) /\ opened'[c] = opened[c] /\ given'["host"][c] = given["host"][c]
           /\ Carries(inbox["host"], inbox'["host"], s)
           /\ s \in bridged' => s \in bridged /\ Carries(toRelay["client"], toRelay'["client"], s)
           /\ sessionId' = s => sessionId = s /\ sentBy'["client"][c] = sentBy["client"][c]
  PROVE  HostFlow'
BY FlowsKept DEF HostFlow

\* ... a stream to the active connection ...
LEMMA ReturnsKept ==
  ASSUME NEW c, Returns(c),
         opened'[c] = opened[c], given'["client"][c] = given["client"][c],
         Carries(inbox["client"], inbox'["client"], opened[c]),
         opened[c] \in bridged' =>
           opened[c] \in bridged /\ Carries(toRelay["host"], toRelay'["host"], opened[c]),
         sentBy'["host"][c] = sentBy["host"][c]
  PROVE  Returns(c)'
<1>1. PICK m \in Int :
        /\ Run(inbox["client"], opened[c], c, Len(given["client"][c]), m)
        /\ opened[c] \in bridged => Run(toRelay["host"], opened[c], c, m, sentBy["host"][c])
  BY DEF Returns
<1>2. Run(inbox'["client"], opened'[c], c, Len(given'["client"][c]), m)
  BY <1>1 DEF Carries
<1>3. opened'[c] \in bridged' => Run(toRelay'["host"], opened'[c], c, m, sentBy'["host"][c])
  BY <1>1 DEF Carries
<1>. QED BY <1>2, <1>3 DEF Returns

\* ... and what the client may be told.
LEMMA ClientFlowKept ==
  ASSUME ClientFlow, active' = None \/ active' = active, None \notin Conns,
         \A e \in Range(inbox'["client"]) : e.type = "data" => e \in Range(inbox["client"]),
         \A c \in Conns : active' = c =>
           /\ opened'[c] = opened[c] /\ given'["client"][c] = given["client"][c]
           /\ Carries(inbox["client"], inbox'["client"], opened[c])
           /\ opened[c] \in bridged' =>
                opened[c] \in bridged /\ Carries(toRelay["host"], toRelay'["host"], opened[c])
           /\ sentBy'["host"][c] = sentBy["host"][c]
  PROVE  ClientFlow'
<1>1. ASSUME NEW c \in Conns, active' = c PROVE Returns(c)'
  BY <1>1, ReturnsKept DEF ClientFlow
<1>. QED BY <1>1 DEF ClientFlow

\* The sessions that events and targets speak of were created.
LEMMA SessionsKnown ==
  ASSUME Types, Mail
  PROVE  /\ \A s \in Sessions, c \in Conns : Uses(s, c) \/ Started(s, c) => s \in Known
         /\ \A s \in Sessions : Event("end", s) \in ToHost => s \in Known
         /\ \A s \in Sessions : Event("connected", s) \in Range(inbox["client"]) => s \in Known
         /\ \A s \in Sessions, c \in Conns : Started(s, c) => Uses(s, c)
<1>1. \A e \in ToHost : FromClient(e)
  BY DEF Mail, AtHost, ToHost
<1>2. \A e \in ToHost : e.type \in {"start", "data", "end"} => e.session \in Known
  BY <1>1, EventFields DEF FromClient
<1>3. \A s \in Sessions, c \in Conns : opened[c] = s => s \in Known
  BY Basics DEF Types, Known
<1>4. \A s \in Sessions, c \in Conns : Uses(s, c) => s \in Known
  BY <1>2, <1>3 DEF Uses, Item
<1>5. \A s \in Sessions, c \in Conns : Started(s, c) => Uses(s, c)
  BY EventFields DEF Started, Uses, Item
<1>6. \A s \in Sessions : Event("connected", s) \in Range(inbox["client"]) => s \in Known
  <2>. SUFFICES ASSUME NEW s \in Sessions, AtClient(Event("connected", s)) PROVE s \in Known
    BY DEF Mail
  <2>. QED BY EventFields DEF AtClient, Sends
<1>7. \A s \in Sessions : Event("end", s) \in ToHost => s \in Known
  BY <1>2, EventFields
<1>. QED BY <1>4, <1>5, <1>6, <1>7

\* Ends under way to the host stay under way, and no target is opened.
LEMMA TargetsEndKept ==
  ASSUME TargetsEnd, opened' = opened, bridged' = bridged, dropped \subseteq dropped',
         \A s \in Sessions : Event("end", s) \in Range(inbox'["host"]) <=>
                             Event("end", s) \in Range(inbox["host"]),
         \A s \in Sessions, c \in Conns :
           Start(s, c) \in Range(inbox'["host"]) => Start(s, c) \in Range(inbox["host"]),
         \A c \in Conns : target'[c] = "open" =>
           target[c] = "open" /\ sessions'[opened[c]] = sessions[opened[c]],
         \A s \in Sessions : sessions'[s] # None =>
           sessions'[s] = sessions[s] /\ target'[sessions[s]] = target[sessions[s]],
         Final(inbox'["host"])
  PROVE  TargetsEnd'
BY DEF TargetsEnd

\* Ends under way to the client stay under way, and no connection is made.
LEMMA LocalsEndKept ==
  ASSUME LocalsEnd, dropped \subseteq dropped', opened' = opened, bridged \subseteq bridged',
         \A s \in Sessions : Event("connected", s) \in Range(inbox'["client"]) =>
                             Event("connected", s) \in Range(inbox["client"]),
         sessionId' = 0 \/ sessionId' = sessionId,
         Has(inbox["client"], "end") => Has(inbox'["client"], "end"),
         \A c \in Conns : local'[c] = "open" =>
           /\ local[c] = "open"
           /\ \A s \in bridged : Start(s, c) \in ToHost => Start(s, c) \in ToHost'
           /\ target[c] = "open" => target'[c] = "open",
         \A s \in bridged : Event("end", s) \in Range(toRelay["host"]) =>
                            Event("end", s) \in Range(toRelay'["host"]),
         0 \notin Sessions
  PROVE  LocalsEnd'
<1>1. \A c \in Conns : local'[c] = "open" /\ Served(c) => Served(c)'
  BY DEF Served
<1>. QED BY <1>1 DEF LocalsEnd

-----------------------------------------------------------------------------
(* What the steps do to the queues                                         *)

\* A side emits an event.
LEMMA Emits ==
  ASSUME Types, NEW p \in Sides, NEW e \in Events,
         toRelay' = [toRelay EXCEPT ![p] = @ \o <<e>>]
  PROVE  /\ toRelay'[p] = Append(toRelay[p], e)
         /\ \A o \in Sides : o # p => toRelay'[o] = toRelay[o]
         /\ toRelay' \in [Sides -> Seq(Events)]
         /\ Range(toRelay'[p]) = Range(toRelay[p]) \cup {e}
<1>1. toRelay[p] \in Seq(Events)
  BY DEF Types
<1>2. /\ toRelay[p] \o <<e>> = Append(toRelay[p], e) /\ Append(toRelay[p], e) \in Seq(Events)
      /\ Range(Append(toRelay[p], e)) = Range(toRelay[p]) \cup {e}
  BY <1>1, QueueAppend
<1>. QED BY <1>2 DEF Types

\* It emits nothing.
LEMMA EmitsNothing ==
  ASSUME Types, NEW p \in Sides, toRelay' = [toRelay EXCEPT ![p] = @ \o <<>>]
  PROVE  toRelay' = toRelay
<1>1. toRelay[p] \o <<>> = toRelay[p]
  BY DEF Types
<1>. QED BY <1>1 DEF Types

\* A side takes the next event from its queue.
LEMMA Takes ==
  ASSUME Types, NEW p \in Sides, inbox[p] # <<>>, inbox' = [inbox EXCEPT ![p] = Tail(@)]
  PROVE  /\ inbox'[p] = Tail(inbox[p])
         /\ \A o \in Sides : o # p => inbox'[o] = inbox[o]
         /\ inbox' \in [Sides -> Seq(Events)]
         /\ Head(inbox[p]) \in Events /\ Head(inbox[p]) \in Range(inbox[p])
         /\ Range(inbox[p]) = {Head(inbox[p])} \cup Range(inbox'[p])
<1>1. inbox[p] \in Seq(Events)
  BY DEF Types
<1>2. /\ Tail(inbox[p]) \in Seq(Events) /\ Head(inbox[p]) \in Events
      /\ Head(inbox[p]) \in Range(inbox[p])
      /\ Range(inbox[p]) = {Head(inbox[p])} \cup Range(Tail(inbox[p]))
  BY <1>1, QueueTail
<1>. QED BY <1>2 DEF Types

\* Only what is started after matters to who is started.
LEMMA StartedOnly ==
  ASSUME opened' = opened, \A s, c : Start(s, c) \in ToHost' => Start(s, c) \in ToHost
  PROVE  /\ \A s, c : Started(s, c)' => Started(s, c)
         /\ OneSession => OneSession'
<1>1. \A s, c : Started(s, c)' => Started(s, c)
  BY DEF Started
<1>. QED BY <1>1 DEF OneSession

\* A chunk is given to an end.
LEMMA Gives ==
  ASSUME Types, NEW p \in Sides, NEW c \in Conns, NEW d \in Conns, NEW n \in Nat,
         given' = [given EXCEPT ![p][c] = Append(@, <<d, n>>)]
  PROVE  /\ given' \in [Sides -> [Conns -> Seq(Conns \X Nat)]]
         /\ \A o \in Sides, b \in Conns : o # p \/ b # c => given'[o][b] = given[o][b]
         /\ given'[p][c] = Append(given[p][c], <<d, n>>)
         /\ Len(given'[p][c]) = Len(given[p][c]) + 1
<1>. DEFINE r == Append(given[p][c], <<d, n>>)
<1>2. given \in [Sides -> [Conns -> Seq(Conns \X Nat)]] /\ given[p][c] \in Seq(Conns \X Nat)
  BY DEF Types
<1>3. r \in Seq(Conns \X Nat) /\ Len(r) = Len(given[p][c]) + 1
  BY <1>2
<1>. HIDE DEF r
<1>5. given' = [given EXCEPT ![p][c] = r]
  BY DEF r
<1>6. given' \in [Sides -> [Conns -> Seq(Conns \X Nat)]] /\ given'[p][c] = r
  <2>. DEFINE h == [given[p] EXCEPT ![c] = r]
  <2>1. given' = [given EXCEPT ![p] = h]
    BY <1>2, <1>5
  <2>2. h \in [Conns -> Seq(Conns \X Nat)] /\ h[c] = r
    BY <1>2, <1>3
  <2>. HIDE DEF h
  <2>. QED BY <1>2, <2>1, <2>2
<1>7. ASSUME NEW o \in Sides, NEW b \in Conns, o # p \/ b # c PROVE given'[o][b] = given[o][b]
  BY <1>2, <1>5, <1>7
<1>. QED BY <1>3, <1>6, <1>7 DEF r

\* If it is the next one of the other end, what was given stays in order.
LEMMA GivesNext ==
  ASSUME Types, orderly, PipedInOrder, NEW p \in Sides, NEW c \in Conns, NEW n \in Nat,
         n = Len(given[p][c]) + 1,
         given' = [given EXCEPT ![p][c] = Append(@, <<c, n>>)]
  PROVE  PipedInOrder'
<1>1. PICK g : g = given[p][c]
  OBVIOUS
<1>. DEFINE r == Append(g, <<c, n>>)
<1>2. g \in Seq(Conns \X Nat)
  BY <1>1 DEF Types
<1>3. /\ r \in Seq(Conns \X Nat) /\ DOMAIN r = 1..Len(g) + 1 /\ DOMAIN g = 1..Len(g)
      /\ Len(g) \in Nat
  BY <1>2
<1>4. (\A i \in DOMAIN g : r[i] = g[i]) /\ r[Len(g) + 1] = <<c, n>>
  BY <1>2
<1>5. /\ \A o \in Sides, b \in Conns : o # p \/ b # c => given'[o][b] = given[o][b]
      /\ given'[p][c] = r
  <2>1. \A o \in Sides, b \in Conns : o # p \/ b # c => given'[o][b] = given[o][b]
    BY Gives
  <2>2. given'[p][c] = Append(given[p][c], <<c, n>>)
    BY Gives
  <2>. QED BY <1>1, <2>1, <2>2
<1>6. \A o \in Sides, b \in Conns : given[o][b] = [i \in DOMAIN given[o][b] |-> <<b, i>>]
  BY DEF PipedInOrder
<1>7. \A i \in DOMAIN g : g[i] = <<c, i>>
  <2>1. g = [i \in DOMAIN g |-> <<c, i>>]
    BY <1>1, <1>6
  <2>. QED BY <2>1
<1>. HIDE DEF r
<1>8. \A i \in DOMAIN r : r[i] = <<c, i>>
  <2>1. n = Len(g) + 1
    BY <1>1
  <2>2. r[Len(g) + 1] = <<c, Len(g) + 1>>
    BY <1>4, <2>1
  <2>3. \A i \in DOMAIN r : i \in DOMAIN g \/ i = Len(g) + 1
    BY <1>3
  <2>. QED BY <1>4, <1>7, <2>2, <2>3
<1>9. r = [i \in DOMAIN r |-> <<c, i>>]
  BY <1>3, <1>8
<1>10. ASSUME NEW o \in Sides, NEW b \in Conns
       PROVE  given'[o][b] = [i \in DOMAIN given'[o][b] |-> <<b, i>>]
  <2>1. CASE o = p /\ b = c
    BY <1>5, <1>9, <2>1
  <2>2. CASE o # p \/ b # c
    <3>1. given'[o][b] = given[o][b]
      BY <1>5, <2>2
    <3>. QED BY <1>6, <3>1
  <2>. QED BY <2>1, <2>2
<1>. QED BY <1>10 DEF PipedInOrder

-----------------------------------------------------------------------------
(* The sockets and the relay                                               *)

\* A socket connects: a request joins the events under way.
LEMMA ConnectStep ==
  ASSUME Inv, orderly, NEW p \in Sides, Connect(p)
  PROVE  Inv'
<1>. USE Basics DEF Inv
<1>. DEFINE e == Event(IF p = "host" THEN "register" ELSE "connect", 0)
<1>1. /\ toRelay' = [toRelay EXCEPT ![p] = @ \o <<e>>] /\ up' = [up EXCEPT ![p] = "up"]
      /\ UNCHANGED <<inbox, created, bridged, registered, sessionId, active, listening, local>>
      /\ UNCHANGED <<sessions, target, opened, sentBy, given, dropped, orderly>>
      /\ up[p] = "down" /\ e \in Events
  BY EventTypes DEF Connect, Emit, relay, client, host, history
<1>2. /\ toRelay'[p] = Append(toRelay[p], e) /\ \A o \in Sides : o # p => toRelay'[o] = toRelay[o]
      /\ Append(toRelay[p], e) \in Seq(Events)
      /\ Range(Append(toRelay[p], e)) = Range(toRelay[p]) \cup {e}
  <2>1. toRelay \in [Sides -> Seq(Events)] /\ toRelay[p] \in Seq(Events) /\ e \in Events
    BY <1>1 DEF Types
  <2>. HIDE DEF e
  <2>2. /\ toRelay[p] \o <<e>> = Append(toRelay[p], e) /\ Append(toRelay[p], e) \in Seq(Events)
        /\ Range(Append(toRelay[p], e)) = Range(toRelay[p]) \cup {e}
    BY <2>1, QueueAppend
  <2>. QED BY <1>1, <2>1, <2>2
<1>a. /\ \A x \in Range(toRelay'["client"]) : x \in Range(toRelay["client"]) \/ (x = e /\ p = "client")
      /\ \A x \in Range(toRelay'["host"]) : x \in Range(toRelay["host"]) \/ (x = e /\ p = "host")
  <2>1. p = "client" \/ p = "host"
    BY DEF Sides
  <2>. QED BY <1>2, <2>1
<1>3. e.type = IF p = "host" THEN "register" ELSE "connect"
  BY EventFields
<1>. HIDE DEF e
<1>4. Types'
  BY <1>1, <1>2 DEF Types, Known
<1>5. /\ \A s, c : e # Start(s, c) /\ e # Event("end", s)
      /\ NothingNew
  <2>1. e.type \notin {"start", "data", "end"}
    BY <1>3
  <2>2. NothingNew
    BY <1>1, <1>a, <2>1 DEF NothingNew, ToHost
  <2>. QED BY <2>1, <2>2, EventFields
<1>6. Mail'
  <2>1. (p = "client" => FromClient(e)') /\ (p = "host" => FromHost(e)')
    BY <1>3 DEF FromClient, FromHost
  <2>2. Known' = Known
    BY <1>1 DEF Known
  <2>. QED BY <1>1, <1>a, <2>1, <2>2, MailKept
<1>7. Untouched' /\ OneSession'
  BY <1>1, <1>5, UntouchedKept, OneSessionKept
<1>8. Current'
  BY <1>1, <1>2, <1>5, CurrentKept DEF Current, Sides
<1>9. OneConn'
  BY <1>1 DEF OneConn
<1>10. Bridge'
  <2>1. up'["client"] # "up" => up["client"] # "up"
    BY <1>1 DEF Types
  <2>2. Followed(toRelay["client"]) => Followed(Append(toRelay["client"], e))
    BY <1>1, <1>3, AppendOrder
  <2>3. toRelay'["client"] = toRelay["client"] \/ toRelay'["client"] = Append(toRelay["client"], e)
    BY <1>2 DEF Sides
  <2>4. \A s, c : Start(s, c) \in Range(toRelay'["client"]) => Start(s, c) \in Range(toRelay["client"])
    BY <1>a, <1>5
  <2>. QED BY <1>1, <2>1, <2>2, <2>3, <2>4 DEF Bridge
<1>11. Alive'
  <2>1. CASE p = "client"
    BY <1>1, <2>1 DEF Bridge, Alive
  <2>2. CASE p # "client"
    BY <1>1, <1>2, <1>5, <2>2, AliveKept DEF Sides
  <2>. QED BY <2>1, <2>2
<1>12. \A s : /\ Carries(toRelay["client"], toRelay'["client"], s)
               /\ Carries(toRelay["host"], toRelay'["host"], s)
  <2>1. \A o \in Sides : toRelay'[o] = toRelay[o] \/ toRelay'[o] = Append(toRelay[o], e)
    BY <1>2
  <2>2. \A s : ~Item(e, s)
    BY <1>3 DEF Item
  <2>. QED BY <1>1, <2>1, <2>2, CarriesOn
<1>13. HostFlow'
  <2>1. \A s \in Sessions, c \in Conns : Routed(s, c)' => Routed(s, c)
    BY <1>1, <1>a, <1>5 DEF Routed
  <2>. QED BY <1>1, <1>12, <2>1, CarriesOn, HostFlowKept
<1>14. ClientFlow'
  BY <1>1, <1>12, CarriesOn, ClientFlowKept
<1>15. TargetsEnd'
  BY <1>1 DEF TargetsEnd
<1>16. LocalsEnd'
  BY <1>1, <1>2, LocalsEndKept DEF Sides, ToHost
<1>17. PipedInOrder'
  BY <1>1 DEF PipedInOrder
<1>. QED BY <1>4, <1>6, <1>7, <1>8, <1>9, <1>10, <1>11, <1>13, <1>14, <1>15, <1>16, <1>17

-----------------------------------------------------------------------------
(* The local connections and the targets                                   *)

\* A local connection is closed after its end.
LEMMA LocalCloseStep ==
  ASSUME Inv, orderly, NEW c \in Conns, LocalClose(c)
  PROVE  Inv'
<1>. USE Basics DEF Inv
<1>1. /\ UNCHANGED <<up, toRelay, inbox, created, bridged, registered, sessionId, active, listening>>
      /\ UNCHANGED <<sessions, target, opened, sentBy, given, dropped, orderly>>
      /\ local' = [local EXCEPT ![c] = "closed"] /\ local[c] = "ended"
  BY DEF LocalClose, relay, client, host, history
<1>2. \A b \in Conns : local'[b] = IF b = c THEN "closed" ELSE local[b]
  BY <1>1 DEF Types
<1>3. Types'
  BY <1>1 DEF Types, Known
<1>4. ToHost' = ToHost /\ Known' = Known
  BY <1>1 DEF ToHost, Known
<1>5. NothingNew
  BY <1>1, <1>4 DEF NothingNew
<1>6. Mail'
  BY <1>1, <1>4, MailKept
<1>7. Untouched' /\ OneSession'
  BY <1>1, <1>2, <1>5, UntouchedKept, OneSessionKept
<1>8. Current'
  BY <1>1, <1>2, <1>5, CurrentKept DEF Current
<1>9. OneConn'
  BY <1>1, <1>2 DEF OneConn
<1>10. Bridge' /\ Alive'
  BY <1>1, <1>5, AliveKept DEF Bridge
<1>11. HostFlow' /\ ClientFlow'
  <2>1. \A s \in Sessions, b \in Conns : Routed(s, b)' => Routed(s, b)
    BY <1>1 DEF Routed
  <2>. QED BY <1>1, <2>1, CarriesOn, HostFlowKept, ClientFlowKept
<1>12. TargetsEnd'
  BY <1>1 DEF TargetsEnd
<1>13. LocalsEnd'
  BY <1>1, <1>2, <1>4, LocalsEndKept
<1>14. PipedInOrder'
  BY <1>1 DEF PipedInOrder
<1>. QED BY <1>3, <1>6, <1>7, <1>8, <1>9, <1>10, <1>11, <1>12, <1>13, <1>14

\* A chunk of a local connection joins its stream, if there is a session.
LEMMA LocalDataStep ==
  ASSUME Inv, orderly, NEW c \in Conns, LocalData(c)
  PROVE  Inv'
<1>. USE Basics DEF Inv
<1>a. PICK n, e : n = sentBy["client"][c] + 1 /\ e = Data(sessionId, c, n)
  OBVIOUS
<1>1. /\ UNCHANGED <<up, inbox, created, bridged, registered, sessionId, active, listening, local>>
      /\ UNCHANGED <<sessions, target, opened, given, dropped, orderly>>
      /\ sentBy' = [sentBy EXCEPT !["client"][c] = @ + 1] /\ local[c] \in {"open", "ending"}
  BY DEF LocalData, relay, client, host, history
<1>2. /\ n \in Nat \ {0} /\ sentBy'["client"][c] = n
      /\ \A b \in Conns : b # c => sentBy'["client"][b] = sentBy["client"][b]
      /\ sentBy'["host"] = sentBy["host"] /\ sentBy' \in [Sides -> [Conns -> Nat]]
  <2>1. sentBy \in [Sides -> [Conns -> Nat]]
    BY DEF Types
  <2>2. sentBy["client"][c] \in Nat
    BY <2>1
  <2>3. sentBy' \in [Sides -> [Conns -> Nat]] /\ n \in Nat \ {0}
    BY <1>1, <1>a, <2>1, <2>2
  <2>4. sentBy'["host"] = sentBy["host"]
    BY <1>1, <2>1
  <2>5. sentBy'["client"] = [sentBy["client"] EXCEPT ![c] = n]
    BY <1>1, <1>a, <2>1
  <2>. QED BY <2>1, <2>3, <2>4, <2>5
<1>3. toRelay' = [toRelay EXCEPT !["client"] = @ \o (IF sessionId # 0 THEN <<e>> ELSE <<>>)]
  BY <1>a, <1>2 DEF LocalData, Emit
<1>4. e \in Events /\ e.type = "data" /\ e.session = sessionId /\ e.by = c /\ e.chunk = n
  <2>1. sessionId \in Nat /\ n \in Nat
    BY <1>2 DEF Types
  <2>2. e \in Events
    BY <1>a, <2>1, EventTypes
  <2>. QED BY <1>a, <2>2, EventFields
<1>5. /\ sessionId = 0 => toRelay' = toRelay
      /\ sessionId # 0 => /\ toRelay'["client"] = Append(toRelay["client"], e)
                          /\ Range(toRelay'["client"]) = Range(toRelay["client"]) \cup {e}
      /\ toRelay'["host"] = toRelay["host"] /\ toRelay' \in [Sides -> Seq(Events)]
  <2>1. CASE sessionId = 0
    <3>1. toRelay' = [toRelay EXCEPT !["client"] = @ \o <<>>]
      BY <1>3, <2>1
    <3>. QED BY <2>1, <3>1, EmitsNothing DEF Types
  <2>2. CASE sessionId # 0
    <3>1. toRelay' = [toRelay EXCEPT !["client"] = @ \o <<e>>]
      BY <1>3, <2>2
    <3>. QED BY <1>4, <2>2, <3>1, Emits
  <2>. QED BY <2>1, <2>2
<1>6. Types'
  BY <1>1, <1>2, <1>5 DEF Types, Known
<1>7. /\ Known' = Known
      /\ \A x \in Range(toRelay'["client"]) : x \in Range(toRelay["client"]) \/ (x = e /\ sessionId # 0)
      /\ \A s, b : Start(s, b) # e /\ Event("end", s) # e
  BY <1>1, <1>4, <1>5, EventFields DEF Known
<1>8. Mail'
  <2>1. ASSUME sessionId # 0 PROVE FromClient(e)'
    <3>1. sessionId \in Known
      BY <2>1 DEF Types, Known
    <3>. QED BY <1>a, <1>2, <1>7, <3>1 DEF FromClient
  <2>. QED BY <1>1, <1>5, <1>7, <2>1, MailKept
<1>9. \A s, b : Start(s, b) \in ToHost' <=> Start(s, b) \in ToHost
  BY <1>1, <1>5, <1>7 DEF ToHost
<1>10. OneSession' /\ \A s, b : Started(s, b)' => Started(s, b)
  BY <1>1, <1>9, StartedOnly
<1>11. \A s, b : Uses(s, b)' => Uses(s, b) \/ (s = sessionId /\ b = c /\ sessionId # 0)
  BY <1>1, <1>4, <1>7 DEF Uses, Item, ToHost
<1>12. Untouched'
  BY <1>1, <1>2, <1>11 DEF Untouched
<1>13. Current'
  <2>1. \A s \in Sessions : Event("end", s) \in Range(toRelay'["client"]) =>
                            Event("end", s) \in Range(toRelay["client"])
    BY <1>7
  <2>2. \A s \in Sessions, b \in Conns :
          sessionId' = s /\ Uses(s, b)' => local'[b] \in {"open", "ending"}
    BY <1>1, <1>11 DEF Current
  <2>3. \A s \in Sessions : Event("connected", s) \in Range(inbox'["client"]) =>
          s # sessionId' /\ \A b \in Conns : ~Uses(s, b)'
    BY <1>1, <1>11 DEF Current
  <2>. QED BY <1>1, <2>1, <2>2, <2>3 DEF Current
<1>14. OneConn'
  BY <1>1 DEF OneConn
<1>15. Bridge'
  <2>1. Followed(toRelay'["client"])
    BY <1>4, <1>5, AppendOrder DEF Bridge
  <2>2. \A s, b : Start(s, b) \in Range(toRelay'["client"])
             => Start(s, b) \in Range(toRelay["client"])
    BY <1>7
  <2>. QED BY <1>1, <2>1, <2>2 DEF Bridge
<1>16. Alive'
  <2>1. \A t \in {"connect", "end"} : Has(toRelay'["client"], t) => Has(toRelay["client"], t)
    BY <1>4, <1>7 DEF Has
  <2>2. \A s : EndFirst(toRelay["client"], s) => EndFirst(toRelay'["client"], s)
    BY <1>4, <1>5, AppendOrder
  <2>3. ASSUME NEW s, NEW b, InUse(s, b) PROVE InUse(s, b)'
    BY <1>1, <2>1, <2>3 DEF InUse
  <2>4. ASSUME NEW s, Leaving(s) PROVE Leaving(s)'
    BY <1>1, <1>4, <1>7, <2>2, <2>4 DEF Leaving
  <2>. QED BY <1>1, <1>10, <2>3, <2>4 DEF Alive
<1>17. HostFlow'
  <2>. SUFFICES ASSUME NEW s \in Sessions, NEW b \in Conns, Routed(s, b)' PROVE Flows(s, b)'
    BY DEF HostFlow
  <2>1. Routed(s, b)
    BY <1>1, <1>7 DEF Routed
  <2>2. PICK m \in Int :
          /\ Run(inbox["host"], s, b, Reached(b), m)
          /\ s \in bridged => \E k \in Int : /\ Run(toRelay["client"], s, b, m, k)
                                             /\ sessionId = s => k = sentBy["client"][b]
    BY <2>1 DEF HostFlow, Flows
  <2>3. Reached(b)' = Reached(b)
    BY <1>1 DEF Reached
  <2>4. ASSUME s \in bridged
        PROVE  \E k \in Int : /\ Run(toRelay'["client"], s, b, m, k)
                              /\ sessionId = s => k = sentBy'["client"][b]
    <3>1. PICK k \in Int : Run(toRelay["client"], s, b, m, k) /\ (sessionId = s => k = sentBy["client"][b])
      BY <2>2, <2>4
    <3>2. CASE sessionId # s
      <4>1. Run(toRelay'["client"], s, b, m, k)
        <5>1. ~Item(e, s)
          BY <1>4, <3>2 DEF Item
        <5>2. Carries(toRelay["client"], toRelay'["client"], s)
          BY <1>4, <1>5, <5>1, CarriesOn
        <5>. QED BY <3>1, <5>2 DEF Carries
      <4>. QED BY <3>2, <4>1
    <3>3. CASE sessionId = s
      <4>1. Uses(s, b)
        <5>1. Started(s, b)
          BY <2>1 DEF Routed, Started, ToHost
        <5>. QED BY <5>1, SessionsKnown
      <4>2. b = c
        BY <1>1, <3>3, <4>1 DEF Current, OneConn
      <4>3. Item(e, s) /\ e.by = b /\ Num(e) = k + 1 /\ s # 0
        BY <1>a, <1>4, <3>1, <3>3, <4>2 DEF Item, Num
      <4>4. Run(Append(toRelay["client"], e), s, b, m, k + 1)
        BY <1>4, <3>1, <4>3, RunAdd
      <4>5. k + 1 \in Int /\ k + 1 = sentBy'["client"][b]
        BY <1>a, <1>2, <3>1, <3>3, <4>2
      <4>6. Run(toRelay'["client"], s, b, m, k + 1)
        BY <1>5, <3>3, <4>3, <4>4
      <4>. QED BY <4>5, <4>6
    <3>. QED BY <3>2, <3>3
  <2>. QED BY <1>1, <2>2, <2>3, <2>4 DEF Flows
<1>18. ClientFlow'
  BY <1>1, <1>2, <1>5, CarriesOn, ClientFlowKept
<1>19. TargetsEnd'
  BY <1>1 DEF TargetsEnd
<1>20. LocalsEnd'
  BY <1>1, <1>5, <1>9, LocalsEndKept
<1>21. PipedInOrder'
  BY <1>1 DEF PipedInOrder
<1>. QED BY <1>6, <1>8, <1>10, <1>12, <1>13, <1>14, <1>15, <1>16, <1>17, <1>18, <1>19, <1>20, <1>21

\* A local connection ends or fails.
LEMMA CloseClientStep ==
  ASSUME Inv, orderly, NEW c \in Conns, NEW v \in {"ended", "closed"},
         local[c] \in {"open", "ending", "ended"}, local' = [local EXCEPT ![c] = v],
         CloseClient, UNCHANGED <<up, inbox, relay, listening, host, history>>
  PROVE  Inv'
<1>. USE Basics DEF Inv
<1>a. PICK S, E, C : S = sessionId /\ E = Event("end", S) /\ C = Event("connect", 0)
  OBVIOUS
<1>1. /\ UNCHANGED <<up, inbox, created, bridged, registered, listening>>
      /\ UNCHANGED <<sessions, target, opened, sentBy, given, dropped, orderly>>
      /\ active' = None /\ sessionId' = 0
  BY DEF CloseClient, relay, host, history
<1>2. \A b \in Conns : local'[b] = IF b = c THEN v ELSE local[b]
  BY DEF Types
<1>3. /\ E \in Events /\ C \in Events /\ E.type = "end" /\ C.type = "connect"
      /\ \A s, b : Start(s, b) # E /\ Start(s, b) # C /\ Event("end", s) # C
      /\ \A s : Event("end", s) = E => s = S
  <2>1. S \in Nat
    BY <1>a DEF Types
  <2>2. E \in Events /\ C \in Events
    BY <1>a, <2>1, EventTypes
  <2>. QED BY <1>a, <2>2, EventFields
<1>4. \E r : /\ r = IF S # 0 THEN Append(toRelay["client"], E) ELSE toRelay["client"]
             /\ r \in Seq(Events)
             /\ Range(r) = Range(toRelay["client"]) \cup (IF S # 0 THEN {E} ELSE {})
             /\ toRelay'["client"] = Append(r, C) /\ toRelay'["host"] = toRelay["host"]
             /\ Range(toRelay'["client"]) = Range(r) \cup {C}
             /\ toRelay' \in [Sides -> Seq(Events)]
  <2>. DEFINE q == toRelay["client"]
  <2>1. /\ toRelay' = [toRelay EXCEPT !["client"] =
                        q \o ((IF S # 0 THEN <<E>> ELSE <<>>) \o <<C>>)]
        /\ toRelay \in [Sides -> Seq(Events)] /\ q \in Seq(Events)
    BY <1>a DEF CloseClient, Emit, Types
  <2>2. CASE S = 0
    <3>1. q \o ((IF S # 0 THEN <<E>> ELSE <<>>) \o <<C>>) = Append(q, C)
      BY <1>3, <2>1, <2>2
    <3>2. Append(q, C) \in Seq(Events) /\ Range(Append(q, C)) = Range(q) \cup {C}
      BY <1>3, <2>1, QueueAppend
    <3>. QED BY <2>1, <2>2, <3>1, <3>2
  <2>3. CASE S # 0
    <3>. DEFINE r == Append(q, E)
    <3>1. r \in Seq(Events) /\ Range(r) = Range(q) \cup {E}
      BY <1>3, <2>1, QueueAppend
    <3>2. q \o (<<E>> \o <<C>>) = Append(r, C)
      <4>1. <<E>> \in Seq(Events) /\ <<C>> \in Seq(Events)
        BY <1>3
      <4>2. q \o (<<E>> \o <<C>>) = (q \o <<E>>) \o <<C>>
        BY <2>1, <4>1, ConcatAssociative
      <4>3. q \o <<E>> = r
        BY <1>3, <2>1, QueueAppend
      <4>. HIDE DEF r
      <4>4. r \o <<C>> = Append(r, C)
        BY <1>3, <3>1, QueueAppend
      <4>. QED BY <4>2, <4>3, <4>4
    <3>. HIDE DEF r
    <3>3. Append(r, C) \in Seq(Events) /\ Range(Append(r, C)) = Range(r) \cup {C}
      BY <1>3, <3>1, QueueAppend
    <3>4. r = Append(q, E)
      BY DEF r
    <3>. QED BY <2>1, <2>3, <3>1, <3>2, <3>3, <3>4
  <2>. QED BY <2>2, <2>3
<1>5. PICK r : /\ r = IF S # 0 THEN Append(toRelay["client"], E) ELSE toRelay["client"]
               /\ r \in Seq(Events)
               /\ Range(r) = Range(toRelay["client"]) \cup (IF S # 0 THEN {E} ELSE {})
               /\ toRelay'["client"] = Append(r, C) /\ toRelay'["host"] = toRelay["host"]
               /\ Range(toRelay'["client"]) = Range(r) \cup {C}
               /\ toRelay' \in [Sides -> Seq(Events)]
  BY <1>4
<1>6. \A x \in Range(toRelay'["client"]) :
        x \in Range(toRelay["client"]) \/ (x = E /\ S # 0) \/ x = C
  BY <1>5
<1>7. Types'
  <2>1. local' \in [Conns -> {"none", "open", "ending", "ended", "closed"}]
    BY DEF Types
  <2>2. sessionId' \in 0..created' /\ active' \in Conns \cup {None}
    BY <1>1 DEF Types
  <2>. QED BY <1>1, <1>5, <2>1, <2>2 DEF Types, Known
<1>8. NothingNew /\ Known' = Known
  BY <1>1, <1>3, <1>6 DEF NothingNew, ToHost, Known
<1>9. Mail'
  <2>1. S # 0 => S \in Known
    BY <1>a DEF Types, Known
  <2>2. (S # 0 => FromClient(E)') /\ FromClient(C)'
    BY <1>a, <1>3, <1>8, <2>1 DEF FromClient
  <2>. QED BY <1>1, <1>5, <1>6, <1>8, <2>2, MailKept
<1>10. Untouched' /\ OneSession'
  BY <1>1, <1>2, <1>8, UntouchedKept, OneSessionKept
<1>11. Current'
  <2>1. \A s \in Sessions : Event("end", s) \in Range(toRelay'["client"]) =>
          Event("end", s) \in Range(toRelay["client"]) \/ (s = sessionId /\ sessionId' = 0)
    BY <1>a, <1>1, <1>3, <1>6
  <2>2. 0 \notin Sessions
    OBVIOUS
  <2>3. \A s \in Sessions : Event("connected", s) \in Range(inbox'["client"]) =>
           s # sessionId' /\ Event("connected", s) \in Range(inbox["client"])
    BY <1>1, <2>2
  <2>4. Once(inbox'["client"])
    BY <1>1 DEF Current
  <2>. QED BY <1>1, <1>8, <2>1, <2>2, <2>3, <2>4, CurrentKept
<1>12. OneConn' /\ \A b \in Conns : local'[b] # "open"
  BY <1>1, <1>2 DEF OneConn
<1>13. Bridge'
  <2>1. Followed(toRelay'["client"])
    BY <1>3, <1>5, AppendOrder
  <2>2. \A s, b : Start(s, b) \in Range(toRelay'["client"])
             => Start(s, b) \in Range(toRelay["client"])
    BY <1>3, <1>6
  <2>. QED BY <1>1, <2>1, <2>2 DEF Bridge
<1>14. Alive'
  <2>. SUFFICES ASSUME NEW s \in bridged, NEW b \in Conns, Started(s, b)
       PROVE  /\ ~Has(inbox["client"], "connected") /\ ~Has(inbox["client"], "end")
              /\ EndFirst(toRelay'["client"], s)
              /\ \A e \in Range(toRelay'["client"]) : e.type = "end" => e.session = s
    BY <1>1, <1>8, UsesKept DEF Alive, Leaving
  <2>1. ~Has(inbox["client"], "connected") /\ ~Has(inbox["client"], "end")
    BY DEF Alive
  <2>2. EndFirst(r, s) => EndFirst(toRelay'["client"], s)
    BY <1>3, <1>5, AppendOrder
  <2>3. CASE InUse(s, b)
    <3>1. S = s /\ S # 0 /\ ~Has(toRelay["client"], "connect") /\ ~Has(toRelay["client"], "end")
      BY <1>a, <2>3 DEF InUse
    <3>2. EndFirst(r, s)
      BY <1>a, <1>3, <1>5, <3>1, AppendOrder
    <3>. QED BY <1>a, <1>3, <1>6, <2>1, <2>2, <3>1, <3>2, EventFields DEF Has
  <2>4. CASE Leaving(s)
    <3>1. S = 0 /\ EndFirst(r, s)
      BY <1>a, <1>5, <2>4 DEF Leaving
    <3>. QED BY <1>3, <1>6, <2>1, <2>2, <2>4, <3>1 DEF Leaving
  <2>. QED BY <2>3, <2>4 DEF Alive
<1>15. HostFlow'
  <2>1. \A s \in Sessions, b \in Conns : Routed(s, b)' => Routed(s, b)
    BY <1>1, <1>3, <1>6 DEF Routed
  <2>2. \A s : ~Item(E, s) /\ ~Item(C, s)
    BY <1>3 DEF Item
  <2>3. \A s : Carries(toRelay["client"], toRelay'["client"], s)
    <3>1. \A s : Carries(toRelay["client"], r, s)
      BY <1>3, <1>5, <2>2, CarriesOn
    <3>2. \A s : Carries(r, toRelay'["client"], s)
      <4>1. r \in Seq(Events) /\ C \in Events /\ toRelay'["client"] = Append(r, C)
        BY <1>3, <1>5
      <4>2. \A s : ~Item(C, s) => Carries(r, Append(r, C), s)
        BY <4>1, CarriesOn
      <4>. QED BY <2>2, <4>1, <4>2
    <3>. QED BY <3>1, <3>2 DEF Carries
  <2>4. 0 \notin Sessions
    OBVIOUS
  <2>. QED BY <1>1, <2>1, <2>3, <2>4, CarriesOn, HostFlowKept
<1>16. ClientFlow'
  BY <1>1 DEF ClientFlow
<1>17. TargetsEnd'
  BY <1>1 DEF TargetsEnd
<1>18. LocalsEnd'
  BY <1>1, <1>5, <1>12, LocalsEndKept
<1>19. PipedInOrder'
  BY <1>1 DEF PipedInOrder
<1>. QED BY <1>7, <1>9, <1>10, <1>11, <1>12, <1>13, <1>14, <1>15, <1>16, <1>17, <1>18, <1>19

\* Its end and an error are the same to the session.
LEMMA LocalEndStep ==
  ASSUME Inv, orderly, NEW c \in Conns, LocalEnd(c) \/ LocalError(c)
  PROVE  Inv'
<1>1. CASE LocalEnd(c)
  BY <1>1, CloseClientStep DEF LocalEnd
<1>2. CASE LocalError(c)
  BY <1>2, CloseClientStep DEF LocalError
<1>. QED BY <1>1, <1>2

\* A chunk of a target joins its stream, under the session it was opened for.
LEMMA TargetDataStep ==
  ASSUME Inv, orderly, NEW c \in Conns, TargetData(c)
  PROVE  Inv'
<1>. USE Basics DEF Inv
<1>a. PICK n, e : n = sentBy["host"][c] + 1 /\ e = Data(opened[c], c, n)
  OBVIOUS
<1>1. /\ UNCHANGED <<up, inbox, created, bridged, registered, sessionId, active, listening, local>>
      /\ UNCHANGED <<sessions, target, opened, given, dropped, orderly>>
      /\ sentBy' = [sentBy EXCEPT !["host"][c] = @ + 1] /\ target[c] \in {"open", "ending"}
  BY DEF TargetData, relay, client, host, history
<1>2. /\ n \in Nat \ {0} /\ sentBy'["host"][c] = n
      /\ \A b \in Conns : b # c => sentBy'["host"][b] = sentBy["host"][b]
      /\ sentBy'["client"] = sentBy["client"] /\ sentBy' \in [Sides -> [Conns -> Nat]]
  <2>1. sentBy \in [Sides -> [Conns -> Nat]]
    BY DEF Types
  <2>2. sentBy["host"][c] \in Nat
    BY <2>1
  <2>3. sentBy' \in [Sides -> [Conns -> Nat]] /\ n \in Nat \ {0}
    BY <1>1, <1>a, <2>1, <2>2
  <2>4. sentBy'["client"] = sentBy["client"]
    BY <1>1, <2>1
  <2>5. sentBy'["host"] = [sentBy["host"] EXCEPT ![c] = n]
    BY <1>1, <1>a, <2>1
  <2>. QED BY <2>1, <2>3, <2>4, <2>5
<1>3. toRelay' = [toRelay EXCEPT !["host"] = @ \o <<e>>]
  BY <1>a, <1>2 DEF TargetData, Emit
<1>4. /\ e \in Events /\ e.type = "data" /\ e.session = opened[c] /\ e.by = c /\ e.chunk = n
      /\ opened[c] \in Sessions
  <2>0. opened[c] # 0 /\ opened[c] \in 0..created /\ created \in Nat
    BY <1>1 DEF Types, Untouched
  <2>1. opened[c] \in Nat \ {0} /\ opened[c] \in Sessions /\ n \in Nat
    BY <1>2, <2>0 DEF Known
  <2>2. e \in Events
    BY <1>a, <2>1, EventTypes
  <2>. QED BY <1>a, <2>1, <2>2, EventFields
<1>5. /\ toRelay'["host"] = Append(toRelay["host"], e)
      /\ Range(toRelay'["host"]) = Range(toRelay["host"]) \cup {e}
      /\ toRelay'["client"] = toRelay["client"] /\ toRelay' \in [Sides -> Seq(Events)]
  BY <1>3, <1>4, Emits
<1>6. Types'
  BY <1>1, <1>2, <1>5 DEF Types, Known
<1>7. NothingNew /\ Known' = Known /\ ToHost' = ToHost
  BY <1>1, <1>5 DEF NothingNew, ToHost, Known
<1>8. Mail'
  <2>1. FromHost(e)'
    <3>1. opened'[c] # 0 /\ e = Data(opened'[c], c, n)
      BY <1>a, <1>1, <1>4
    <3>. QED BY <1>2, <3>1 DEF FromHost, Sends
  <2>. QED BY <1>1, <1>5, <1>7, <2>1, MailKept
<1>9. Untouched' /\ OneSession'
  BY <1>1, <1>2, <1>4, <1>7, UntouchedKept, OneSessionKept
<1>10. Current'
  BY <1>1, <1>5, <1>7, CurrentKept DEF Current
<1>11. OneConn' /\ Bridge'
  BY <1>1, <1>5 DEF OneConn, Bridge
<1>12. Alive'
  BY <1>1, <1>5, <1>7, AliveKept
<1>13. HostFlow'
  <2>1. \A s \in Sessions, b \in Conns : Routed(s, b)' => Routed(s, b)
    BY <1>1, <1>5 DEF Routed
  <2>. QED BY <1>1, <1>2, <1>5, <2>1, CarriesOn, HostFlowKept
<1>14. ClientFlow'
  <2>1. ASSUME NEW b \in Conns, active = b PROVE Returns(b)'
    <3>1. PICK m \in Int :
            /\ Run(inbox["client"], opened[b], b, Len(given["client"][b]), m)
            /\ opened[b] \in bridged => Run(toRelay["host"], opened[b], b, m, sentBy["host"][b])
      BY <2>1 DEF ClientFlow, Returns
    <3>2. ASSUME opened[b] \in bridged
          PROVE  Run(toRelay'["host"], opened[b], b, m, sentBy'["host"][b])
      <4>0. Run(toRelay["host"], opened[b], b, m, sentBy["host"][b]) /\ toRelay["host"] \in Seq(Events)
        BY <3>1, <3>2
      <4>1. CASE b = c
        <5>1. Item(e, opened[b]) /\ e.by = b /\ Num(e) = sentBy["host"][b] + 1
          BY <1>a, <1>4, <4>1 DEF Item, Num
        <5>2. Run(Append(toRelay["host"], e), opened[b], b, m, sentBy["host"][b] + 1)
          BY <1>4, <4>0, <5>1, RunAdd
        <5>. QED BY <1>a, <1>2, <1>5, <4>1, <5>2
      <4>2. CASE b # c
        <5>1. opened[b] # opened[c]
          BY <1>4, <4>2 DEF OneSession, Started
        <5>2. Carries(toRelay["host"], toRelay'["host"], opened[b])
          BY <1>4, <1>5, <4>0, <5>1, CarriesOn DEF Item
        <5>. QED BY <1>2, <4>0, <4>2, <5>2 DEF Carries
      <4>. QED BY <4>1, <4>2
    <3>. QED BY <1>1, <3>1, <3>2 DEF Returns
  <2>. QED BY <1>1, <2>1 DEF ClientFlow
<1>15. TargetsEnd'
  BY <1>1 DEF TargetsEnd
<1>16. LocalsEnd'
  BY <1>1, <1>5, <1>7, LocalsEndKept
<1>17. PipedInOrder'
  BY <1>1 DEF PipedInOrder
<1>. QED BY <1>6, <1>8, <1>9, <1>10, <1>11, <1>12, <1>13, <1>14, <1>15, <1>16, <1>17

\* A target ends or fails.
LEMMA CloseSessionStep ==
  ASSUME Inv, orderly, NEW c \in Conns, target[c] # "none",
         target' = [target EXCEPT ![c] = "ended"], CloseSession(opened[c]),
         UNCHANGED <<up, inbox, relay, client, opened, history>>
  PROVE  Inv'
<1>. USE Basics DEF Inv
<1>a. PICK S, E : S = opened[c] /\ E = Event("end", S)
  OBVIOUS
<1>1. /\ UNCHANGED <<up, inbox, created, bridged, registered, sessionId, active, listening, local>>
      /\ UNCHANGED <<opened, sentBy, given, dropped, orderly>>
      /\ sessions' = [sessions EXCEPT ![S] = None]
  BY <1>a DEF CloseSession, relay, client, history
<1>2. S \in Sessions /\ S \in Nat /\ S # 0
  <2>1. S # 0 /\ S \in 0..created /\ created \in Nat
    BY <1>a DEF Types, Untouched
  <2>. QED BY <2>1 DEF Known
<1>3. /\ E \in Events /\ E.type = "end" /\ \A s : ~Item(E, s)
  <2>1. E \in Events
    BY <1>a, <1>2, EventTypes
  <2>. QED BY <1>a, <2>1, EventFields DEF Item
<1>4. /\ toRelay'["client"] = toRelay["client"] /\ toRelay' \in [Sides -> Seq(Events)]
      /\ sessions[S] = None => toRelay'["host"] = toRelay["host"]
      /\ sessions[S] # None => /\ toRelay'["host"] = Append(toRelay["host"], E)
                               /\ Range(toRelay'["host"]) = Range(toRelay["host"]) \cup {E}
  <2>1. CASE sessions[S] = None
    <3>1. toRelay' = [toRelay EXCEPT !["host"] = @ \o <<>>]
      BY <1>a, <2>1 DEF CloseSession, Emit
    <3>. QED BY <2>1, <3>1, EmitsNothing DEF Types
  <2>2. CASE sessions[S] # None
    <3>1. toRelay' = [toRelay EXCEPT !["host"] = @ \o <<E>>]
      BY <1>a, <2>2 DEF CloseSession, Emit
    <3>. QED BY <1>3, <2>2, <3>1, Emits
  <2>. QED BY <2>1, <2>2
<1>5. /\ \A b \in Conns : target'[b] = IF b = c THEN "ended" ELSE target[b]
      /\ \A s \in Sessions : sessions'[s] = IF s = S THEN None ELSE sessions[s]
  BY <1>1 DEF Types
<1>6. \A b \in Conns : opened[b] = S => b = c
  BY <1>a, <1>2 DEF OneSession, Started
<1>7. Types'
  BY <1>1, <1>2, <1>4 DEF Types, Known
<1>8. NothingNew /\ Known' = Known /\ ToHost' = ToHost
  BY <1>1, <1>4 DEF NothingNew, ToHost, Known
<1>9. Mail'
  <2>1. FromHost(E)'
    <3>1. opened'[c] # 0 /\ target'[c] = "ended" /\ E = Event("end", opened'[c])
      BY <1>a, <1>1, <1>2, <1>5
    <3>. QED BY <3>1 DEF FromHost
  <2>2. \A x \in Range(toRelay'["host"]) : x \in Range(toRelay["host"]) \/ x = E
    BY <1>4
  <2>. QED BY <1>1, <1>4, <1>5, <1>8, <2>1, <2>2, MailKept
<1>10. Untouched' /\ OneSession'
  BY <1>1, <1>5, <1>8, UntouchedKept, OneSessionKept
<1>11. Current'
  BY <1>1, <1>4, <1>8, CurrentKept DEF Current
<1>12. OneConn' /\ Bridge'
  BY <1>1, <1>4 DEF OneConn, Bridge
<1>13. Alive'
  BY <1>1, <1>4, <1>8, AliveKept
<1>14. HostFlow'
  <2>1. \A s \in Sessions, b \in Conns : Routed(s, b)' => Routed(s, b)
    BY <1>1, <1>4, <1>5 DEF Routed
  <2>. QED BY <1>1, <1>4, <2>1, CarriesOn, HostFlowKept
<1>15. ClientFlow'
  <2>1. \A s : Carries(toRelay["host"], toRelay'["host"], s)
    BY <1>3, <1>4, CarriesOn
  <2>. QED BY <1>1, <2>1, CarriesOn, ClientFlowKept
<1>16. TargetsEnd'
  <2>1. \A b \in Conns : target'[b] = "open" => opened[b] \in Sessions /\ b # c /\ target[b] = "open"
    <3>. SUFFICES ASSUME NEW b \in Conns, target'[b] = "open"
         PROVE  opened[b] \in Sessions /\ b # c /\ target[b] = "open"
      OBVIOUS
    <3>1. target[b] = "open" /\ b # c
      BY <1>5
    <3>2. opened[b] # 0 /\ opened[b] \in 0..created /\ created \in Nat
      BY <3>1 DEF Types, Untouched
    <3>. QED BY <3>1, <3>2 DEF Known
  <2>2. \A s \in Sessions : sessions'[s] # None =>
          sessions'[s] = sessions[s] /\ target'[sessions[s]] = target[sessions[s]]
    <3>. SUFFICES ASSUME NEW s \in Sessions, sessions'[s] # None
         PROVE  sessions'[s] = sessions[s] /\ target'[sessions[s]] = target[sessions[s]]
      OBVIOUS
    <3>1. s # S /\ sessions'[s] = sessions[s]
      BY <1>5
    <3>2. sessions[s] \in Conns /\ opened[sessions[s]] = s
      BY <3>1 DEF Types, Untouched
    <3>. QED BY <1>a, <1>5, <3>1, <3>2
  <2>. QED BY <1>1, <1>5, <1>6, <2>1, <2>2, TargetsEndKept DEF TargetsEnd
<1>17. LocalsEnd'
  <2>1. ASSUME NEW b \in Conns, Served(b) PROVE Served(b)'
    <3>1. PICK s \in bridged :
            \/ Start(s, b) \in ToHost
            \/ opened[b] = s /\ (target[b] = "open" \/ Event("end", s) \in Range(toRelay["host"]))
      BY <2>1 DEF Served
    <3>2. CASE Start(s, b) \in ToHost \/ Event("end", s) \in Range(toRelay["host"])
      BY <1>1, <1>4, <1>8, <3>1, <3>2 DEF Served
    <3>3. CASE opened[b] = s /\ target[b] = "open" /\ b # c
      BY <1>1, <1>5, <3>3 DEF Served
    <3>4. CASE opened[b] = s /\ target[b] = "open" /\ b = c
      <4>1. s = S /\ sessions[S] = c
        BY <1>a, <3>4 DEF TargetsEnd
      <4>2. E \in Range(toRelay'["host"])
        BY <1>4, <4>1
      <4>. QED BY <1>a, <1>1, <3>4, <4>1, <4>2 DEF Served
    <3>. QED BY <3>1, <3>2, <3>3, <3>4
  <2>. QED BY <1>1, <2>1 DEF LocalsEnd
<1>18. PipedInOrder'
  BY <1>1 DEF PipedInOrder
<1>. QED BY <1>7, <1>9, <1>10, <1>11, <1>12, <1>13, <1>14, <1>15, <1>16, <1>17, <1>18

\* The end of a target and an error are the same to the session.
LEMMA TargetEndStep ==
  ASSUME Inv, orderly, NEW c \in Conns, TargetEnd(c) \/ TargetError(c)
  PROVE  Inv'
<1>1. CASE TargetEnd(c)
  BY <1>1, CloseSessionStep DEF TargetEnd
<1>2. CASE TargetError(c)
  BY <1>2, CloseSessionStep DEF TargetError
<1>. QED BY <1>1, <1>2

\* A local connection comes when the last one is closed and the next session
\* is there: nothing was started in it.
LEMMA AcceptStep ==
  ASSUME Inv, orderly, orderly', NEW c \in Conns, Accept(c)
  PROVE  Inv'
<1>. USE Basics DEF Inv
<1>a. PICK S, e : S = sessionId /\ e = Start(S, c)
  OBVIOUS
<1>1. /\ UNCHANGED <<up, inbox, created, bridged, registered, sessionId, listening>>
      /\ UNCHANGED <<sessions, target, opened, sentBy, given, dropped>>
      /\ local' = [local EXCEPT ![c] = "open"] /\ active' = c /\ local[c] = "none"
      /\ toRelay' = [toRelay EXCEPT !["client"] = @ \o <<e>>]
      /\ Orderly
  BY <1>a DEF Accept, Emit, relay, host
<1>2. /\ S # 0 /\ S \in Known /\ S \in Sessions /\ S \in Nat
      /\ inbox["client"] = <<>> /\ Range(inbox["client"]) = {}
      /\ ~Has(toRelay["client"], "connect")
      /\ \A b \in Conns : local[b] \in {"none", "closed"}
  <2>1. S # 0 /\ S \in 0..created /\ created \in Nat
    BY <1>a, <1>1 DEF Types, Orderly
  <2>2. inbox["client"] = <<>> /\ ~Has(toRelay["client"], "connect")
    BY <1>1 DEF Orderly, Settled, Has, Range
  <2>3. Range(inbox["client"]) = {}
    BY <2>2 DEF Range
  <2>. QED BY <1>1, <2>1, <2>2, <2>3 DEF Orderly, Known
<1>3. active = None
  BY <1>2 DEF OneConn, Types
<1>4. ~Has(toRelay["client"], "end")
  BY <1>2 DEF Bridge, Followed, Has, Range
<1>5. \A b \in Conns : ~Uses(S, b) /\ ~Started(S, b)
  BY <1>a, <1>2, SessionsKnown DEF Current
<1>6. /\ \A s \in Sessions : ~Uses(s, c) /\ ~Started(s, c)
      /\ opened[c] = 0
  <2>1. \A s \in Sessions : ~Uses(s, c) /\ ~Started(s, c)
    BY <1>1, SessionsKnown DEF Untouched
  <2>2. opened[c] \in 0..created /\ created \in Nat
    BY DEF Types
  <2>. QED BY <2>1, <2>2 DEF Started, Known
<1>7. /\ e \in Events /\ e.type = "start" /\ e.session = S /\ e.by = c
      /\ \A s : Event("end", s) # e
      /\ \A s, b : Start(s, b) = e => s = S /\ b = c
  <2>1. e \in Events
    BY <1>a, <1>2, EventTypes
  <2>. QED BY <1>a, <2>1, EventFields
<1>8. /\ toRelay'["client"] = Append(toRelay["client"], e)
      /\ Range(toRelay'["client"]) = Range(toRelay["client"]) \cup {e}
      /\ toRelay'["host"] = toRelay["host"] /\ toRelay' \in [Sides -> Seq(Events)]
  BY <1>1, <1>7, Emits
<1>9. \A b \in Conns : local'[b] = IF b = c THEN "open" ELSE local[b]
  BY <1>1 DEF Types
<1>10. Types'
  BY <1>1, <1>8 DEF Types, Known
<1>11. /\ Known' = Known /\ e \in ToHost'
       /\ \A x : x \in ToHost' <=> x \in ToHost \/ x = e
  BY <1>1, <1>8 DEF Known, ToHost
<1>12. Mail'
  <2>1. FromClient(e)'
    BY <1>a, <1>2, <1>11 DEF FromClient
  <2>. QED BY <1>1, <1>8, <1>11, <2>1, MailKept
<1>13. /\ \A s, b : Uses(s, b)' => Uses(s, b) \/ (s = S /\ b = c)
       /\ \A s, b : Started(s, b)' => Started(s, b) \/ (s = S /\ b = c)
       /\ \A s, b : Start(s, b) \in ToHost' => Start(s, b) \in ToHost \/ (s = S /\ b = c)
  <2>1. \A s, b : Uses(s, b)' => Uses(s, b) \/ (s = S /\ b = c)
    BY <1>1, <1>7, <1>11 DEF Uses, Item
  <2>2. \A s, b : Start(s, b) \in ToHost' => Start(s, b) \in ToHost \/ (s = S /\ b = c)
    BY <1>7, <1>11
  <2>. QED BY <1>1, <2>1, <2>2 DEF Started
<1>14. Untouched'
  <2>1. \A b \in Conns : local'[b] = "none" => local[b] = "none" /\ b # c
    BY <1>9
  <2>. QED BY <1>1, <1>13, <2>1 DEF Untouched
<1>15. OneSession'
  <2>1. \A s \in Sessions, b, d \in Conns : Started(s, b)' /\ Started(s, d)' => b = d
    BY <1>5, <1>6, <1>13 DEF OneSession
  <2>2. \A s, r \in Sessions, b \in Conns : Started(s, b)' /\ Started(r, b)' => s = r
    BY <1>6, <1>13 DEF OneSession
  <2>3. \A s \in Sessions, b \in Conns : Start(s, b) \in ToHost' => opened'[b] = 0
    BY <1>1, <1>6, <1>13 DEF OneSession
  <2>. QED BY <2>1, <2>2, <2>3 DEF OneSession
<1>16. Current'
  <2>1. \A s \in Sessions : sessionId' = s => Event("end", s) \notin Range(toRelay'["client"])
    BY <1>1, <1>7, <1>8 DEF Current
  <2>2. \A s \in Sessions, b \in Conns :
          sessionId' = s /\ Uses(s, b)' => local'[b] \in {"open", "ending"}
    BY <1>a, <1>1, <1>5, <1>9, <1>13
  <2>. QED BY <1>1, <1>2, <2>1, <2>2 DEF Current
<1>17. OneConn'
  BY <1>1, <1>2, <1>9 DEF OneConn
<1>18. Bridge'
  <2>1. Followed(toRelay'["client"])
    BY <1>7, <1>8, AppendOrder DEF Bridge
  <2>2. \A s \in Sessions, b \in Conns : Start(s, b) \in Range(inbox["host"]) =>
                            Start(s, b) \notin Range(toRelay'["client"])
    <3>1. \A s, b : Start(s, b) \in Range(toRelay'["client"]) =>
                       Start(s, b) \in Range(toRelay["client"]) \/ b = c
      BY <1>7, <1>8
    <3>2. \A s \in Sessions : Start(s, c) \notin Range(inbox["host"])
      BY <1>6 DEF Started, ToHost
    <3>. QED BY <3>1, <3>2 DEF Bridge
  <2>. QED BY <1>1, <2>1, <2>2 DEF Bridge
<1>19. Alive'
  <2>1. ASSUME NEW s \in bridged, NEW b \in Conns PROVE ~Started(s, b)
    BY <1>a, <1>2, <1>3 DEF Alive, InUse, Leaving
  <2>2. ~Has(toRelay'["client"], "connect") /\ ~Has(toRelay'["client"], "end")
    BY <1>2, <1>4, <1>7, <1>8 DEF Has
  <2>3. InUse(S, c)'
    BY <1>a, <1>1, <2>2 DEF InUse
  <2>4. ~Has(inbox["client"], "connected") /\ ~Has(inbox["client"], "end")
    BY <1>2 DEF Has
  <2>. QED BY <1>1, <1>13, <2>1, <2>3, <2>4 DEF Alive
<1>20. HostFlow'
  <2>. SUFFICES ASSUME NEW s \in Sessions, NEW b \in Conns, Routed(s, b)' PROVE Flows(s, b)'
    BY DEF HostFlow
  <2>1. Routed(s, b) \/ (s = S /\ b = c)
    BY <1>1, <1>7, <1>8 DEF Routed
  <2>2. Reached(b)' = Reached(b)
    BY <1>1 DEF Reached
  <2>3. CASE s # S
    <3>1. PICK m \in Int :
            /\ Run(inbox["host"], s, b, Reached(b), m)
            /\ s \in bridged => \E k \in Int : /\ Run(toRelay["client"], s, b, m, k)
                                               /\ sessionId = s => k = sentBy["client"][b]
      BY <2>1, <2>3 DEF HostFlow, Flows
    <3>2. Carries(toRelay["client"], toRelay'["client"], s)
      BY <1>7, <1>8, <2>3, CarriesOn DEF Item
    <3>3. s \in bridged => \E k \in Int : /\ Run(toRelay'["client"], s, b, m, k)
                                          /\ sessionId' = s => k = sentBy'["client"][b]
      BY <1>1, <3>1, <3>2 DEF Carries
    <3>. QED BY <1>1, <2>2, <3>1, <3>3 DEF Flows
  <2>4. CASE s = S
    <3>1. b = c
      BY <1>5, <2>1, <2>4 DEF Routed, Started, ToHost
    <3>2. \A x \in ToHost : ~Item(x, S)
      <4>1. \A x \in ToHost : Item(x, S) => x.by \in Conns
        BY EventFields DEF Mail, ToHost, AtHost, FromClient, Item
      <4>. QED BY <1>5, <4>1 DEF Uses
    <3>3. Reached(c) = -1 /\ sentBy["client"][c] = 0
      BY <1>1, <1>6 DEF Reached, Untouched
    <3>4. Run(inbox["host"], S, c, -1, -1) /\ Run(toRelay["client"], S, c, -1, -1)
      BY <3>2, RunNone DEF ToHost
    <3>5. Item(e, S) /\ e.by = c /\ Num(e) = -1 + 1
      BY <1>7 DEF Item, Num
    <3>6. Run(Append(toRelay["client"], e), S, c, -1, -1 + 1)
      BY <1>7, <3>4, <3>5, RunAdd
    <3>7. Run(toRelay'["client"], S, c, -1, 0) /\ -1 \in Int /\ 0 \in Int
      BY <1>8, <3>6
    <3>. QED BY <1>1, <2>2, <2>4, <3>1, <3>3, <3>4, <3>7 DEF Flows
  <2>. QED BY <2>3, <2>4
<1>21. ClientFlow'
  <2>1. given["client"][c] = <<>> /\ opened[c] = 0 /\ 0 \notin bridged
    BY <1>6 DEF Untouched
  <2>2. Run(inbox["client"], 0, c, 0, 0)
    BY <1>2, RunNone
  <2>3. Returns(c)'
    BY <1>1, <2>1, <2>2 DEF Returns
  <2>. QED BY <1>1, <1>2, <2>3 DEF ClientFlow
<1>22. TargetsEnd'
  BY <1>1 DEF TargetsEnd
<1>23. LocalsEnd'
  <2>1. ~Has(inbox["client"], "end")
    BY <1>2 DEF Has
  <2>2. dropped = {} => S \in bridged
    BY <1>a, <1>2, <2>1 DEF LocalsEnd
  <2>3. \A b \in Conns : local'[b] = "open" => b = c
    BY <1>2, <1>9
  <2>4. dropped = {} => Served(c)'
    BY <1>a, <1>1, <1>11, <2>2 DEF Served
  <2>. QED BY <1>1, <1>2, <2>3, <2>4 DEF LocalsEnd
<1>24. PipedInOrder'
  BY <1>1 DEF PipedInOrder
<1>. QED BY <1>10, <1>12, <1>14, <1>15, <1>16, <1>17, <1>18, <1>19, <1>20, <1>21, <1>22, <1>23, <1>24

-----------------------------------------------------------------------------
(* What the host receives                                                  *)

\* The host takes an event.
LEMMA HostTakes ==
  ASSUME Types, Mail, NEW type, Receives("host", type)
  PROVE  \E e : /\ e = Head(inbox["host"]) /\ e \in Events /\ e.type = type
                /\ FromClient(e) /\ e.type # "connect"
                /\ e \in Range(inbox["host"]) /\ e \in ToHost
                /\ inbox["host"] # <<>> /\ inbox["host"] \in Seq(Events)
                /\ inbox'["host"] = Tail(inbox["host"]) /\ inbox'["client"] = inbox["client"]
                /\ inbox' \in [Sides -> Seq(Events)]
                /\ Range(inbox["host"]) = {e} \cup Range(inbox'["host"])
<1>. DEFINE e == Head(inbox["host"])
<1>. USE Basics
<1>1. /\ inbox["host"] # <<>> /\ e.type = type /\ inbox' = [inbox EXCEPT !["host"] = Tail(@)]
  BY DEF Receives
<1>2. /\ inbox'["host"] = Tail(inbox["host"])
      /\ \A o \in Sides : o # "host" => inbox'[o] = inbox[o]
      /\ inbox' \in [Sides -> Seq(Events)] /\ inbox["host"] \in Seq(Events)
      /\ e \in Events /\ e \in Range(inbox["host"])
      /\ Range(inbox["host"]) = {e} \cup Range(inbox'["host"])
  BY <1>1, Takes
<1>3. FromClient(e) /\ e.type # "connect"
  BY <1>2 DEF Mail, AtHost
<1>. QED BY <1>1, <1>2, <1>3 DEF ToHost

\* The host opens a target; the stream to it begins with what follows.
LEMMA HostStartStep ==
  ASSUME Inv, orderly, HostStart
  PROVE  Inv'
<1>. USE Basics DEF Inv
<1>1. PICK e : /\ e = Head(inbox["host"]) /\ e \in Events /\ e.type = "start"
               /\ FromClient(e) /\ e.type # "connect"
               /\ e \in Range(inbox["host"]) /\ e \in ToHost
               /\ inbox["host"] # <<>> /\ inbox["host"] \in Seq(Events)
               /\ inbox'["host"] = Tail(inbox["host"]) /\ inbox'["client"] = inbox["client"]
               /\ inbox' \in [Sides -> Seq(Events)]
               /\ Range(inbox["host"]) = {e} \cup Range(inbox'["host"])
  BY HostTakes DEF HostStart
<1>2. PICK S \in Known, c \in Conns : e = Start(S, c)
  BY <1>1, EventFields DEF FromClient
<1>3. S \in Sessions /\ S # 0 /\ e.session = S /\ e.by = c
  BY <1>2, EventFields
<1>4. /\ UNCHANGED <<up, toRelay, created, bridged, registered, sessionId, active, listening, local>>
      /\ UNCHANGED <<sentBy, given, dropped, orderly>>
      /\ sessions' = [sessions EXCEPT ![S] = c] /\ target' = [target EXCEPT ![c] = "open"]
      /\ opened' = [opened EXCEPT ![c] = S]
  BY <1>1, <1>3 DEF HostStart, relay, client, history
<1>5. /\ \A b \in Conns : target'[b] = IF b = c THEN "open" ELSE target[b]
      /\ \A b \in Conns : opened'[b] = IF b = c THEN S ELSE opened[b]
      /\ \A s \in Sessions : sessions'[s] = IF s = S THEN c ELSE sessions[s]
  BY <1>4 DEF Types
<1>6. /\ Started(S, c) /\ opened[c] = 0 /\ target[c] = "none"
      /\ given["client"][c] = <<>> /\ given["host"][c] = <<>> /\ sentBy["host"][c] = 0
  BY <1>1, <1>2, <1>3 DEF Started, OneSession, Untouched
<1>7. /\ \A s \in Sessions : Started(s, c) => s = S
      /\ \A b \in Conns : Started(S, b) => b = c
  BY <1>3, <1>6 DEF OneSession
<1>8. Known' = Known /\ \A x : x \in ToHost <=> x \in ToHost' \/ x = e
  BY <1>1, <1>4 DEF ToHost, Known
<1>9. /\ \A s \in Sessions, b \in Conns : Uses(s, b)' => Uses(s, b)
      /\ \A s \in Sessions, b \in Conns : Started(s, b)' => Started(s, b)
  <2>1. \A s \in Sessions, b \in Conns : Started(s, b)' => Started(s, b)
    BY <1>5, <1>6, <1>8 DEF Started
  <2>2. \A s \in Sessions, b \in Conns : Uses(s, b)' => Uses(s, b)
    <3>1. Uses(S, c)
      BY <1>3, <1>6, SessionsKnown
    <3>. QED BY <1>5, <1>8, <3>1 DEF Uses
  <2>. QED BY <2>1, <2>2
<1>10. Types'
  <2>1. S \in 0..created
    BY DEF Known, Types
  <2>2. opened' \in [Conns -> 0..created']
    BY <1>4, <2>1 DEF Types
  <2>. QED BY <1>1, <1>3, <1>4, <2>2 DEF Types, Known
<1>11. Mail'
  BY <1>1, <1>4, <1>5, <1>6, <1>8, MailKept
<1>12. Untouched'
  <2>1. \A b \in Conns : opened'[b] = 0 <=> target'[b] = "none"
    BY <1>3, <1>5 DEF Untouched
  <2>2. \A b \in Conns : opened'[b] = 0 =>
          given'["client"][b] = <<>> /\ given'["host"][b] = <<>> /\ sentBy'["host"][b] = 0
    BY <1>3, <1>4, <1>5 DEF Untouched
  <2>3. \A b \in Conns : local'[b] = "none" =>
          sentBy'["client"][b] = 0 /\ \A s \in Sessions : ~Uses(s, b)'
    BY <1>4, <1>9 DEF Untouched
  <2>4. ASSUME NEW s \in Sessions, sessions'[s] # None PROVE opened'[sessions'[s]] = s
    <3>1. CASE s = S
      BY <1>5, <3>1
    <3>2. CASE s # S
      <4>1. sessions'[s] = sessions[s] /\ opened[sessions[s]] = s
        BY <1>5, <2>4, <3>2 DEF Untouched
      <4>2. sessions[s] \in Conns
        BY <2>4, <4>1 DEF Types
      <4>. QED BY <1>5, <1>6, <4>1, <4>2
    <3>. QED BY <3>1, <3>2
  <2>. QED BY <2>1, <2>2, <2>3, <2>4 DEF Untouched
<1>13. OneSession'
  <2>1. ASSUME NEW s \in Sessions, NEW b \in Conns, Start(s, b) \in ToHost' PROVE opened'[b] = 0
    <3>1. Start(s, b) \in ToHost /\ opened[b] = 0
      BY <1>8, <2>1 DEF OneSession
    <3>2. ASSUME b = c PROVE FALSE
      <4>1. Start(s, c) \in ToHost /\ Start(s, c) \in ToHost'
        BY <2>1, <3>1, <3>2
      <4>2. s = S
        BY <1>7, <4>1 DEF Started
      <4>3. Start(S, c) \in ToHost' /\ Start(S, c) \in Range(inbox["host"])
        BY <1>1, <1>2, <4>1, <4>2
      <4>4. Start(S, c) \notin Range(toRelay["client"])
        BY <1>3, <4>3 DEF Bridge
      <4>5. Start(S, c) \in Range(Tail(inbox["host"]))
        BY <1>1, <1>4, <4>3, <4>4 DEF ToHost
      <4>6. Routed(S, c) /\ Reached(c) = -1
        BY <1>6, <4>3 DEF Routed, Reached
      <4>7. PICK m \in Int : Run(inbox["host"], S, c, -1, m)
        BY <1>3, <4>6 DEF HostFlow, Flows
      <4>8. Run(Tail(inbox["host"]), S, c, -1 + 1, m)
        BY <1>1, <1>3, <4>7, RunTake DEF Item
      <4>9. Item(e, S) /\ Num(e) = 0
        BY <1>1, <1>3 DEF Item, Num
      <4>. QED BY <1>2, <4>5, <4>8, <4>9 DEF Run, Range
    <3>. QED BY <1>5, <3>1, <3>2
  <2>. QED BY <1>9, <2>1 DEF OneSession
<1>14. Current'
  <2>1. \A s \in Sessions, b \in Conns :
          sessionId' = s /\ Uses(s, b)' => local'[b] \in {"open", "ending"}
    BY <1>4, <1>9 DEF Current
  <2>2. \A s \in Sessions : Event("connected", s) \in Range(inbox'["client"]) =>
          s # sessionId' /\ \A b \in Conns : ~Uses(s, b)'
    BY <1>1, <1>4, <1>9 DEF Current
  <2>. QED BY <1>1, <1>4, <2>1, <2>2 DEF Current
<1>15. OneConn' /\ Bridge'
  BY <1>1, <1>4 DEF OneConn, Bridge
<1>16. Alive'
  <2>1. \A s, b : (InUse(s, b) => InUse(s, b)') /\ (Leaving(s) => Leaving(s)')
    BY <1>4 DEF InUse, Leaving
  <2>. QED BY <1>1, <1>4, <1>9, <2>1 DEF Alive
<1>17. HostFlow'
  <2>. SUFFICES ASSUME NEW s \in Sessions, NEW b \in Conns, Routed(s, b)' PROVE Flows(s, b)'
    BY DEF HostFlow
  <2>1. Started(s, b)' /\ Started(s, b)
    <3>1. Started(s, b)'
      BY DEF Routed, Started, ToHost
    <3>. QED BY <1>9, <3>1
  <2>2. CASE s = S
    <3>1. b = c /\ Routed(S, c) /\ Reached(c) = -1
      BY <1>1, <1>2, <1>6, <1>7, <2>1, <2>2 DEF Routed, Reached
    <3>2. PICK m \in Int :
            /\ Run(inbox["host"], S, c, -1, m)
            /\ S \in bridged => \E k \in Int : /\ Run(toRelay["client"], S, c, m, k)
                                               /\ sessionId = S => k = sentBy["client"][c]
      BY <1>3, <3>1 DEF HostFlow, Flows
    <3>3. Run(inbox'["host"], S, c, 0, m)
      <4>1. Run(Tail(inbox["host"]), S, c, -1 + 1, m)
        BY <1>1, <1>3, <3>2, RunTake DEF Item
      <4>. QED BY <1>1, <4>1
    <3>4. Reached(c)' = 0
      BY <1>3, <1>4, <1>5, <1>6 DEF Reached
    <3>. QED BY <1>4, <2>2, <3>1, <3>2, <3>3, <3>4 DEF Flows
  <2>3. CASE s # S
    <3>1. b # c
      BY <1>7, <2>1, <2>3
    <3>2. Routed(s, b)
      BY <1>1, <1>4, <1>5, <2>3, <3>1 DEF Routed
    <3>3. Carries(inbox["host"], inbox'["host"], s)
      BY <1>1, <1>3, <2>3, CarriesOn DEF Item
    <3>. QED BY <1>4, <1>5, <3>1, <3>2, <3>3, CarriesOn, FlowsKept DEF HostFlow
  <2>. QED BY <2>2, <2>3
<1>18. ClientFlow'
  <2>1. ASSUME NEW b \in Conns, active' = b PROVE Returns(b)'
    <3>1. CASE b # c
      BY <1>1, <1>4, <1>5, <2>1, <3>1, CarriesOn, ReturnsKept DEF ClientFlow
    <3>2. CASE b = c
      <4>1. \A x : Sends(x) => x.session # S
        <5>1. \A x : Sends(x) => \E d \in Conns : opened[d] = x.session /\ opened[d] # 0
          BY EventFields DEF Sends
        <5>2. \A d \in Conns : opened[d] = S => d = c
          BY <1>7 DEF Started
        <5>. QED BY <1>6, <5>1, <5>2
      <4>2. \A x \in Range(inbox["client"]) : ~Item(x, S)
        BY <4>1, EventFields DEF Mail, AtClient, Item
      <4>3. \A x \in Range(toRelay["host"]) : ~Item(x, S)
        BY <4>1, EventFields DEF Mail, FromHost, Item
      <4>4. Run(inbox["client"], S, c, 0, 0) /\ Run(toRelay["host"], S, c, 0, 0)
        BY <4>2, <4>3, RunNone
      <4>5. /\ opened'[c] = S /\ Len(given'["client"][c]) = 0 /\ sentBy'["host"][c] = 0
            /\ inbox'["client"] = inbox["client"] /\ toRelay'["host"] = toRelay["host"]
        BY <1>1, <1>4, <1>5, <1>6
      <4>6. /\ Run(inbox'["client"], opened'[c], c, Len(given'["client"][c]), 0)
            /\ Run(toRelay'["host"], opened'[c], c, 0, sentBy'["host"][c])
            /\ 0 \in Int
        BY <4>4, <4>5
      <4>. QED BY <3>2, <4>6 DEF Returns
    <3>. QED BY <3>1, <3>2
  <2>. QED BY <1>1, <1>4, <2>1 DEF ClientFlow
<1>19. TargetsEnd'
  <2>1. \A s \in Sessions : Event("end", s) \in Range(inbox'["host"]) <=>
                            Event("end", s) \in Range(inbox["host"])
    BY <1>1, EventFields
  <2>2. ASSUME NEW s \in Sessions, NEW b \in Conns,
               Start(s, b) \in Range(inbox'["host"]) \/ (opened'[b] = s /\ target'[b] = "open")
        PROVE  Start(s, b) \in Range(inbox["host"]) \/ (opened[b] = s /\ target[b] = "open")
    BY <1>1, <1>2, <1>5, <2>2
  <2>3. ASSUME NEW b \in Conns, target'[b] = "open" PROVE sessions'[opened'[b]] = b
    <3>1. CASE b = c
      BY <1>3, <1>5, <3>1
    <3>2. CASE b # c
      <4>1. target[b] = "open" /\ opened'[b] = opened[b] /\ sessions[opened[b]] = b
        BY <1>5, <2>3, <3>2 DEF TargetsEnd
      <4>2. opened[b] # S
        BY <1>7, <3>2 DEF Started
      <4>. QED BY <1>4, <4>1, <4>2 DEF Types
    <3>. QED BY <3>1, <3>2
  <2>4. ASSUME NEW s \in Sessions, sessions'[s] # None PROVE target'[sessions'[s]] = "open"
    <3>1. CASE s = S
      BY <1>5, <3>1
    <3>2. CASE s # S
      <4>1. sessions'[s] = sessions[s] /\ target[sessions[s]] = "open"
        BY <1>5, <2>4, <3>2 DEF TargetsEnd
      <4>2. sessions[s] \in Conns
        BY <2>4, <4>1 DEF Types
      <4>. QED BY <1>5, <4>1, <4>2
    <3>. QED BY <3>1, <3>2
  <2>5. Final(inbox'["host"])
    BY <1>1, TailOrder DEF TargetsEnd
  <2>. QED BY <1>4, <2>1, <2>2, <2>3, <2>4, <2>5 DEF TargetsEnd
<1>20. LocalsEnd'
  <2>1. ASSUME NEW b \in Conns, Served(b) PROVE Served(b)'
    <3>1. PICK s \in bridged :
            \/ Start(s, b) \in ToHost
            \/ opened[b] = s /\ (target[b] = "open" \/ Event("end", s) \in Range(toRelay["host"]))
      BY <2>1 DEF Served
    <3>2. CASE Start(s, b) \in ToHost /\ Start(s, b) # e
      BY <1>4, <1>8, <3>2 DEF Served
    <3>3. CASE Start(s, b) = e
      <4>1. s = S /\ b = c
        BY <1>2, <3>3, EventFields
      <4>. QED BY <1>4, <1>5, <4>1 DEF Served
    <3>4. CASE opened[b] = s
      <4>1. b # c
        BY <1>6, <3>4
      <4>. QED BY <1>1, <1>4, <1>5, <1>8, <3>1, <3>4, <4>1, <3>2, <3>3 DEF Served
    <3>. QED BY <3>1, <3>2, <3>3, <3>4
  <2>. QED BY <1>1, <1>4, <2>1 DEF LocalsEnd
<1>21. PipedInOrder'
  BY <1>4 DEF PipedInOrder
<1>. QED BY <1>10, <1>11, <1>12, <1>13, <1>14, <1>15, <1>16, <1>17, <1>18, <1>19, <1>20, <1>21

\* The host writes the next chunk of the stream to its target.
LEMMA HostDataStep ==
  ASSUME Inv, orderly, HostData
  PROVE  Inv'
<1>. USE Basics DEF Inv
<1>1. PICK e : /\ e = Head(inbox["host"]) /\ e \in Events /\ e.type = "data"
               /\ FromClient(e) /\ e.type # "connect"
               /\ e \in Range(inbox["host"]) /\ e \in ToHost
               /\ inbox["host"] # <<>> /\ inbox["host"] \in Seq(Events)
               /\ inbox'["host"] = Tail(inbox["host"]) /\ inbox'["client"] = inbox["client"]
               /\ inbox' \in [Sides -> Seq(Events)]
               /\ Range(inbox["host"]) = {e} \cup Range(inbox'["host"])
  BY HostTakes DEF HostData
<1>2. PICK S \in Known, d \in Conns, n \in Nat \ {0} : e = Data(S, d, n)
  BY <1>1, EventFields DEF FromClient
<1>3. /\ S \in Sessions /\ S # 0 /\ e.session = S /\ e.by = d /\ e.chunk = n
      /\ Item(e, S) /\ Num(e) = n
      /\ \A s, b : Start(s, b) # e /\ Event("end", s) # e
  BY <1>1, <1>2, EventFields DEF Item, Num
<1>4. /\ UNCHANGED <<up, toRelay, created, bridged, registered, sessionId, active, listening, local>>
      /\ UNCHANGED <<sessions, target, opened, sentBy, dropped, orderly>>
  BY DEF HostData, relay, client, host
<1>5. PICK c : c = sessions[S]
  OBVIOUS
<1>6. /\ c = None => given' = given
      /\ c # None => given' = [given EXCEPT !["host"][c] = Append(@, <<d, n>>)]
  BY <1>1, <1>3, <1>5 DEF HostData, Give
<1>7. c # None => c \in Conns /\ opened[c] = S /\ \A s \in Sessions : Started(s, c) => s = S
  <2>. SUFFICES ASSUME c # None PROVE c \in Conns /\ opened[c] = S /\ \A s \in Sessions : Started(s, c) => s = S
    OBVIOUS
  <2>1. c \in Conns /\ opened[c] = S
    BY <1>3, <1>5 DEF Types, Untouched
  <2>. QED BY <1>3, <2>1 DEF OneSession, Started
<1>8. /\ given' \in [Sides -> [Conns -> Seq(Conns \X Nat)]]
      /\ given'["client"] = given["client"]
      /\ \A b \in Conns : b # c => given'["host"][b] = given["host"][b]
      /\ c # None => Len(given'["host"][c]) = Len(given["host"][c]) + 1
  <2>1. CASE c = None
    BY <1>6, <2>1 DEF Types
  <2>2. CASE c # None
    <3>1. c \in Conns /\ given' = [given EXCEPT !["host"][c] = Append(@, <<d, n>>)] /\ n \in Nat
      BY <1>2, <1>6, <1>7, <2>2
    <3>2. /\ given' \in [Sides -> [Conns -> Seq(Conns \X Nat)]]
          /\ \A o \in Sides, b \in Conns : o # "host" \/ b # c => given'[o][b] = given[o][b]
          /\ Len(given'["host"][c]) = Len(given["host"][c]) + 1
      <4>1. PICK p \in Sides : p = "host"
        OBVIOUS
      <4>2. given' = [given EXCEPT ![p][c] = Append(@, <<d, n>>)]
        BY <3>1, <4>1
      <4>0. n \in Nat /\ c \in Conns /\ d \in Conns /\ Types
        BY <1>2, <3>1
      <4>3. given' \in [Sides -> [Conns -> Seq(Conns \X Nat)]]
        BY <4>0, <4>2, Gives
      <4>5. \A o \in Sides, b \in Conns : o # p \/ b # c => given'[o][b] = given[o][b]
        BY <4>0, <4>2, Gives
      <4>4. Len(given'[p][c]) = Len(given[p][c]) + 1
        BY <4>0, <4>2, Gives
      <4>. QED BY <4>1, <4>3, <4>4, <4>5
    <3>3. given'["client"] = given["client"]
      BY <3>1 DEF Types
    <3>. QED BY <3>2, <3>3
  <2>. QED BY <2>1, <2>2
<1>9. Types'
  BY <1>1, <1>4, <1>8 DEF Types, Known
<1>10. NothingNew /\ Known' = Known /\ \A x : x \in ToHost <=> x \in ToHost' \/ x = e
  BY <1>1, <1>4 DEF NothingNew, ToHost, Known
<1>11. Mail'
  BY <1>1, <1>4, <1>10, MailKept
<1>12. Untouched' /\ OneSession'
  <2>1. \A b \in Conns : opened[b] = 0 => b # c
    BY <1>3, <1>7
  <2>. QED BY <1>4, <1>8, <1>10, <2>1, UntouchedKept, OneSessionKept
<1>13. Current'
  BY <1>1, <1>4, <1>10, CurrentKept DEF Current
<1>14. OneConn' /\ Bridge' /\ Alive'
  BY <1>1, <1>4, <1>10, AliveKept DEF OneConn, Bridge
\* The next chunk of a session is given to the target of its connection.
<1>15. ASSUME NEW b \in Conns, Routed(S, b)
       PROVE  /\ b = c /\ d = c /\ n = Len(given["host"][c]) + 1
              /\ Flows(S, c)'
  <2>1. PICK m \in Int :
          /\ Run(inbox["host"], S, b, Reached(b), m)
          /\ S \in bridged => \E k \in Int : /\ Run(toRelay["client"], S, b, m, k)
                                             /\ sessionId = S => k = sentBy["client"][b]
    BY <1>3, <1>15 DEF HostFlow, Flows
  <2>2. e.by = b /\ n = Reached(b) + 1 /\ Run(inbox'["host"], S, b, Reached(b) + 1, m)
    BY <1>1, <1>3, <2>1, RunTake
  <2>3. opened[b] # 0
    BY <1>2, <2>2 DEF Reached
  <2>4. sessions[S] = b
    BY <1>3, <1>15, <2>3 DEF Routed, OneSession, ToHost
  <2>5. b = c /\ c # None /\ d = c /\ c \in Conns
    BY <1>3, <1>5, <2>2, <2>4
  <2>6. n = Len(given["host"][c]) + 1 /\ Reached(b) = Len(given["host"][c])
    BY <2>2, <2>3, <2>5 DEF Reached
  <2>7. Len(given'["host"][c]) = Len(given["host"][c]) + 1
    BY <1>8, <2>5
  <2>8. Reached(c)' = Reached(b) + 1
    BY <1>4, <2>3, <2>5, <2>6, <2>7 DEF Reached
  <2>. QED BY <1>4, <2>1, <2>2, <2>5, <2>6, <2>8 DEF Flows
<1>16. HostFlow'
  <2>. SUFFICES ASSUME NEW s \in Sessions, NEW b \in Conns, Routed(s, b)' PROVE Flows(s, b)'
    BY DEF HostFlow
  <2>1. Routed(s, b)
    BY <1>1, <1>4 DEF Routed
  <2>2. CASE s = S
    BY <1>15, <2>1, <2>2
  <2>3. CASE s # S
    <3>1. b # c
      BY <1>7, <2>1, <2>3 DEF Routed, Started, ToHost
    <3>2. Carries(inbox["host"], inbox'["host"], s)
      BY <1>1, <1>3, <2>3, CarriesOn DEF Item
    <3>. QED BY <1>4, <1>8, <2>1, <3>1, <3>2, CarriesOn, FlowsKept DEF HostFlow
  <2>. QED BY <2>2, <2>3
<1>17. ClientFlow'
  BY <1>1, <1>4, <1>8, CarriesOn, ClientFlowKept
<1>18. TargetsEnd'
  <2>1. Final(inbox'["host"])
    BY <1>1, TailOrder DEF TargetsEnd
  <2>2. \A s \in Sessions : Event("end", s) \in Range(inbox'["host"]) <=>
                            Event("end", s) \in Range(inbox["host"])
    BY <1>1, <1>3
  <2>. QED BY <1>1, <1>4, <2>1, <2>2, TargetsEndKept DEF TargetsEnd
<1>19. LocalsEnd'
  BY <1>1, <1>3, <1>4, <1>10, LocalsEndKept
<1>20. PipedInOrder'
  <2>1. CASE c = None
    BY <1>4, <1>6, <2>1 DEF PipedInOrder
  <2>2. CASE c # None
    <3>1. c \in Conns /\ Routed(S, c)
      BY <1>5, <1>7, <2>2 DEF Routed
    <3>2. d = c /\ n = Len(given["host"][c]) + 1
      BY <1>15, <3>1
    <3>3. given' = [given EXCEPT !["host"][c] = Append(@, <<c, n>>)] /\ n \in Nat
      BY <1>2, <1>6, <2>2, <3>2
    <3>. QED BY <3>1, <3>2, <3>3, GivesNext
  <2>. QED BY <2>1, <2>2
<1>. QED BY <1>9, <1>11, <1>12, <1>13, <1>14, <1>16, <1>17, <1>18, <1>19, <1>20

\* The host ends the target of a session that is over.
LEMMA HostEndStep ==
  ASSUME Inv, orderly, HostEnd
  PROVE  Inv'
<1>. USE Basics DEF Inv
<1>1. PICK e : /\ e = Head(inbox["host"]) /\ e \in Events /\ e.type = "end"
               /\ FromClient(e) /\ e.type # "connect"
               /\ e \in Range(inbox["host"]) /\ e \in ToHost
               /\ inbox["host"] # <<>> /\ inbox["host"] \in Seq(Events)
               /\ inbox'["host"] = Tail(inbox["host"]) /\ inbox'["client"] = inbox["client"]
               /\ inbox' \in [Sides -> Seq(Events)]
               /\ Range(inbox["host"]) = {e} \cup Range(inbox'["host"])
  BY HostTakes DEF HostEnd
<1>2. PICK S \in Known : e = Event("end", S)
  BY <1>1, EventFields DEF FromClient
<1>3. /\ S \in Sessions /\ S # 0 /\ e.session = S /\ \A s : ~Item(e, s)
      /\ \A s, b : Start(s, b) # e /\ (Event("end", s) = e => s = S)
  BY <1>1, <1>2, EventFields DEF Item
<1>4. PICK c : c = sessions[S]
  OBVIOUS
<1>5. /\ UNCHANGED <<up, toRelay, created, bridged, registered, sessionId, active, listening, local>>
      /\ UNCHANGED <<opened, sentBy, given, dropped, orderly>>
      /\ sessions' = [sessions EXCEPT ![S] = None]
      /\ target' = [b \in Conns |-> IF b = c THEN "ending" ELSE target[b]]
  BY <1>1, <1>3, <1>4 DEF HostEnd, relay, client, history
<1>6. /\ \A b \in Conns : target'[b] = IF b = c THEN "ending" ELSE target[b]
      /\ \A s \in Sessions : sessions'[s] = IF s = S THEN None ELSE sessions[s]
  BY <1>5 DEF Types
<1>7. \A b \in Conns : b = c => opened[b] = S /\ target[b] = "open"
  BY <1>3, <1>4 DEF Untouched, TargetsEnd
<1>8. S \notin bridged
  BY <1>1, <1>2, <1>3 DEF TargetsEnd
<1>9. Types'
  BY <1>1, <1>5 DEF Types, Known
<1>10. NothingNew /\ Known' = Known /\ \A x : x \in ToHost <=> x \in ToHost' \/ x = e
  BY <1>1, <1>5 DEF NothingNew, ToHost, Known
<1>11. Mail'
  BY <1>1, <1>5, <1>6, <1>7, <1>10, MailKept
<1>12. Untouched' /\ OneSession'
  BY <1>5, <1>6, <1>7, <1>10, UntouchedKept, OneSessionKept
<1>13. Current'
  BY <1>1, <1>5, <1>10, CurrentKept DEF Current
<1>14. OneConn' /\ Bridge' /\ Alive'
  BY <1>1, <1>5, <1>10, AliveKept DEF OneConn, Bridge
<1>15. HostFlow'
  <2>1. \A s \in Sessions, b \in Conns : Routed(s, b)' => Routed(s, b)
    BY <1>1, <1>5, <1>6 DEF Routed
  <2>2. \A s : Carries(inbox["host"], inbox'["host"], s)
    BY <1>1, <1>3, CarriesOn
  <2>. QED BY <1>5, <2>1, <2>2, CarriesOn, HostFlowKept
<1>16. ClientFlow'
  BY <1>1, <1>5, CarriesOn, ClientFlowKept
<1>17. TargetsEnd'
  <2>1. /\ Final(inbox'["host"])
        /\ \A b \in Conns : Start(S, b) \notin Range(inbox'["host"])
    <3>1. \A x \in Range(inbox'["host"]) : ~Item(x, S)
      BY <1>1, <1>3, TailOrder DEF TargetsEnd
    <3>2. Final(inbox'["host"])
      BY <1>1, TailOrder DEF TargetsEnd
    <3>3. \A b : Item(Start(S, b), S)
      BY EventFields DEF Item
    <3>. QED BY <3>1, <3>2, <3>3
  <2>2. ASSUME NEW s \in Sessions, NEW b \in Conns,
               Start(s, b) \in Range(inbox'["host"]) \/ (opened'[b] = s /\ target'[b] = "open")
        PROVE  s \in bridged \/ Event("end", s) \in Range(inbox'["host"]) \/ "host" \in dropped
    <3>1. Start(s, b) \in Range(inbox["host"]) \/ (opened[b] = s /\ target[b] = "open")
      BY <1>1, <1>5, <1>6, <2>2
    <3>2. s # S
      <4>1. CASE Start(s, b) \in Range(inbox'["host"])
        BY <2>1, <4>1
      <4>2. CASE opened'[b] = s /\ target'[b] = "open"
        <5>1. target[b] = "open" /\ opened[b] = s /\ b # c
          BY <1>5, <1>6, <4>2
        <5>. QED BY <1>4, <5>1 DEF TargetsEnd
      <4>. QED BY <2>2, <4>1, <4>2
    <3>3. s \in bridged \/ Event("end", s) \in Range(inbox["host"]) \/ "host" \in dropped
      BY <3>1 DEF TargetsEnd
    <3>. QED BY <1>1, <1>3, <3>2, <3>3
  <2>3. ASSUME NEW b \in Conns, target'[b] = "open" PROVE sessions'[opened'[b]] = b
    <3>1. target[b] = "open" /\ opened'[b] = opened[b] /\ sessions[opened[b]] = b /\ b # c
      BY <1>5, <1>6, <2>3 DEF TargetsEnd
    <3>2. opened[b] # S
      BY <1>4, <3>1
    <3>. QED BY <1>5, <3>1, <3>2 DEF Types
  <2>4. ASSUME NEW s \in Sessions, sessions'[s] # None PROVE target'[sessions'[s]] = "open"
    <3>1. sessions'[s] = sessions[s] /\ s # S /\ sessions[s] \in Conns
      <4>1. s # S /\ sessions'[s] = sessions[s]
        BY <1>6, <2>4
      <4>. QED BY <2>4, <4>1 DEF Types
    <3>2. opened[sessions[s]] = s /\ target[sessions[s]] = "open"
      BY <2>4, <3>1 DEF Untouched, TargetsEnd
    <3>. QED BY <1>6, <1>7, <3>1, <3>2
  <2>5. \A s \in Sessions : Event("end", s) \in Range(inbox'["host"]) => s \notin bridged'
    BY <1>1, <1>5 DEF TargetsEnd
  <2>. QED BY <1>5, <2>1, <2>2, <2>3, <2>4, <2>5 DEF TargetsEnd
<1>18. LocalsEnd'
  <2>1. ASSUME NEW b \in Conns, Served(b) PROVE Served(b)'
    <3>1. PICK s \in bridged :
            \/ Start(s, b) \in ToHost
            \/ opened[b] = s /\ (target[b] = "open" \/ Event("end", s) \in Range(toRelay["host"]))
      BY <2>1 DEF Served
    <3>2. opened[b] = s => target'[b] = target[b]
      BY <1>6, <1>7, <1>8
    <3>. QED BY <1>3, <1>5, <1>10, <3>1, <3>2 DEF Served
  <2>. QED BY <1>1, <1>5, <2>1 DEF LocalsEnd
<1>19. PipedInOrder'
  BY <1>5 DEF PipedInOrder
<1>. QED BY <1>9, <1>11, <1>12, <1>13, <1>14, <1>15, <1>16, <1>17, <1>18, <1>19

-----------------------------------------------------------------------------
(* What the client receives                                                *)

\* The client takes an event.
LEMMA ClientTakes ==
  ASSUME Types, Mail, Current, NEW type, Receives("client", type)
  PROVE  \E e : /\ e = Head(inbox["client"]) /\ e \in Events /\ e.type = type
                /\ AtClient(e) /\ e \in Range(inbox["client"])
                /\ inbox["client"] # <<>> /\ inbox["client"] \in Seq(Events)
                /\ inbox'["client"] = Tail(inbox["client"]) /\ inbox'["host"] = inbox["host"]
                /\ inbox' \in [Sides -> Seq(Events)]
                /\ Range(inbox["client"]) = {e} \cup Range(inbox'["client"])
                /\ Once(inbox'["client"])
                /\ e.type = "connected" => e \notin Range(inbox'["client"])
<1>. DEFINE e == Head(inbox["client"])
<1>. USE Basics
<1>1. /\ inbox["client"] # <<>> /\ e.type = type /\ inbox' = [inbox EXCEPT !["client"] = Tail(@)]
  BY DEF Receives
<1>2. /\ inbox'["client"] = Tail(inbox["client"])
      /\ \A o \in Sides : o # "client" => inbox'[o] = inbox[o]
      /\ inbox' \in [Sides -> Seq(Events)] /\ inbox["client"] \in Seq(Events)
      /\ e \in Events /\ e \in Range(inbox["client"])
      /\ Range(inbox["client"]) = {e} \cup Range(inbox'["client"])
  BY <1>1, Takes
<1>3. AtClient(e)
  BY <1>2 DEF Mail
<1>4. Once(inbox'["client"]) /\ (e.type = "connected" => e \notin Range(inbox'["client"]))
  BY <1>1, <1>2, TailOrder DEF Current
<1>. QED BY <1>1, <1>2, <1>3, <1>4

\* The client takes over a session that nothing uses yet.
LEMMA ConnectedStep ==
  ASSUME Inv, orderly, Connected
  PROVE  Inv'
<1>. USE Basics DEF Inv
<1>1. PICK e : /\ e = Head(inbox["client"]) /\ e \in Events /\ e.type = "connected"
               /\ AtClient(e) /\ e \in Range(inbox["client"])
               /\ inbox["client"] # <<>> /\ inbox["client"] \in Seq(Events)
               /\ inbox'["client"] = Tail(inbox["client"]) /\ inbox'["host"] = inbox["host"]
               /\ inbox' \in [Sides -> Seq(Events)]
               /\ Range(inbox["client"]) = {e} \cup Range(inbox'["client"])
               /\ Once(inbox'["client"])
               /\ e.type = "connected" => e \notin Range(inbox'["client"])
  BY ClientTakes DEF Connected
<1>2. PICK S \in Known : e = Event("connected", S)
  BY <1>1, EventFields DEF AtClient, Sends
<1>3. /\ S \in Sessions /\ S # 0 /\ e.session = S /\ \A s : ~Item(e, s)
      /\ Event("connected", S) \notin Range(inbox'["client"])
  BY <1>1, <1>2, EventFields DEF Item
<1>4. /\ UNCHANGED <<up, toRelay, created, bridged, registered, active, local>>
      /\ UNCHANGED <<sessions, target, opened, sentBy, given, dropped, orderly>>
      /\ sessionId' = S
  BY <1>1, <1>3 DEF Connected, relay, host, history
<1>5. \A b \in Conns : ~Uses(S, b) /\ ~Started(S, b)
  BY <1>1, <1>2, <1>3, SessionsKnown DEF Current
<1>6. \A s \in bridged, b \in Conns : ~Started(s, b)
  BY <1>1 DEF Alive, Has
<1>7. NothingNew /\ Known' = Known /\ ToHost' = ToHost
  BY <1>1, <1>4 DEF NothingNew, ToHost, Known
<1>8. Types'
  <2>1. S \in 0..created
    BY DEF Known, Types
  <2>. QED BY <1>1, <1>4, <2>1 DEF Types, Known
<1>9. Mail'
  BY <1>1, <1>4, <1>7, MailKept
<1>10. Untouched' /\ OneSession'
  BY <1>4, <1>7, UntouchedKept, OneSessionKept
<1>11. \A s, b : (Uses(s, b)' => Uses(s, b)) /\ (Started(s, b)' => Started(s, b))
  BY <1>7, UsesKept
<1>12. Current'
  <2>1. \A s \in Sessions, b \in Conns :
          sessionId' = s /\ Uses(s, b)' => local'[b] \in {"open", "ending"}
    BY <1>4, <1>5, <1>11
  <2>2. \A s \in Sessions : Event("connected", s) \in Range(inbox'["client"]) =>
          /\ s # sessionId' /\ \A b \in Conns : ~Uses(s, b)'
          /\ Event("end", s) \notin Range(toRelay'["client"])
    BY <1>1, <1>3, <1>4, <1>11 DEF Current
  <2>3. \A s \in Sessions : sessionId' = s => Event("end", s) \notin Range(toRelay'["client"])
    BY <1>1, <1>2, <1>3, <1>4 DEF Current
  <2>. QED BY <1>1, <2>1, <2>2, <2>3 DEF Current
<1>13. OneConn' /\ Bridge'
  BY <1>1, <1>4 DEF OneConn, Bridge
<1>14. Alive'
  BY <1>4, <1>6, <1>11 DEF Alive
<1>15. HostFlow'
  <2>. SUFFICES ASSUME NEW s \in Sessions, NEW b \in Conns, Routed(s, b)' PROVE Flows(s, b)'
    BY DEF HostFlow
  <2>1. Routed(s, b)
    BY <1>1, <1>4 DEF Routed
  <2>2. s # S
    BY <1>5, <2>1 DEF Routed, Started, ToHost
  <2>. QED BY <1>1, <1>4, <2>1, <2>2, CarriesOn, FlowsKept DEF HostFlow
<1>16. ClientFlow'
  <2>1. \A s : Carries(inbox["client"], inbox'["client"], s)
    BY <1>1, <1>3, CarriesOn
  <2>. QED BY <1>1, <1>4, <2>1, CarriesOn, ClientFlowKept
<1>17. TargetsEnd'
  BY <1>1, <1>4 DEF TargetsEnd
<1>18. LocalsEnd'
  <2>1. \A b \in Conns : Served(b) => Served(b)'
    BY <1>4, <1>7 DEF Served
  <2>2. Has(inbox["client"], "end") => Has(inbox'["client"], "end")
    BY <1>1 DEF Has
  <2>3. dropped = {} => S \in bridged
    BY <1>1, <1>2, <1>3 DEF LocalsEnd
  <2>. QED BY <1>1, <1>4, <2>1, <2>2, <2>3 DEF LocalsEnd
<1>19. PipedInOrder'
  BY <1>4 DEF PipedInOrder
<1>. QED BY <1>8, <1>9, <1>10, <1>12, <1>13, <1>14, <1>15, <1>16, <1>17, <1>18, <1>19

\* The client writes the next chunk of the stream to its active connection.
LEMMA ClientDataStep ==
  ASSUME Inv, orderly, ClientData
  PROVE  Inv'
<1>. USE Basics DEF Inv
<1>1. PICK e : /\ e = Head(inbox["client"]) /\ e \in Events /\ e.type = "data"
               /\ AtClient(e) /\ e \in Range(inbox["client"])
               /\ inbox["client"] # <<>> /\ inbox["client"] \in Seq(Events)
               /\ inbox'["client"] = Tail(inbox["client"]) /\ inbox'["host"] = inbox["host"]
               /\ inbox' \in [Sides -> Seq(Events)]
               /\ Range(inbox["client"]) = {e} \cup Range(inbox'["client"])
               /\ Once(inbox'["client"])
               /\ e.type = "connected" => e \notin Range(inbox'["client"])
  BY ClientTakes DEF ClientData
<1>2. PICK c \in Conns, n \in Nat \ {0} : opened[c] # 0 /\ e = Data(opened[c], c, n)
  BY <1>1, EventFields DEF AtClient, Sends
<1>3. PICK a : a = active
  OBVIOUS
<1>4. /\ e.session = opened[c] /\ e.by = c /\ e.chunk = n /\ Item(e, opened[c]) /\ Num(e) = n
      /\ n \in Nat /\ c \in Conns /\ (a = None \/ a = c) /\ opened[c] \in Sessions
  <2>1. opened[c] \in 0..created /\ created \in Nat
    BY DEF Types
  <2>2. opened[c] \in Sessions
    BY <1>2, <2>1 DEF Known
  <2>3. e.session = opened[c] /\ e.by = c /\ e.chunk = n
    BY <1>2, EventFields
  <2>. QED BY <1>1, <1>2, <1>3, <2>2, <2>3, EventFields DEF ClientFlow, Item, Num
<1>5. /\ UNCHANGED <<up, toRelay, created, bridged, registered, sessionId, active, listening, local>>
      /\ UNCHANGED <<sessions, target, opened, sentBy, dropped, orderly>>
  BY DEF ClientData, relay, client, host
<1>6. /\ a = None => given' = given
      /\ a = c => given' = [given EXCEPT !["client"][c] = Append(@, <<c, n>>)]
  BY <1>1, <1>3, <1>4 DEF ClientData, Give
<1>7. /\ given' \in [Sides -> [Conns -> Seq(Conns \X Nat)]]
      /\ given'["host"] = given["host"]
      /\ \A b \in Conns : b # c => given'["client"][b] = given["client"][b]
      /\ a = c => Len(given'["client"][c]) = Len(given["client"][c]) + 1
  <2>1. CASE a = None
    BY <1>2, <1>6, <2>1 DEF Types
  <2>2. CASE a = c
    <3>1. PICK p \in Sides : p = "client"
      OBVIOUS
    <3>2. given' = [given EXCEPT ![p][c] = Append(@, <<c, n>>)]
      BY <1>6, <2>2, <3>1
    <3>3. n \in Nat /\ c \in Conns /\ Types
      BY <1>4
    <3>4. given' \in [Sides -> [Conns -> Seq(Conns \X Nat)]]
      BY <3>2, <3>3, Gives
    <3>5. \A o \in Sides, b \in Conns : o # p \/ b # c => given'[o][b] = given[o][b]
      BY <3>2, <3>3, Gives
    <3>6. Len(given'[p][c]) = Len(given[p][c]) + 1
      BY <3>2, <3>3, Gives
    <3>7. given'["host"] = given["host"]
      BY <3>1, <3>2 DEF Types
    <3>. QED BY <3>1, <3>4, <3>5, <3>6, <3>7
  <2>. QED BY <1>4, <2>1, <2>2
<1>8. Types'
  BY <1>1, <1>5, <1>7 DEF Types, Known
<1>9. NothingNew /\ Known' = Known /\ ToHost' = ToHost
  BY <1>1, <1>5 DEF NothingNew, ToHost, Known
<1>10. Mail'
  BY <1>1, <1>5, <1>9, MailKept
<1>11. Untouched' /\ OneSession'
  <2>1. \A b \in Conns : opened[b] = 0 => b # c
    BY <1>2
  <2>. QED BY <1>5, <1>7, <1>9, <2>1, UntouchedKept, OneSessionKept
<1>12. \A s \in Sessions : Event("connected", s) # e /\ Event("end", s) # e
  BY <1>1, EventFields
<1>13. Current'
  BY <1>1, <1>5, <1>9, CurrentKept DEF Current
<1>14. OneConn' /\ Bridge'
  BY <1>1, <1>5 DEF OneConn, Bridge
<1>15. Alive'
  <2>1. \A t : Has(inbox'["client"], t) => Has(inbox["client"], t)
    BY <1>1 DEF Has
  <2>. QED BY <1>5, <1>9, <2>1, AliveKept
<1>16. HostFlow'
  <2>1. \A s \in Sessions, b \in Conns : Routed(s, b)' => Routed(s, b)
    BY <1>1, <1>5 DEF Routed
  <2>. QED BY <1>1, <1>5, <1>7, <2>1, CarriesOn, HostFlowKept
\* The next chunk of the active connection's session is given to it.
<1>17. ASSUME a = c
       PROVE  n = Len(given["client"][c]) + 1 /\ Returns(c)'
  <2>1. PICK m \in Int :
          /\ Run(inbox["client"], opened[c], c, Len(given["client"][c]), m)
          /\ opened[c] \in bridged => Run(toRelay["host"], opened[c], c, m, sentBy["host"][c])
    BY <1>3, <1>4, <1>17 DEF ClientFlow, Returns
  <2>2. /\ n = Len(given["client"][c]) + 1
        /\ Run(inbox'["client"], opened[c], c, Len(given["client"][c]) + 1, m)
    <3>1. Item(Head(inbox["client"]), opened[c])
      BY <1>1, <1>4
    <3>2. /\ Num(Head(inbox["client"])) = Len(given["client"][c]) + 1
          /\ Run(Tail(inbox["client"]), opened[c], c, Len(given["client"][c]) + 1, m)
      <4>1. inbox["client"] \in Seq(Events) /\ inbox["client"] # <<>>
        BY <1>1
      <4>. QED BY <2>1, <3>1, <4>1, RunTake
    <3>. QED BY <1>1, <1>4, <3>2
  <2>. QED BY <1>5, <1>7, <1>17, <2>1, <2>2 DEF Returns
<1>18. ClientFlow'
  <2>1. \A x \in Range(inbox'["client"]) : x.type = "data" => active' = None \/ active' = x.by
    BY <1>1, <1>5 DEF ClientFlow
  <2>2. \A b \in Conns : active' = b => b = c /\ a = c
    BY <1>3, <1>4, <1>5
  <2>. QED BY <1>17, <2>1, <2>2 DEF ClientFlow
<1>19. TargetsEnd'
  BY <1>1, <1>5 DEF TargetsEnd
<1>20. LocalsEnd'
  <2>1. Has(inbox["client"], "end") => Has(inbox'["client"], "end")
    BY <1>1 DEF Has
  <2>. QED BY <1>1, <1>5, <1>9, <2>1, LocalsEndKept
<1>21. PipedInOrder'
  <2>1. CASE a = None
    BY <1>5, <1>6, <2>1 DEF PipedInOrder
  <2>2. CASE a = c
    <3>1. given' = [given EXCEPT !["client"][c] = Append(@, <<c, n>>)] /\ n \in Nat
      BY <1>4, <1>6, <2>2
    <3>2. n = Len(given["client"][c]) + 1
      BY <1>17, <2>2
    <3>. QED BY <1>4, <3>1, <3>2, GivesNext
  <2>. QED BY <1>4, <2>1, <2>2
<1>. QED BY <1>8, <1>10, <1>11, <1>13, <1>14, <1>15, <1>16, <1>18, <1>19, <1>20, <1>21

\* The client ends its connection and asks for the next session.
LEMMA ClientEndStep ==
  ASSUME Inv, orderly, ClientEnd
  PROVE  Inv'
<1>. USE Basics DEF Inv
<1>1. PICK e : /\ e = Head(inbox["client"]) /\ e \in Events /\ e.type = "end"
               /\ AtClient(e) /\ e \in Range(inbox["client"])
               /\ inbox["client"] # <<>> /\ inbox["client"] \in Seq(Events)
               /\ inbox'["client"] = Tail(inbox["client"]) /\ inbox'["host"] = inbox["host"]
               /\ inbox' \in [Sides -> Seq(Events)]
               /\ Range(inbox["client"]) = {e} \cup Range(inbox'["client"])
               /\ Once(inbox'["client"])
               /\ e.type = "connected" => e \notin Range(inbox'["client"])
  BY ClientTakes DEF ClientEnd
<1>2. PICK C : C = Event("connect", 0)
  OBVIOUS
<1>3. /\ C \in Events /\ C.type = "connect" /\ \A s : ~Item(C, s) /\ ~Item(e, s)
      /\ \A s, b : Start(s, b) # C /\ Event("end", s) # C
  <2>1. C \in Events
    BY <1>2, EventTypes
  <2>. QED BY <1>1, <1>2, <2>1, EventFields DEF Item
<1>4. /\ UNCHANGED <<up, created, bridged, registered, listening>>
      /\ UNCHANGED <<sessions, target, opened, sentBy, given, dropped, orderly>>
      /\ local' = [b \in Conns |-> IF b = active THEN "ending" ELSE local[b]]
      /\ active' = None /\ sessionId' = 0
      /\ toRelay' = [toRelay EXCEPT !["client"] = @ \o <<C>>]
  BY <1>2 DEF ClientEnd, Emit, relay, host, history
<1>5. /\ toRelay'["client"] = Append(toRelay["client"], C)
      /\ \A o \in Sides : o # "client" => toRelay'[o] = toRelay[o]
      /\ toRelay' \in [Sides -> Seq(Events)]
      /\ Range(toRelay'["client"]) = Range(toRelay["client"]) \cup {C}
  BY <1>3, <1>4, Emits
<1>6. toRelay'["host"] = toRelay["host"]
  BY <1>5
<1>7. \A s \in bridged, b \in Conns : ~Started(s, b)
  BY <1>1 DEF Alive, Has
<1>8. NothingNew /\ Known' = Known /\ \A x : x \in ToHost' <=> x \in ToHost \/ x = C
  BY <1>1, <1>3, <1>4, <1>5 DEF NothingNew, ToHost, Known
<1>9. Types'
  <2>1. sessionId' \in 0..created'
    BY <1>4 DEF Types
  <2>2. local' \in [Conns -> {"none", "open", "ending", "ended", "closed"}]
    BY <1>4 DEF Types
  <2>. QED BY <1>1, <1>4, <1>5, <2>1, <2>2 DEF Types, Known
<1>10. Mail'
  <2>1. FromClient(C)'
    BY <1>3 DEF FromClient
  <2>. QED BY <1>1, <1>4, <1>5, <1>6, <1>8, <2>1, MailKept
<1>11. \A b \in Conns : local'[b] # "open" /\ (local'[b] = local[b] \/ local[b] = "open")
  BY <1>4 DEF OneConn
<1>12. Untouched' /\ OneSession'
  BY <1>4, <1>8, <1>11, UntouchedKept, OneSessionKept
<1>13. Current'
  <2>1. \A s \in Sessions : Event("connected", s) \in Range(inbox'["client"]) =>
           s # sessionId' /\ Event("connected", s) \in Range(inbox["client"])
    BY <1>1, <1>4
  <2>2. \A s \in Sessions : Event("end", s) \in Range(toRelay'["client"]) =>
           Event("end", s) \in Range(toRelay["client"])
    BY <1>3, <1>5
  <2>3. 0 \notin Sessions
    OBVIOUS
  <2>. QED BY <1>1, <1>4, <1>8, <2>1, <2>2, <2>3, CurrentKept
<1>14. OneConn'
  BY <1>4, <1>11 DEF OneConn
<1>15. Bridge'
  <2>1. Followed(toRelay'["client"])
    BY <1>3, <1>5, AppendOrder
  <2>2. \A s, b : Start(s, b) \in Range(toRelay'["client"])
             => Start(s, b) \in Range(toRelay["client"])
    BY <1>3, <1>5
  <2>. QED BY <1>1, <1>4, <2>1, <2>2 DEF Bridge
<1>16. Alive'
  BY <1>4, <1>7, <1>8, UsesKept DEF Alive
<1>17. HostFlow'
  <2>1. \A s \in Sessions, b \in Conns : Routed(s, b)' => Routed(s, b)
    BY <1>1, <1>3, <1>4, <1>5 DEF Routed
  <2>2. \A s : Carries(toRelay["client"], toRelay'["client"], s)
    BY <1>3, <1>5, CarriesOn
  <2>3. 0 \notin Sessions
    OBVIOUS
  <2>. QED BY <1>1, <1>4, <2>1, <2>2, <2>3, CarriesOn, HostFlowKept
<1>18. ClientFlow'
  BY <1>4 DEF ClientFlow
<1>19. TargetsEnd'
  BY <1>1, <1>4 DEF TargetsEnd
<1>20. LocalsEnd'
  <2>1. \A s \in Sessions : sessionId' # s
    BY <1>4
  <2>. QED BY <1>1, <1>4, <1>11, <2>1 DEF LocalsEnd
<1>21. PipedInOrder'
  BY <1>4 DEF PipedInOrder
<1>. QED BY <1>9, <1>10, <1>12, <1>13, <1>14, <1>15, <1>16, <1>17, <1>18, <1>19, <1>20, <1>21

-----------------------------------------------------------------------------
(* What the relay passes on                                                *)

\* The relay takes an event.
LEMMA RelayPops ==
  ASSUME Types, Mail, NEW p \in Sides, toRelay[p] # <<>>,
         toRelay' = [toRelay EXCEPT ![p] = Tail(@)]
  PROVE  \E e : /\ e = Head(toRelay[p]) /\ e \in Events
                /\ p = "client" => FromClient(e)
                /\ p = "host" => FromHost(e)
                /\ toRelay[p] \in Seq(Events) /\ toRelay'[p] = Tail(toRelay[p])
                /\ \A o \in Sides : o # p => toRelay'[o] = toRelay[o]
                /\ toRelay' \in [Sides -> Seq(Events)]
                /\ Range(toRelay[p]) = {e} \cup Range(toRelay'[p])
<1>. DEFINE e == Head(toRelay[p])
<1>1. toRelay[p] \in Seq(Events)
  BY DEF Types
<1>2. /\ Tail(toRelay[p]) \in Seq(Events) /\ e \in Events /\ e \in Range(toRelay[p])
      /\ Range(toRelay[p]) = {e} \cup Range(Tail(toRelay[p]))
  BY <1>1, QueueTail
<1>. QED BY <1>1, <1>2 DEF Types, Mail

\* It takes one that concerns nobody.
LEMMA RelaySilentStep ==
  ASSUME Inv, orderly, NEW p \in Sides, toRelay[p] # <<>>,
         toRelay' = [toRelay EXCEPT ![p] = Tail(@)],
         \/ Head(toRelay[p]).type = "register"
         \/ /\ Head(toRelay[p]).type \in {"start", "data", "end"}
            /\ Head(toRelay[p]).session \notin bridged,
         UNCHANGED <<up, inbox, created, bridged, client, host, history>>
  PROVE  Inv'
<1>. USE Basics DEF Inv
<1>1. PICK e : /\ e = Head(toRelay[p]) /\ e \in Events
               /\ p = "client" => FromClient(e)
               /\ p = "host" => FromHost(e)
               /\ toRelay[p] \in Seq(Events) /\ toRelay'[p] = Tail(toRelay[p])
               /\ \A o \in Sides : o # p => toRelay'[o] = toRelay[o]
               /\ toRelay' \in [Sides -> Seq(Events)]
               /\ Range(toRelay[p]) = {e} \cup Range(toRelay'[p])
  BY RelayPops
<1>2. /\ UNCHANGED <<up, inbox, created, bridged, sessionId, active, listening, local>>
      /\ UNCHANGED <<sessions, target, opened, sentBy, given, dropped, orderly>>
  BY DEF client, host, history
<1>3. \A s \in bridged : /\ ~Item(e, s) /\ e # Event("end", s) /\ \A b : e # Start(s, b)
  BY <1>1, EventFields DEF Item
<1>4. \A o \in Sides : Range(toRelay'[o]) \subseteq Range(toRelay[o])
  BY <1>1
<1>5. NothingNew /\ Known' = Known
  BY <1>2, <1>4 DEF NothingNew, ToHost, Known
<1>6. Types'
  BY <1>1, <1>2 DEF Types, Known
<1>7. Mail'
  BY <1>2, <1>4, <1>5, MailKept
<1>8. Untouched' /\ OneSession'
  BY <1>2, <1>5, UntouchedKept, OneSessionKept
<1>9. Current'
  BY <1>2, <1>4, <1>5, CurrentKept DEF Current
<1>10. OneConn'
  BY <1>2 DEF OneConn
<1>11. Bridge'
  <2>1. Followed(toRelay'["client"])
    <3>1. CASE p = "client"
      BY <1>1, <3>1, TailOrder DEF Bridge
    <3>2. CASE p # "client"
      BY <1>1, <3>2 DEF Bridge
    <3>. QED BY <3>1, <3>2
  <2>. QED BY <1>2, <1>4, <2>1 DEF Bridge
<1>12. Alive'
  <2>1. ASSUME NEW s \in bridged, EndFirst(toRelay["client"], s) PROVE EndFirst(toRelay'["client"], s)
    <3>1. CASE p = "client"
      BY <1>1, <1>3, <2>1, <3>1, TailOrder
    <3>2. CASE p # "client"
      BY <1>1, <2>1, <3>2
    <3>. QED BY <3>1, <3>2
  <2>2. \A t : Has(toRelay'["client"], t) => Has(toRelay["client"], t)
    BY <1>4 DEF Has
  <2>. QED BY <1>2, <1>4, <1>5, <2>1, <2>2, AliveKept
<1>13. \A s \in bridged, o \in Sides : Carries(toRelay[o], toRelay'[o], s)
  BY <1>1, <1>3, CarriesOn
<1>14. HostFlow'
  <2>1. \A s \in Sessions, b \in Conns : Routed(s, b)' => Routed(s, b)
    BY <1>2, <1>4 DEF Routed
  <2>. QED BY <1>2, <1>13, <2>1, CarriesOn, HostFlowKept
<1>15. ClientFlow'
  BY <1>2, <1>13, CarriesOn, ClientFlowKept
<1>16. TargetsEnd'
  BY <1>2 DEF TargetsEnd
<1>17. LocalsEnd'
  <2>1. \A s \in bridged : \A b : Start(s, b) \in ToHost => Start(s, b) \in ToHost'
    BY <1>1, <1>2, <1>3 DEF ToHost
  <2>2. \A s \in bridged : Event("end", s) \in Range(toRelay["host"]) =>
                           Event("end", s) \in Range(toRelay'["host"])
    BY <1>1, <1>3
  <2>. QED BY <1>2, <2>1, <2>2, LocalsEndKept
<1>18. PipedInOrder'
  BY <1>2 DEF PipedInOrder
<1>. QED BY <1>6, <1>7, <1>8, <1>9, <1>10, <1>11, <1>12, <1>14, <1>15, <1>16, <1>17, <1>18

\* It answers the client's request for a session.
LEMMA RelayConnectStep ==
  ASSUME Inv, orderly, up["client"] = "up", toRelay["client"] # <<>>,
         toRelay' = [toRelay EXCEPT !["client"] = Tail(@)],
         Head(toRelay["client"]).type = "connect", RelayConnect,
         UNCHANGED <<up, client, host, history>>
  PROVE  Inv'
<1>. USE Basics DEF Inv
<1>a. PICK p \in Sides : p = "client"
  OBVIOUS
<1>b. toRelay[p] # <<>> /\ toRelay' = [toRelay EXCEPT ![p] = Tail(@)]
  BY <1>a
<1>c. PICK e : /\ e = Head(toRelay[p]) /\ e \in Events
               /\ p = "client" => FromClient(e)
               /\ p = "host" => FromHost(e)
               /\ toRelay[p] \in Seq(Events) /\ toRelay'[p] = Tail(toRelay[p])
               /\ \A o \in Sides : o # p => toRelay'[o] = toRelay[o]
               /\ toRelay' \in [Sides -> Seq(Events)]
               /\ Range(toRelay[p]) = {e} \cup Range(toRelay'[p])
  BY <1>b, RelayPops
<1>1. /\ e = Head(toRelay["client"]) /\ e.type = "connect" /\ e \in Events
      /\ toRelay["client"] \in Seq(Events) /\ toRelay["client"] # <<>>
      /\ toRelay'["client"] = Tail(toRelay["client"]) /\ toRelay'["host"] = toRelay["host"]
      /\ toRelay' \in [Sides -> Seq(Events)]
      /\ Range(toRelay["client"]) = {e} \cup Range(toRelay'["client"])
  BY <1>a, <1>b, <1>c
<1>2. /\ UNCHANGED <<up, sessionId, active, listening, local>>
      /\ UNCHANGED <<sessions, target, opened, sentBy, given, dropped, orderly>>
  BY DEF client, host, history
<1>d. PICK N, x : N = created + 1 /\ x = IF registered THEN Event("connected", N) ELSE Event("error", 0)
  OBVIOUS
<1>3. /\ registered => N \in Sessions /\ created' = N /\ bridged' = bridged \cup {N}
      /\ ~registered => created' = created /\ bridged' = bridged
      /\ inbox' = [inbox EXCEPT !["client"] = Append(@, x)]
      /\ N \in Nat /\ N # 0 /\ N \notin Known
  <2>1. created \in Nat
    BY DEF Types
  <2>2. CASE registered
    BY <1>d, <2>1, <2>2, ShareAssumption DEF RelayConnect, Sessions, Known
  <2>3. CASE ~registered
    BY <1>d, <2>1, <2>3 DEF RelayConnect, Known
  <2>. QED BY <2>2, <2>3
<1>4. /\ x \in Events /\ x.type \in {"connected", "error"} /\ \A s : ~Item(x, s)
      /\ \A s : x # Event("end", s) /\ (x = Event("connected", s) => registered /\ s = N)
  <2>1. x \in Events
    BY <1>d, <1>3, EventTypes
  <2>2. x.type = IF registered THEN "connected" ELSE "error"
    BY <1>d, EventFields
  <2>. QED BY <1>d, <2>1, <2>2, EventFields DEF Item
<1>5. /\ inbox'["client"] = Append(inbox["client"], x) /\ inbox'["host"] = inbox["host"]
      /\ inbox' \in [Sides -> Seq(Events)] /\ inbox["client"] \in Seq(Events)
      /\ Range(inbox'["client"]) = Range(inbox["client"]) \cup {x}
  <2>1. /\ Append(inbox["client"], x) \in Seq(Events)
        /\ Range(Append(inbox["client"], x)) = Range(inbox["client"]) \cup {x}
    BY <1>4, QueueAppend
  <2>. QED BY <1>3, <2>1 DEF Types
<1>6. /\ Known \subseteq Known' /\ bridged \subseteq bridged' /\ bridged' \subseteq Known'
      /\ created' \in 0..MaxSessions /\ created' \in Nat /\ created <= created'
      /\ \A s \in bridged' : s \in bridged \/ (s = N /\ registered /\ N \in Known')
  <2>1. created \in 0..MaxSessions /\ MaxSessions \in Nat /\ bridged \subseteq Known
    BY ShareAssumption DEF Types
  <2>2. CASE registered
    <3>1. created' = created + 1 /\ created' \in 0..MaxSessions
      BY <1>d, <1>3, <2>1, <2>2 DEF Sessions
    <3>2. Known \subseteq Known' /\ N \in Known'
      BY <1>d, <1>3, <2>1, <3>1 DEF Known
    <3>3. bridged' = bridged \cup {N}
      BY <1>3, <2>2
    <3>4. created' \in Nat /\ created <= created'
      BY <2>1, <3>1
    <3>. QED BY <2>1, <2>2, <3>1, <3>2, <3>3, <3>4
  <2>3. CASE ~registered
    <3>1. created' = created /\ bridged' = bridged
      BY <1>3, <2>3
    <3>2. Known' = Known
      BY <3>1 DEF Known
    <3>. QED BY <2>1, <3>1, <3>2
  <2>. QED BY <2>2, <2>3
<1>7. Types'
  <2>1. /\ sessionId' \in 0..created' /\ opened' \in [Conns -> 0..created']
    <3>1. sessionId \in 0..created /\ created \in Nat /\ opened \in [Conns -> 0..created]
      BY DEF Types
    <3>2. 0..created \subseteq 0..created'
      BY <1>6, <3>1
    <3>. QED BY <1>2, <3>1, <3>2
  <2>. QED BY <1>1, <1>2, <1>5, <1>6, <2>1 DEF Types
<1>8. NothingNew /\ \A y : y.type # "connect" => (y \in ToHost' <=> y \in ToHost)
  BY <1>1, <1>2, <1>5 DEF NothingNew, ToHost
<1>9. Mail'
  <2>1. AtClient(x)'
    <3>1. CASE registered
      BY <1>d, <1>6, <1>3, <3>1 DEF AtClient
    <3>2. CASE ~registered
      BY <1>d, <3>2, EventFields DEF AtClient
    <3>. QED BY <3>1, <3>2
  <2>. QED BY <1>1, <1>2, <1>5, <1>6, <2>1, MailKept
<1>10. Untouched' /\ OneSession'
  BY <1>2, <1>8, UntouchedKept, OneSessionKept
<1>11. \A s, b : (Uses(s, b)' => Uses(s, b)) /\ (Started(s, b)' => Started(s, b))
  BY <1>8, UsesKept
<1>12. registered =>
         /\ \A b \in Conns : ~Uses(N, b) /\ ~Started(N, b)
         /\ N # sessionId /\ Event("connected", N) \notin Range(inbox["client"])
         /\ Event("end", N) \notin Range(toRelay["client"])
         /\ Event("end", N) \notin Range(inbox["host"])
  <2>1. N # sessionId
    BY <1>3 DEF Types, Known
  <2>2. \A s \in Sessions, b \in Conns : Uses(s, b) \/ Started(s, b) => s \in Known
    BY SessionsKnown
  <2>3. \A s \in Sessions :
          /\ Event("end", s) \in Range(toRelay["client"]) => s \in Known
          /\ Event("end", s) \in Range(inbox["host"]) => s \in Known
          /\ Event("connected", s) \in Range(inbox["client"]) => s \in Known
    BY SessionsKnown DEF ToHost
  <2>4. N \notin Known /\ (registered => N \in Sessions)
    BY <1>3
  <2>5. ASSUME N \in Sessions
        PROVE  /\ \A b \in Conns : ~Uses(N, b) /\ ~Started(N, b)
               /\ Event("connected", N) \notin Range(inbox["client"])
               /\ Event("end", N) \notin Range(toRelay["client"])
               /\ Event("end", N) \notin Range(inbox["host"])
    BY <2>2, <2>3, <2>4, <2>5
  <2>. QED BY <2>1, <2>4, <2>5
<1>13. Current'
  <2>1. \A s \in Sessions, b \in Conns :
          sessionId' = s /\ Uses(s, b)' => local'[b] \in {"open", "ending"}
    BY <1>2, <1>11 DEF Current
  <2>2. \A s \in Sessions : Event("connected", s) \in Range(inbox'["client"]) =>
          /\ s # sessionId' /\ \A b \in Conns : ~Uses(s, b)'
          /\ Event("end", s) \notin Range(toRelay'["client"])
    BY <1>1, <1>2, <1>4, <1>5, <1>11, <1>12 DEF Current
  <2>3. Once(inbox'["client"])
    <3>1. x.type = "connected" => x \notin Range(inbox["client"])
      BY <1>d, <1>12, EventFields
    <3>. QED BY <1>4, <1>5, <3>1, AppendOrder DEF Current
  <2>4. \A s \in Sessions : sessionId' = s => Event("end", s) \notin Range(toRelay'["client"])
    BY <1>1, <1>2 DEF Current
  <2>. QED BY <2>1, <2>2, <2>3, <2>4 DEF Current
<1>14. OneConn'
  BY <1>2 DEF OneConn
<1>15. Bridge'
  <2>1. Followed(toRelay'["client"])
    BY <1>1, TailOrder DEF Bridge
  <2>. QED BY <1>1, <1>2, <1>5, <2>1 DEF Bridge
\* A request is for the next session: the one before is over, or served nobody.
<1>16. \A s \in bridged, b \in Conns : ~Started(s, b)
  <2>1. Has(toRelay["client"], "connect")
    BY <1>1 DEF Has
  <2>2. \A s : EndFirst(toRelay["client"], s) => e = Event("end", s) \/ e.type # "connect"
    BY <1>1, TailOrder
  <2>3. \A s : ~EndFirst(toRelay["client"], s)
    BY <1>1, <2>2, EventFields
  <2>. QED BY <2>1, <2>3 DEF Alive, InUse, Leaving
<1>17. Alive'
  BY <1>6, <1>11, <1>12, <1>16 DEF Alive
<1>18. \A s : /\ Carries(toRelay["client"], toRelay'["client"], s)
               /\ Carries(inbox["client"], inbox'["client"], s)
  <2>1. \A s : ~Item(e, s) /\ ~Item(x, s)
    BY <1>1, <1>4 DEF Item
  <2>2. \A s : Carries(toRelay["client"], toRelay'["client"], s)
    BY <1>1, <2>1, CarriesOn
  <2>3. inbox["client"] \in Seq(Events) /\ x \in Events /\ inbox'["client"] = Append(inbox["client"], x)
    BY <1>4, <1>5
  <2>4. \A s : Carries(inbox["client"], inbox'["client"], s)
    BY <2>1, <2>3, CarriesOn
  <2>. QED BY <2>2, <2>4
<1>19. HostFlow'
  <2>. SUFFICES ASSUME NEW s \in Sessions, NEW b \in Conns, Routed(s, b)' PROVE Flows(s, b)'
    BY DEF HostFlow
  <2>1. Started(s, b)
    <3>1. Started(s, b)'
      BY DEF Routed, Started, ToHost
    <3>. QED BY <1>11, <3>1
  <2>2. s \in bridged' => s \in bridged
    BY <1>6, <1>12, <2>1
  <2>3. Routed(s, b)
    BY <1>1, <1>2, <1>5, <2>2 DEF Routed
  <2>. QED BY <1>2, <1>5, <1>18, <2>2, <2>3, CarriesOn, FlowsKept DEF HostFlow
<1>20. ClientFlow'
  <2>1. \A b \in Conns : opened[b] \in bridged' => opened[b] \in bridged
    BY <1>6, <1>12 DEF Started
  <2>2. \A y \in Range(inbox'["client"]) : y.type = "data" => y \in Range(inbox["client"])
    BY <1>4, <1>5
  <2>. QED BY <1>1, <1>2, <1>18, <2>1, <2>2, CarriesOn, ClientFlowKept
<1>21. TargetsEnd'
  <2>1. \A s \in Sessions : Event("end", s) \in Range(inbox'["host"]) => s \notin bridged'
    BY <1>5, <1>6, <1>12 DEF TargetsEnd
  <2>. QED BY <1>2, <1>5, <1>6, <2>1 DEF TargetsEnd
<1>22. LocalsEnd'
  <2>1. \A b \in Conns : Served(b) => Served(b)'
    BY <1>1, <1>2, <1>6, <1>8, EventFields DEF Served
  <2>2. Has(inbox["client"], "end") => Has(inbox'["client"], "end")
    BY <1>5 DEF Has
  <2>3. \A s \in Sessions : Event("connected", s) \in Range(inbox'["client"]) =>
          Event("connected", s) \in Range(inbox["client"]) \/ s \in bridged'
    BY <1>3, <1>4, <1>5
  <2>. QED BY <1>2, <1>6, <2>1, <2>2, <2>3 DEF LocalsEnd
<1>23. PipedInOrder'
  BY <1>2 DEF PipedInOrder
<1>. QED BY <1>7, <1>9, <1>10, <1>13, <1>14, <1>15, <1>17, <1>19, <1>20, <1>21, <1>22, <1>23

\* It passes on what the client starts or sends within a session.
LEMMA RelayToHostStep ==
  ASSUME Inv, orderly, NEW p \in Sides, p = "client", toRelay[p] # <<>>,
         toRelay' = [toRelay EXCEPT ![p] = Tail(@)],
         Head(toRelay[p]).type \in {"start", "data"}, Head(toRelay[p]).session \in bridged,
         inbox' = [inbox EXCEPT ![Other(p)] = Append(@, Head(toRelay[p]))],
         UNCHANGED <<up, created, bridged, client, host, history>>
  PROVE  Inv'
<1>. USE Basics DEF Inv
<1>a. PICK e : /\ e = Head(toRelay[p]) /\ e \in Events
               /\ p = "client" => FromClient(e)
               /\ p = "host" => FromHost(e)
               /\ toRelay[p] \in Seq(Events) /\ toRelay'[p] = Tail(toRelay[p])
               /\ \A o \in Sides : o # p => toRelay'[o] = toRelay[o]
               /\ toRelay' \in [Sides -> Seq(Events)]
               /\ Range(toRelay[p]) = {e} \cup Range(toRelay'[p])
  BY RelayPops
<1>1. /\ e = Head(toRelay["client"]) /\ e.type \in {"start", "data"} /\ e \in Events
      /\ FromClient(e) /\ e.session \in bridged
      /\ toRelay["client"] \in Seq(Events) /\ toRelay["client"] # <<>>
      /\ toRelay'["client"] = Tail(toRelay["client"]) /\ toRelay'["host"] = toRelay["host"]
      /\ toRelay' \in [Sides -> Seq(Events)]
      /\ Range(toRelay["client"]) = {e} \cup Range(toRelay'["client"])
  BY <1>a
<1>2. /\ UNCHANGED <<up, created, bridged, sessionId, active, listening, local>>
      /\ UNCHANGED <<sessions, target, opened, sentBy, given, dropped, orderly>>
  BY DEF client, host, history
<1>3. PICK S : S = e.session
  OBVIOUS
<1>4. /\ S \in bridged /\ S \in Sessions /\ Item(e, S) /\ (\A s : s # S => ~Item(e, s))
      /\ \A s : Event("end", s) # e /\ \A b : Start(s, b) = e => s = S
      /\ e.type # "end" /\ e.type # "connect"
  BY <1>1, <1>3, EventFields DEF Item
<1>5. /\ inbox'["host"] = Append(inbox["host"], e) /\ inbox'["client"] = inbox["client"]
      /\ inbox' \in [Sides -> Seq(Events)] /\ inbox["host"] \in Seq(Events)
      /\ Range(inbox'["host"]) = Range(inbox["host"]) \cup {e}
  <2>1. /\ Append(inbox["host"], e) \in Seq(Events)
        /\ Range(Append(inbox["host"], e)) = Range(inbox["host"]) \cup {e}
    BY <1>1, QueueAppend
  <2>2. inbox' = [inbox EXCEPT !["host"] = Append(@, e)]
    BY <1>a
  <2>3. inbox \in [Sides -> Seq(Events)]
    BY DEF Types
  <2>. QED BY <2>1, <2>2, <2>3
<1>6. Types'
  BY <1>1, <1>2, <1>5 DEF Types, Known
<1>7. NothingNew /\ Known' = Known /\ ToHost' = ToHost
  BY <1>1, <1>2, <1>5 DEF NothingNew, ToHost, Known
<1>8. Mail'
  <2>1. AtHost(e)'
    BY <1>1, <1>4, <1>7 DEF AtHost, FromClient
  <2>. QED BY <1>1, <1>2, <1>5, <1>7, <2>1, MailKept
<1>9. Untouched' /\ OneSession'
  BY <1>2, <1>7, UntouchedKept, OneSessionKept
<1>10. Current'
  BY <1>1, <1>2, <1>5, <1>7, CurrentKept DEF Current
<1>11. OneConn'
  BY <1>2 DEF OneConn
<1>12. ASSUME NEW b \in Conns, Routed(S, b)
       PROVE  /\ Flows(S, b)'
              /\ e = Start(S, b) => Start(S, b) \notin Range(toRelay'["client"])
  <2>1. PICK m \in Int :
          /\ Run(inbox["host"], S, b, Reached(b), m)
          /\ S \in bridged => \E k \in Int : /\ Run(toRelay["client"], S, b, m, k)
                                             /\ sessionId = S => k = sentBy["client"][b]
    BY <1>4, <1>12 DEF HostFlow, Flows
  <2>2. PICK k \in Int : Run(toRelay["client"], S, b, m, k) /\ (sessionId = S => k = sentBy["client"][b])
    BY <1>4, <2>1
  <2>3. e.by = b /\ Num(e) = m + 1 /\ Run(toRelay'["client"], S, b, m + 1, k)
    <3>1. Item(Head(toRelay["client"]), S)
      BY <1>1, <1>4
    <3>2. /\ Head(toRelay["client"]).by = b /\ Num(Head(toRelay["client"])) = m + 1
          /\ Run(Tail(toRelay["client"]), S, b, m + 1, k)
      BY <1>1, <2>2, <3>1, RunTake
    <3>. QED BY <1>1, <3>2
  <2>4. Run(inbox'["host"], S, b, Reached(b), m + 1)
    BY <1>1, <1>4, <1>5, <2>1, <2>3, RunAdd
  <2>5. Reached(b)' = Reached(b) /\ m + 1 \in Int
    BY <1>2 DEF Reached
  <2>6. Flows(S, b)'
    BY <1>2, <2>2, <2>3, <2>4, <2>5 DEF Flows
  <2>7. ASSUME e = Start(S, b), e \in Range(toRelay'["client"]) PROVE FALSE
    <3>1. PICK r : r = toRelay'["client"]
      OBVIOUS
    <3>2. PICK i \in DOMAIN r : r[i] = e
      BY <2>7, <3>1 DEF Range
    <3>3. Num(e) \in ((m + 1) + 1)..k
      BY <1>4, <2>3, <3>1, <3>2 DEF Run
    <3>. QED BY <2>3, <3>3
  <2>. QED BY <2>6, <2>7
<1>13. Bridge'
  <2>1. Followed(toRelay'["client"])
    BY <1>1, TailOrder DEF Bridge
  <2>2. ASSUME NEW s \in Sessions, NEW b \in Conns, Start(s, b) \in Range(inbox'["host"])
        PROVE  Start(s, b) \notin Range(toRelay'["client"])
    <3>1. CASE Start(s, b) = e
      <4>1. s = S /\ Routed(S, b)
        BY <1>1, <1>4, <3>1 DEF Routed
      <4>. QED BY <1>12, <3>1, <4>1
    <3>2. CASE Start(s, b) # e
      BY <1>1, <1>5, <2>2, <3>2 DEF Bridge
    <3>. QED BY <3>1, <3>2
  <2>. QED BY <1>2, <2>1, <2>2 DEF Bridge
<1>14. Alive'
  <2>1. \A s : EndFirst(toRelay["client"], s) => EndFirst(toRelay'["client"], s)
    BY <1>1, <1>4, TailOrder
  <2>2. \A t : Has(toRelay'["client"], t) => Has(toRelay["client"], t)
    BY <1>1 DEF Has
  <2>. QED BY <1>1, <1>2, <1>5, <1>7, <2>1, <2>2, AliveKept
<1>15. HostFlow'
  <2>. SUFFICES ASSUME NEW s \in Sessions, NEW b \in Conns, Routed(s, b)' PROVE Flows(s, b)'
    BY DEF HostFlow
  <2>1. Routed(s, b)
    BY <1>1, <1>2, <1>4, <1>5 DEF Routed
  <2>2. CASE s = S
    BY <1>12, <2>1, <2>2
  <2>3. CASE s # S
    <3>1. /\ Carries(toRelay["client"], toRelay'["client"], s)
          /\ Carries(inbox["host"], inbox'["host"], s)
      BY <1>1, <1>4, <1>5, <2>3, CarriesOn
    <3>. QED BY <1>2, <2>1, <3>1, FlowsKept DEF HostFlow
  <2>. QED BY <2>2, <2>3
<1>16. ClientFlow'
  BY <1>1, <1>2, <1>5, CarriesOn, ClientFlowKept
<1>17. TargetsEnd'
  <2>1. \A s \in Sessions : Event("end", s) \in Range(inbox'["host"]) <=>
                            Event("end", s) \in Range(inbox["host"])
    BY <1>4, <1>5
  <2>2. Final(inbox'["host"])
    <3>1. ASSUME NEW x \in Range(inbox["host"]), x.type = "end" PROVE ~Item(e, x.session)
      <4>1. PICK s \in Known : x = Event("end", s)
        BY <3>1, EventFields DEF Mail, AtHost, FromClient
      <4>2. s \in Sessions /\ s \notin bridged /\ x.session = s
        BY <4>1, EventFields DEF TargetsEnd
      <4>. QED BY <1>4, <4>2
    <3>. QED BY <1>1, <1>5, <3>1, AppendOrder DEF TargetsEnd
  <2>. QED BY <1>2, <1>4, <1>5, <2>1, <2>2 DEF TargetsEnd
<1>18. LocalsEnd'
  BY <1>1, <1>2, <1>5, <1>7, LocalsEndKept
<1>19. PipedInOrder'
  BY <1>2 DEF PipedInOrder
<1>. QED BY <1>6, <1>8, <1>9, <1>10, <1>11, <1>13, <1>14, <1>15, <1>16, <1>17, <1>18, <1>19

\* It passes on what the host sends within a session.
LEMMA RelayToClientStep ==
  ASSUME Inv, orderly, NEW p \in Sides, p = "host", toRelay[p] # <<>>,
         toRelay' = [toRelay EXCEPT ![p] = Tail(@)],
         Head(toRelay[p]).type \in {"start", "data"}, Head(toRelay[p]).session \in bridged,
         inbox' = [inbox EXCEPT ![Other(p)] = Append(@, Head(toRelay[p]))],
         UNCHANGED <<up, created, bridged, client, host, history>>
  PROVE  Inv'
<1>. USE Basics DEF Inv
<1>a. PICK e : /\ e = Head(toRelay[p]) /\ e \in Events
               /\ p = "client" => FromClient(e)
               /\ p = "host" => FromHost(e)
               /\ toRelay[p] \in Seq(Events) /\ toRelay'[p] = Tail(toRelay[p])
               /\ \A o \in Sides : o # p => toRelay'[o] = toRelay[o]
               /\ toRelay' \in [Sides -> Seq(Events)]
               /\ Range(toRelay[p]) = {e} \cup Range(toRelay'[p])
  BY RelayPops
<1>1. /\ e = Head(toRelay["host"]) /\ e.type \in {"start", "data"} /\ e \in Events
      /\ FromHost(e) /\ e.session \in bridged
      /\ toRelay["host"] \in Seq(Events) /\ toRelay["host"] # <<>>
      /\ toRelay'["host"] = Tail(toRelay["host"]) /\ toRelay'["client"] = toRelay["client"]
      /\ toRelay' \in [Sides -> Seq(Events)]
      /\ Range(toRelay["host"]) = {e} \cup Range(toRelay'["host"])
  BY <1>a
<1>2. /\ UNCHANGED <<up, created, bridged, sessionId, active, listening, local>>
      /\ UNCHANGED <<sessions, target, opened, sentBy, given, dropped, orderly>>
  BY DEF client, host, history
<1>3. PICK c \in Conns, n \in Nat \ {0} : opened[c] # 0 /\ e = Data(opened[c], c, n)
  BY <1>1, EventFields DEF FromHost, Sends
<1>4. PICK S : S = opened[c]
  OBVIOUS
<1>5. /\ S \in bridged /\ S \in Sessions /\ Item(e, S) /\ (\A s : s # S => ~Item(e, s))
      /\ e.type = "data" /\ e.by = c /\ Num(e) = n /\ Started(S, c)
      /\ \A s : Event("end", s) # e /\ Event("connected", s) # e
  <2>1. e.session = S /\ e.type = "data" /\ e.by = c /\ e.chunk = n
    BY <1>3, <1>4, EventFields
  <2>. QED BY <1>1, <1>4, <2>1, EventFields DEF Item, Num, Started
<1>6. /\ inbox'["client"] = Append(inbox["client"], e) /\ inbox'["host"] = inbox["host"]
      /\ inbox' \in [Sides -> Seq(Events)] /\ inbox["client"] \in Seq(Events)
      /\ Range(inbox'["client"]) = Range(inbox["client"]) \cup {e}
  <2>1. /\ Append(inbox["client"], e) \in Seq(Events)
        /\ Range(Append(inbox["client"], e)) = Range(inbox["client"]) \cup {e}
    BY <1>1, QueueAppend
  <2>2. inbox' = [inbox EXCEPT !["client"] = Append(@, e)]
    BY <1>a
  <2>3. inbox \in [Sides -> Seq(Events)]
    BY DEF Types
  <2>. QED BY <2>1, <2>2, <2>3
<1>7. \A b \in Conns : opened[b] = S => b = c
  BY <1>4, <1>5 DEF OneSession, Started
<1>8. Types'
  BY <1>1, <1>2, <1>6 DEF Types, Known
<1>9. NothingNew /\ Known' = Known /\ ToHost' = ToHost
  BY <1>1, <1>2, <1>6 DEF NothingNew, ToHost, Known
<1>10. Mail'
  <2>1. AtClient(e)'
    <3>1. opened'[c] # 0 /\ e = Data(opened'[c], c, n)
      BY <1>2, <1>3
    <3>. QED BY <3>1 DEF AtClient, Sends
  <2>. QED BY <1>1, <1>2, <1>6, <1>9, <2>1, MailKept
<1>11. Untouched' /\ OneSession'
  BY <1>2, <1>9, UntouchedKept, OneSessionKept
<1>12. Current'
  <2>1. Once(inbox'["client"])
    BY <1>1, <1>5, <1>6, AppendOrder DEF Current
  <2>2. \A s \in Sessions : Event("connected", s) \in Range(inbox'["client"]) =>
          s # sessionId' /\ Event("connected", s) \in Range(inbox["client"])
    BY <1>2, <1>5, <1>6 DEF Current
  <2>3. 0 \notin Sessions
    OBVIOUS
  <2>. QED BY <1>1, <1>2, <1>9, <2>1, <2>2, <2>3, CurrentKept
<1>13. OneConn' /\ Bridge'
  BY <1>1, <1>2, <1>6 DEF OneConn, Bridge
<1>14. Alive'
  <2>1. \A t \in {"connected", "end"} : Has(inbox'["client"], t) => Has(inbox["client"], t)
    BY <1>5, <1>6 DEF Has
  <2>. QED BY <1>1, <1>2, <1>9, <2>1, AliveKept
<1>15. HostFlow'
  <2>1. \A s \in Sessions, b \in Conns : Routed(s, b)' => Routed(s, b)
    BY <1>1, <1>2, <1>6 DEF Routed
  <2>. QED BY <1>1, <1>2, <1>6, <2>1, CarriesOn, HostFlowKept
<1>16. ClientFlow'
  <2>1. active = None \/ active = c
    BY <1>5 DEF Alive, InUse, Leaving
  <2>2. \A x \in Range(inbox'["client"]) : x.type = "data" => active' = None \/ active' = x.by
    BY <1>2, <1>5, <1>6, <2>1 DEF ClientFlow
  <2>3. ASSUME active = c PROVE Returns(c)'
    <3>1. PICK m \in Int :
            /\ Run(inbox["client"], S, c, Len(given["client"][c]), m)
            /\ S \in bridged => Run(toRelay["host"], S, c, m, sentBy["host"][c])
      BY <1>3, <1>4, <2>3 DEF ClientFlow, Returns
    <3>2. Num(e) = m + 1 /\ Run(toRelay'["host"], S, c, m + 1, sentBy["host"][c])
      <4>1. Item(Head(toRelay["host"]), S) /\ Run(toRelay["host"], S, c, m, sentBy["host"][c])
        BY <1>1, <1>5, <3>1
      <4>2. /\ Num(Head(toRelay["host"])) = m + 1
            /\ Run(Tail(toRelay["host"]), S, c, m + 1, sentBy["host"][c])
        BY <1>1, <4>1, RunTake
      <4>. QED BY <1>1, <4>2
    <3>3. Run(inbox'["client"], S, c, Len(given["client"][c]), m + 1)
      BY <1>1, <1>5, <1>6, <3>1, <3>2, RunAdd
    <3>. QED BY <1>2, <1>4, <3>2, <3>3 DEF Returns
  <2>. QED BY <1>2, <1>3, <2>1, <2>2, <2>3 DEF ClientFlow
<1>17. TargetsEnd'
  BY <1>2, <1>6 DEF TargetsEnd
<1>18. LocalsEnd'
  <2>1. Has(inbox["client"], "end") => Has(inbox'["client"], "end")
    BY <1>6 DEF Has
  <2>2. \A s : Event("end", s) \in Range(toRelay["host"]) => Event("end", s) \in Range(toRelay'["host"])
    BY <1>1, <1>5
  <2>3. \A s \in Sessions : Event("connected", s) \in Range(inbox'["client"]) =>
                            Event("connected", s) \in Range(inbox["client"])
    BY <1>5, <1>6
  <2>. QED BY <1>2, <1>9, <2>1, <2>2, <2>3, LocalsEndKept
<1>19. PipedInOrder'
  BY <1>2 DEF PipedInOrder
<1>. QED BY <1>8, <1>10, <1>11, <1>12, <1>13, <1>14, <1>15, <1>16, <1>17, <1>18, <1>19

\* It ends a session that the client ends.
LEMMA RelayClientEndStep ==
  ASSUME Inv, orderly, NEW p \in Sides, p = "client", toRelay[p] # <<>>,
         toRelay' = [toRelay EXCEPT ![p] = Tail(@)],
         Head(toRelay[p]).type = "end", Head(toRelay[p]).session \in bridged,
         inbox' = [inbox EXCEPT ![Other(p)] = Append(@, Head(toRelay[p]))],
         bridged' = bridged \ {Head(toRelay[p]).session},
         UNCHANGED <<up, created, client, host, history>>
  PROVE  Inv'
<1>. USE Basics DEF Inv
<1>a. PICK e : /\ e = Head(toRelay[p]) /\ e \in Events
               /\ p = "client" => FromClient(e)
               /\ p = "host" => FromHost(e)
               /\ toRelay[p] \in Seq(Events) /\ toRelay'[p] = Tail(toRelay[p])
               /\ \A o \in Sides : o # p => toRelay'[o] = toRelay[o]
               /\ toRelay' \in [Sides -> Seq(Events)]
               /\ Range(toRelay[p]) = {e} \cup Range(toRelay'[p])
  BY RelayPops
<1>1. /\ e = Head(toRelay["client"]) /\ e.type = "end" /\ e \in Events
      /\ FromClient(e) /\ e.session \in bridged /\ bridged' = bridged \ {e.session}
      /\ toRelay["client"] \in Seq(Events) /\ toRelay["client"] # <<>>
      /\ toRelay'["client"] = Tail(toRelay["client"]) /\ toRelay'["host"] = toRelay["host"]
      /\ toRelay' \in [Sides -> Seq(Events)]
      /\ Range(toRelay["client"]) = {e} \cup Range(toRelay'["client"])
  BY <1>a
<1>2. /\ UNCHANGED <<up, created, sessionId, active, listening, local>>
      /\ UNCHANGED <<sessions, target, opened, sentBy, given, dropped, orderly>>
  BY DEF client, host, history
<1>3. PICK S \in Known : e = Event("end", S)
  BY <1>1, EventFields DEF FromClient
<1>4. /\ S \in bridged /\ S \in Sessions /\ bridged' = bridged \ {S} /\ (\A s : ~Item(e, s))
      /\ \A s, b : Start(s, b) # e /\ (Event("end", s) = e => s = S)
  BY <1>1, <1>3, EventFields DEF Item
<1>5. /\ inbox'["host"] = Append(inbox["host"], e) /\ inbox'["client"] = inbox["client"]
      /\ inbox' \in [Sides -> Seq(Events)] /\ inbox["host"] \in Seq(Events)
      /\ Range(inbox'["host"]) = Range(inbox["host"]) \cup {e}
  <2>1. /\ Append(inbox["host"], e) \in Seq(Events)
        /\ Range(Append(inbox["host"], e)) = Range(inbox["host"]) \cup {e}
    BY <1>1, QueueAppend
  <2>2. inbox' = [inbox EXCEPT !["host"] = Append(@, e)]
    BY <1>a
  <2>3. inbox \in [Sides -> Seq(Events)]
    BY DEF Types
  <2>. QED BY <2>1, <2>2, <2>3
<1>6. Types'
  BY <1>1, <1>2, <1>5 DEF Types, Known
<1>7. NothingNew /\ Known' = Known /\ ToHost' = ToHost
  BY <1>1, <1>2, <1>5 DEF NothingNew, ToHost, Known
<1>8. Mail'
  <2>1. AtHost(e)'
    BY <1>1, <1>3, <1>7 DEF AtHost, FromClient
  <2>. QED BY <1>1, <1>2, <1>5, <1>7, <2>1, MailKept
<1>9. Untouched' /\ OneSession'
  BY <1>2, <1>7, UntouchedKept, OneSessionKept
<1>10. Current'
  BY <1>1, <1>2, <1>5, <1>7, CurrentKept DEF Current
<1>11. OneConn'
  BY <1>2 DEF OneConn
<1>12. Bridge'
  <2>1. Followed(toRelay'["client"])
    BY <1>1, TailOrder DEF Bridge
  <2>. QED BY <1>1, <1>2, <1>4, <1>5, <2>1 DEF Bridge
\* This end is the client's of this session: no other one is in use.
<1>13. \A s \in bridged, b \in Conns : Started(s, b) => s = S /\ active = None
  <2>. SUFFICES ASSUME NEW s \in bridged, NEW b \in Conns, Started(s, b)
       PROVE  s = S /\ active = None
    OBVIOUS
  <2>1. e \in Range(toRelay["client"]) /\ e.session = S
    BY <1>1, <1>3, EventFields
  <2>2. Has(toRelay["client"], "end")
    BY <1>1, <2>1 DEF Has
  <2>3. Leaving(s)
    BY <2>2 DEF Alive, InUse
  <2>. QED BY <1>1, <2>1, <2>3 DEF Leaving
<1>14. Alive'
  BY <1>4, <1>7, <1>13, UsesKept DEF Alive
<1>15. \A s : /\ Carries(toRelay["client"], toRelay'["client"], s)
               /\ Carries(inbox["host"], inbox'["host"], s)
  BY <1>1, <1>4, <1>5, CarriesOn
<1>16. HostFlow'
  <2>1. \A s \in Sessions, b \in Conns : Routed(s, b)' => Routed(s, b)
    BY <1>1, <1>2, <1>4, <1>5 DEF Routed
  <2>. QED BY <1>2, <1>4, <1>15, <2>1, HostFlowKept
<1>17. ClientFlow'
  BY <1>1, <1>2, <1>4, <1>5, CarriesOn, ClientFlowKept
<1>18. TargetsEnd'
  <2>1. \A s \in Sessions : Event("end", s) \in Range(inbox'["host"]) => s \notin bridged'
    BY <1>4, <1>5 DEF TargetsEnd
  <2>2. Final(inbox'["host"])
    BY <1>1, <1>4, <1>5, AppendOrder DEF TargetsEnd
  <2>3. \A s \in bridged : s \in bridged' \/ Event("end", s) \in Range(inbox'["host"])
    BY <1>3, <1>4, <1>5
  <2>4. \A s, b : Start(s, b) \in Range(inbox'["host"]) => Start(s, b) \in Range(inbox["host"])
    BY <1>4, <1>5
  <2>5. \A s : Event("end", s) \in Range(inbox["host"]) => Event("end", s) \in Range(inbox'["host"])
    BY <1>5
  <2>. QED BY <1>2, <2>1, <2>2, <2>3, <2>4, <2>5 DEF TargetsEnd
<1>19. LocalsEnd'
  <2>1. e \in Range(toRelay["client"])
    BY <1>1
  <2>2. \A s \in Sessions : Event("connected", s) \in Range(inbox["client"]) \/ sessionId = s => s # S
    BY <1>3, <2>1 DEF Current
  <2>3. ASSUME NEW b \in Conns, local[b] = "open" PROVE Served(b) => Served(b)'
    <3>1. active # None
      BY <2>3 DEF OneConn
    <3>2. \A s \in bridged : ~Started(s, b)
      BY <1>13, <3>1
    <3>. QED BY <3>2 DEF Served, Started
  <2>. QED BY <1>2, <1>4, <1>5, <2>2, <2>3 DEF LocalsEnd
<1>20. PipedInOrder'
  BY <1>2 DEF PipedInOrder
<1>. QED BY <1>6, <1>8, <1>9, <1>10, <1>11, <1>12, <1>14, <1>16, <1>17, <1>18, <1>19, <1>20

\* It ends a session that the host ends.
LEMMA RelayHostEndStep ==
  ASSUME Inv, orderly, NEW p \in Sides, p = "host", toRelay[p] # <<>>,
         toRelay' = [toRelay EXCEPT ![p] = Tail(@)],
         Head(toRelay[p]).type = "end", Head(toRelay[p]).session \in bridged,
         inbox' = [inbox EXCEPT ![Other(p)] = Append(@, Head(toRelay[p]))],
         bridged' = bridged \ {Head(toRelay[p]).session},
         UNCHANGED <<up, created, client, host, history>>
  PROVE  Inv'
<1>. USE Basics DEF Inv
<1>a. PICK e : /\ e = Head(toRelay[p]) /\ e \in Events
               /\ p = "client" => FromClient(e)
               /\ p = "host" => FromHost(e)
               /\ toRelay[p] \in Seq(Events) /\ toRelay'[p] = Tail(toRelay[p])
               /\ \A o \in Sides : o # p => toRelay'[o] = toRelay[o]
               /\ toRelay' \in [Sides -> Seq(Events)]
               /\ Range(toRelay[p]) = {e} \cup Range(toRelay'[p])
  BY RelayPops
<1>1. /\ e = Head(toRelay["host"]) /\ e.type = "end" /\ e \in Events
      /\ FromHost(e) /\ e.session \in bridged /\ bridged' = bridged \ {e.session}
      /\ toRelay["host"] \in Seq(Events) /\ toRelay["host"] # <<>>
      /\ toRelay'["host"] = Tail(toRelay["host"]) /\ toRelay'["client"] = toRelay["client"]
      /\ toRelay' \in [Sides -> Seq(Events)]
      /\ Range(toRelay["host"]) = {e} \cup Range(toRelay'["host"])
  BY <1>a
<1>2. /\ UNCHANGED <<up, created, sessionId, active, listening, local>>
      /\ UNCHANGED <<sessions, target, opened, sentBy, given, dropped, orderly>>
  BY DEF client, host, history
<1>3. PICK c \in Conns : opened[c] # 0 /\ target[c] = "ended" /\ e = Event("end", opened[c])
  BY <1>1, EventFields DEF FromHost, Sends
<1>4. PICK S : S = opened[c]
  OBVIOUS
<1>5. /\ S \in bridged /\ S \in Sessions /\ bridged' = bridged \ {S} /\ (\A s : ~Item(e, s))
      /\ S \in Known /\ Started(S, c) /\ Uses(S, c)
      /\ e = Event("end", S)
      /\ \A s : Event("connected", s) # e /\ (Event("end", s) = e => s = S)
  <2>1. e.session = S /\ e = Event("end", S)
    BY <1>3, <1>4, EventFields
  <2>2. S \in Known
    BY <1>1, <2>1 DEF Types
  <2>. QED BY <1>1, <1>4, <2>1, <2>2, EventFields DEF Item, Started, Uses
<1>6. /\ inbox'["client"] = Append(inbox["client"], e) /\ inbox'["host"] = inbox["host"]
      /\ inbox' \in [Sides -> Seq(Events)] /\ inbox["client"] \in Seq(Events)
      /\ Range(inbox'["client"]) = Range(inbox["client"]) \cup {e}
  <2>1. /\ Append(inbox["client"], e) \in Seq(Events)
        /\ Range(Append(inbox["client"], e)) = Range(inbox["client"]) \cup {e}
    BY <1>1, QueueAppend
  <2>2. inbox' = [inbox EXCEPT !["client"] = Append(@, e)]
    BY <1>a
  <2>3. inbox \in [Sides -> Seq(Events)]
    BY DEF Types
  <2>. QED BY <2>1, <2>2, <2>3
<1>7. Types'
  BY <1>1, <1>2, <1>6 DEF Types, Known
<1>8. NothingNew /\ Known' = Known /\ ToHost' = ToHost
  BY <1>1, <1>2, <1>6 DEF NothingNew, ToHost, Known
<1>9. Mail'
  <2>1. AtClient(e)'
    BY <1>5, <1>8 DEF AtClient
  <2>. QED BY <1>1, <1>2, <1>6, <1>8, <2>1, MailKept
<1>10. Untouched' /\ OneSession'
  BY <1>2, <1>8, UntouchedKept, OneSessionKept
<1>11. Current'
  <2>1. Once(inbox'["client"])
    BY <1>1, <1>6, AppendOrder DEF Current
  <2>2. \A s \in Sessions : Event("connected", s) \in Range(inbox'["client"]) =>
          s # sessionId' /\ Event("connected", s) \in Range(inbox["client"])
    BY <1>2, <1>5, <1>6 DEF Current
  <2>3. 0 \notin Sessions
    OBVIOUS
  <2>. QED BY <1>1, <1>2, <1>8, <2>1, <2>2, <2>3, CurrentKept
<1>12. OneConn' /\ Bridge'
  BY <1>1, <1>2, <1>5, <1>6 DEF OneConn, Bridge
\* Its client had this session, or just ended it: no other one is in use.
<1>13. \A s \in bridged, b \in Conns : Started(s, b) => s = S
  <2>. SUFFICES ASSUME NEW s \in bridged, NEW b \in Conns, Started(s, b)
       PROVE  s = S
    OBVIOUS
  <2>1. InUse(S, c) \/ Leaving(S)
    BY <1>5 DEF Alive
  <2>2. InUse(s, b) \/ Leaving(s)
    BY DEF Alive
  <2>3. s # 0 /\ S # 0
    BY <1>5
  <2>4. ASSUME Leaving(S), Leaving(s) PROVE s = S
    <3>1. Event("end", s) \in Range(toRelay["client"])
      BY <2>4 DEF Leaving, EndFirst, Range
    <3>2. Event("end", s).type = "end" /\ Event("end", s).session = s
      BY EventFields
    <3>3. \A x \in Range(toRelay["client"]) : x.type = "end" => x.session = S
      BY <2>4 DEF Leaving
    <3>. QED BY <3>1, <3>2, <3>3
  <2>. QED BY <2>1, <2>2, <2>3, <2>4 DEF InUse, Leaving
<1>14. Alive'
  BY <1>5, <1>8, <1>13, UsesKept DEF Alive
<1>15. \A s : /\ Carries(toRelay["host"], toRelay'["host"], s)
               /\ Carries(inbox["client"], inbox'["client"], s)
  BY <1>1, <1>5, <1>6, CarriesOn
<1>16. HostFlow'
  <2>1. \A s \in Sessions, b \in Conns : Routed(s, b)' => Routed(s, b)
    BY <1>1, <1>2, <1>5, <1>6 DEF Routed
  <2>. QED BY <1>1, <1>2, <1>5, <1>6, <2>1, CarriesOn, HostFlowKept
<1>17. ClientFlow'
  <2>1. \A x \in Range(inbox'["client"]) : x.type = "data" => x \in Range(inbox["client"])
    BY <1>1, <1>6
  <2>. QED BY <1>2, <1>5, <1>15, <2>1, ClientFlowKept
<1>18. TargetsEnd'
  <2>1. \A s \in Sessions, b \in Conns :
          Start(s, b) \in Range(inbox["host"]) \/ (opened[b] = s /\ target[b] = "open") => s # S
    <3>. SUFFICES ASSUME NEW b \in Conns,
                         Start(S, b) \in Range(inbox["host"]) \/ (opened[b] = S /\ target[b] = "open")
         PROVE  FALSE
      BY <1>5
    <3>1. Started(S, b)
      BY DEF Started, ToHost
    <3>2. b = c
      BY <1>5, <3>1 DEF OneSession
    <3>3. Start(S, c) \in ToHost => opened[c] = 0
      BY <1>5 DEF OneSession
    <3>. QED BY <1>3, <3>2, <3>3 DEF ToHost
  <2>. QED BY <1>2, <1>5, <1>6, <2>1 DEF TargetsEnd
<1>19. LocalsEnd'
  <2>1. Has(inbox'["client"], "end")
    BY <1>1, <1>6 DEF Has
  <2>2. \A s \in Sessions : Event("connected", s) \in Range(inbox'["client"]) =>
          s # S /\ Event("connected", s) \in Range(inbox["client"])
    BY <1>5, <1>6 DEF Current
  <2>. QED BY <1>2, <1>5, <2>1, <2>2 DEF LocalsEnd
<1>20. PipedInOrder'
  BY <1>2 DEF PipedInOrder
<1>. QED BY <1>7, <1>9, <1>10, <1>11, <1>12, <1>14, <1>16, <1>17, <1>18, <1>19, <1>20

\* The relay takes an event, of whatever kind.
LEMMA RelayTakesStep ==
  ASSUME Inv, orderly, NEW p \in Sides, RelayTakes(p)
  PROVE  Inv'
<1>. USE Basics DEF Inv
<1>. DEFINE e == Head(toRelay[p])
<1>1. /\ up[p] = "up" /\ toRelay[p] # <<>>
      /\ toRelay' = [toRelay EXCEPT ![p] = Tail(@)]
      /\ UNCHANGED <<up, client, host, history>>
  BY DEF RelayTakes
<1>2. p = "client" \/ p = "host"
  BY DEF Sides
<1>3. CASE e.type = "register"
  <2>1. UNCHANGED <<inbox, created, bridged>>
    BY <1>3 DEF RelayTakes, RelayConnect
  <2>. QED BY <1>1, <1>3, <2>1, RelaySilentStep
<1>4. CASE e.type = "connect"
  <2>1. RelayConnect
    BY <1>4 DEF RelayTakes
  <2>2. p = "client"
    <3>1. p = "host" => FromHost(e)
      BY <1>1, RelayPops
    <3>2. ~FromHost(e)
      BY <1>4, EventFields DEF FromHost, Sends
    <3>. QED BY <1>2, <3>1, <3>2
  <2>. QED BY <1>1, <1>4, <2>1, <2>2, RelayConnectStep
<1>5. CASE e.type \in {"start", "data", "end"}
  <2>1. /\ inbox' = IF e.session \in bridged
                      THEN [inbox EXCEPT ![Other(p)] = Append(@, e)] ELSE inbox
        /\ bridged' = IF e.type = "end" THEN bridged \ {e.session} ELSE bridged
        /\ created' = created
    BY <1>5 DEF RelayTakes
  <2>2. CASE e.session \notin bridged
    BY <1>1, <1>5, <2>1, <2>2, RelaySilentStep
  <2>3. CASE e.session \in bridged /\ e.type # "end"
    BY <1>1, <1>2, <1>5, <2>1, <2>3, RelayToHostStep, RelayToClientStep
  <2>4. CASE e.session \in bridged /\ e.type = "end"
    BY <1>1, <1>2, <1>5, <2>1, <2>4, RelayClientEndStep, RelayHostEndStep
  <2>. QED BY <1>5, <2>2, <2>3, <2>4
<1>6. e.type \in {"register", "connect", "start", "data", "end"}
  BY DEF RelayTakes
<1>. QED BY <1>3, <1>4, <1>5, <1>6

-----------------------------------------------------------------------------
(* A side is lost                                                          *)

\* The relay loses a side.
LEMMA Loses ==
  ASSUME Types, NEW p \in Sides, Lose(p)
  PROVE  /\ toRelay'[p] = <<>> /\ Range(toRelay'[p]) = {}
         /\ inbox'[p] = <<>> /\ Range(inbox'[p]) = {}
         /\ \A o \in Sides : o # p => toRelay'[o] = toRelay[o] /\ inbox'[o] = inbox[o] \o Ends
         /\ toRelay' \in [Sides -> Seq(Events)] /\ inbox' \in [Sides -> Seq(Events)]
         /\ bridged' = {} /\ created' = created
<1>. USE Basics
<1>1. /\ toRelay' = [toRelay EXCEPT ![p] = <<>>] /\ bridged' = {} /\ created' = created
      /\ inbox' = [inbox EXCEPT ![p] = <<>>, ![Other(p)] = @ \o Ends]
  BY DEF Lose, Ends
<1>2. p = "client" \/ p = "host"
  BY DEF Sides
<1>3. \A o \in Sides : inbox[o] \o Ends \in Seq(Events)
  BY QueueEnds
<1>4. inbox \in [Sides -> Seq(Events)] /\ toRelay \in [Sides -> Seq(Events)] /\ <<>> \in Seq(Events)
  <2>1. <<>> \in Seq(Events)
    OBVIOUS
  <2>. QED BY <2>1 DEF Types
<1>5. Other(p) # p /\ Other(p) \in Sides /\ \A o \in Sides : o # p <=> o = Other(p)
  BY <1>2 DEF Sides
<1>6. \A o \in Sides : inbox'[o] = IF o = p THEN <<>> ELSE inbox[o] \o Ends
  BY <1>1, <1>4, <1>5
<1>7. inbox' \in [Sides -> Seq(Events)]
  <2>1. inbox' = [o \in Sides |-> inbox'[o]]
    BY <1>1, <1>4
  <2>2. \A o \in Sides : inbox'[o] \in Seq(Events)
    BY <1>3, <1>4, <1>6
  <2>. QED BY <2>1, <2>2
<1>8. Range(<<>>) = {}
  BY DEF Range
<1>. QED BY <1>1, <1>4, <1>6, <1>7, <1>8

\* What a lost side leaves behind, whatever its process does.
LEMMA LosesKept ==
  ASSUME Inv, NEW p \in Sides, Lose(p), UNCHANGED <<host, sentBy, given>>,
         local' \in [Conns -> {"none", "open", "ending", "ended", "closed"}],
         \A c \in Conns : local'[c] = "none" => local[c] = "none",
         sessionId' = 0 \/ (sessionId' = sessionId /\ local' = local),
         active' = None \/ active' = active,
         up' \in [Sides -> {"down", "up", "gone"}], dropped' \subseteq Sides,
         "host" \in dropped => "host" \in dropped', p = "host" => "host" \in dropped'
  PROVE  /\ Types' /\ Mail' /\ Untouched' /\ OneSession' /\ Current' /\ Bridge' /\ Alive'
         /\ HostFlow' /\ ClientFlow' /\ TargetsEnd'
<1>. USE Basics DEF Inv
<1>1. /\ toRelay'[p] = <<>> /\ Range(toRelay'[p]) = {}
      /\ inbox'[p] = <<>> /\ Range(inbox'[p]) = {}
      /\ \A o \in Sides : o # p => toRelay'[o] = toRelay[o] /\ inbox'[o] = inbox[o] \o Ends
      /\ toRelay' \in [Sides -> Seq(Events)] /\ inbox' \in [Sides -> Seq(Events)]
      /\ bridged' = {} /\ created' = created
  BY Loses
<1>2. UNCHANGED <<sessions, target, opened, sentBy, given>>
  BY DEF host
<1>3. \A o \in Sides : /\ Range(inbox[o] \o Ends) = Range(inbox[o]) \cup {Event("end", s) : s \in bridged}
                       /\ Extends(inbox[o], inbox[o] \o Ends)
                       /\ Once(inbox[o]) => Once(inbox[o] \o Ends)
                       /\ Final(inbox[o]) => Final(inbox[o] \o Ends)
  BY QueueEnds, EndsOrder
<1>4. p = "client" \/ p = "host"
  BY DEF Sides
<1>5. /\ \A o \in Sides : Range(toRelay'[o]) \subseteq Range(toRelay[o])
      /\ \A o \in Sides : \A x \in Range(inbox'[o]) :
           x \in Range(inbox[o]) \/ \E s \in bridged : x = Event("end", s)
  <2>1. \A o \in Sides : Range(toRelay'[o]) \subseteq Range(toRelay[o])
    BY <1>1
  <2>2. ASSUME NEW o \in Sides, NEW x \in Range(inbox'[o]), x \notin Range(inbox[o])
        PROVE  \E s \in bridged : x = Event("end", s)
    <3>1. o # p
      BY <1>1, <2>2
    <3>2. inbox'[o] = inbox[o] \o Ends
      BY <1>1, <3>1
    <3>3. Range(inbox'[o]) = Range(inbox[o]) \cup {Event("end", s) : s \in bridged}
      BY <1>3, <3>2
    <3>. QED BY <2>2, <3>3
  <2>. QED BY <2>1, <2>2
<1>6. /\ \A o \in Sides : Once(<<>>) /\ Final(<<>>) /\ Followed(<<>>)
      /\ Once(inbox'["client"]) /\ Final(inbox'["host"]) /\ Followed(toRelay'["client"])
  <2>1. Once(<<>>) /\ Final(<<>>) /\ Followed(<<>>)
    BY DEF Once, Final, Followed
  <2>2. Once(inbox["client"]) /\ Final(inbox["host"]) /\ Followed(toRelay["client"])
    BY DEF Current, TargetsEnd, Bridge
  <2>. QED BY <1>1, <1>3, <2>1, <2>2
<1>7. /\ \A s, b : Start(s, b) \in Range(inbox'["host"]) => Start(s, b) \in Range(inbox["host"])
      /\ \A s : Event("connected", s) \in Range(inbox'["client"]) =>
                Event("connected", s) \in Range(inbox["client"])
      /\ \A x \in Range(inbox'["client"]) : x.type = "data" => x \in Range(inbox["client"])
  <2>1. \A o \in Sides : \A x \in Range(inbox'[o]) : x.type # "end" => x \in Range(inbox[o])
    <3>. SUFFICES ASSUME NEW o \in Sides, NEW x \in Range(inbox'[o]), x \notin Range(inbox[o])
         PROVE  x.type = "end"
      OBVIOUS
    <3>1. PICK s \in bridged : x = Event("end", s)
      BY <1>5
    <3>. QED BY <3>1, EventFields
  <2>2. /\ \A s, b : Start(s, b).type # "end"
        /\ \A s : Event("connected", s).type # "end"
    BY EventFields
  <2>. QED BY <2>1, <2>2
<1>8. NothingNew /\ Known' = Known
  BY <1>1, <1>2, <1>5, EventFields DEF NothingNew, ToHost, Known
<1>9. Types'
  <2>1. sessionId' \in 0..created' /\ active' \in Conns \cup {None}
    <3>1. sessionId \in 0..created /\ active \in Conns \cup {None} /\ created \in Nat
      BY ShareAssumption DEF Types
    <3>. QED BY <1>1, <3>1
  <2>. QED BY <1>1, <1>2, <2>1 DEF Types, Known
<1>10. Mail'
  <2>1. ASSUME NEW s \in bridged PROVE AtClient(Event("end", s))' /\ AtHost(Event("end", s))'
    <3>1. s \in Known'
      BY <1>8 DEF Types
    <3>. QED BY <3>1, EventFields DEF AtClient, AtHost, FromClient
  <2>2. ASSUME NEW x \in Range(inbox'["client"]), x \notin Range(inbox["client"])
        PROVE  AtClient(x)'
    <3>1. PICK s \in bridged : x = Event("end", s)
      BY <1>5, <2>2
    <3>. QED BY <2>1, <3>1
  <2>3. ASSUME NEW x \in Range(inbox'["host"]), x \notin Range(inbox["host"])
        PROVE  AtHost(x)'
    <3>1. PICK s \in bridged : x = Event("end", s)
      BY <1>5, <2>3
    <3>. QED BY <2>1, <3>1
  <2>. QED BY <1>2, <1>5, <1>8, <2>2, <2>3, MailKept
<1>11. Untouched' /\ OneSession'
  BY <1>2, <1>8, UntouchedKept, OneSessionKept
<1>12. Current'
  <2>1. \A s \in Sessions : Event("connected", s) \in Range(inbox'["client"]) =>
           s # sessionId' /\ Event("connected", s) \in Range(inbox["client"])
    BY <1>7 DEF Current
  <2>2. \A s \in Sessions : Event("end", s) \in Range(toRelay'["client"]) =>
           Event("end", s) \in Range(toRelay["client"])
    BY <1>5
  <2>3. 0 \notin Sessions
    OBVIOUS
  <2>. QED BY <1>6, <1>8, <2>1, <2>2, <2>3, CurrentKept
<1>13. Bridge' /\ Alive'
  BY <1>1, <1>5, <1>6, <1>7 DEF Bridge, Alive
<1>14. HostFlow'
  <2>. SUFFICES ASSUME NEW s \in Sessions, NEW b \in Conns, Routed(s, b)' PROVE Flows(s, b)'
    BY DEF HostFlow
  <2>1. Routed(s, b)
    BY <1>1, <1>2, <1>7 DEF Routed
  <2>2. CASE p = "client"
    <3>1. Carries(inbox["host"], inbox'["host"], s)
      BY <1>1, <1>3, <2>2, CarriesOn
    <3>2. PICK m \in Int : Run(inbox["host"], s, b, Reached(b), m)
      BY <2>1 DEF HostFlow, Flows
    <3>3. Run(inbox'["host"], s, b, Reached(b), m)
      BY <3>1, <3>2 DEF Carries
    <3>4. Reached(b)' = Reached(b)
      BY <1>2 DEF Reached
    <3>. QED BY <1>1, <3>3, <3>4 DEF Flows
  <2>3. CASE p = "host"
    <3>1. Reached(b) \in Int /\ Reached(b)' = Reached(b)
      <4>1. given \in [Sides -> [Conns -> Seq(Conns \X Nat)]]
        BY DEF Types
      <4>2. given["host"][b] \in Seq(Conns \X Nat)
        BY <4>1
      <4>. QED BY <1>2, <4>2 DEF Reached
    <3>2. Run(inbox'["host"], s, b, Reached(b), Reached(b))
      BY <1>1, <2>3, <3>1, RunNone
    <3>. QED BY <1>1, <3>1, <3>2 DEF Flows
  <2>. QED BY <1>4, <2>2, <2>3
<1>15. ClientFlow'
  <2>2. \A x \in Range(inbox'["client"]) : x.type = "data" => active' = None \/ active' = x.by
    BY <1>7 DEF ClientFlow
  <2>3. ASSUME NEW b \in Conns, active' = b PROVE Returns(b)'
    <3>1. Returns(b)
      BY <2>3 DEF ClientFlow
    <3>2. PICK m \in Int : Run(inbox["client"], opened[b], b, Len(given["client"][b]), m)
      BY <3>1 DEF Returns
    <3>3. CASE p = "host"
      <4>1. Carries(inbox["client"], inbox'["client"], opened[b])
        BY <1>1, <1>3, <3>3, CarriesOn
      <4>2. Run(inbox'["client"], opened[b], b, Len(given["client"][b]), m)
        BY <3>2, <4>1 DEF Carries
      <4>. QED BY <1>1, <1>2, <4>2 DEF Returns
    <3>4. CASE p = "client"
      <4>1. Len(given["client"][b]) \in Int
        <5>1. given \in [Sides -> [Conns -> Seq(Conns \X Nat)]]
          BY DEF Types
        <5>2. given["client"][b] \in Seq(Conns \X Nat)
          BY <5>1
        <5>. QED BY <5>2
      <4>2. Run(inbox'["client"], opened[b], b, Len(given["client"][b]), Len(given["client"][b]))
        BY <1>1, <3>4, <4>1, RunNone
      <4>. QED BY <1>1, <1>2, <4>1, <4>2 DEF Returns
    <3>. QED BY <1>4, <3>3, <3>4
  <2>. QED BY <2>2, <2>3 DEF ClientFlow
<1>16. TargetsEnd'
  <2>1. ASSUME NEW s \in Sessions, NEW b \in Conns,
               Start(s, b) \in Range(inbox'["host"]) \/ (opened'[b] = s /\ target'[b] = "open")
        PROVE  Event("end", s) \in Range(inbox'["host"]) \/ "host" \in dropped'
    <3>1. s \in bridged \/ Event("end", s) \in Range(inbox["host"]) \/ "host" \in dropped
      BY <1>2, <1>7, <2>1 DEF TargetsEnd
    <3>2. CASE p = "client"
      <4>1. inbox'["host"] = inbox["host"] \o Ends
        BY <1>1, <3>2
      <4>2. Range(inbox'["host"]) = Range(inbox["host"]) \cup {Event("end", r) : r \in bridged}
        BY <1>3, <4>1
      <4>. QED BY <3>1, <4>2
    <3>. QED BY <1>4, <3>2
  <2>. QED BY <1>1, <1>2, <1>6, <2>1 DEF TargetsEnd
<1>. QED BY <1>9, <1>10, <1>11, <1>12, <1>13, <1>14, <1>15, <1>16

\* A socket drops.
LEMMA DropStep ==
  ASSUME Inv, orderly, NEW p \in Sides, Drop(p)
  PROVE  Inv'
<1>. USE Basics DEF Inv
<1>1. /\ UNCHANGED <<sessionId, active, listening, local, host, sentBy, given, orderly>>
      /\ Lose(p) /\ up' = [up EXCEPT ![p] = "down"] /\ dropped' = dropped \cup {p}
  BY DEF Drop, client
<1>2. /\ up' \in [Sides -> {"down", "up", "gone"}] /\ dropped' \subseteq Sides
      /\ local' \in [Conns -> {"none", "open", "ending", "ended", "closed"}]
  BY <1>1 DEF Types
<1>3. /\ Types' /\ Mail' /\ Untouched' /\ OneSession' /\ Current' /\ Bridge' /\ Alive'
      /\ HostFlow' /\ ClientFlow' /\ TargetsEnd'
  BY <1>1, <1>2, LosesKept
<1>4. OneConn' /\ PipedInOrder'
  BY <1>1 DEF OneConn, PipedInOrder
<1>5. LocalsEnd'
  BY <1>1 DEF LocalsEnd
<1>. QED BY <1>3, <1>4, <1>5

\* The client is refused and exits.
LEMMA ClientExitsStep ==
  ASSUME Inv, orderly, ClientExits
  PROVE  Inv'
<1>. USE Basics DEF Inv
<1>1. /\ UNCHANGED <<host, sentBy, given, dropped, orderly>>
      /\ Lose("client") /\ up' = [up EXCEPT !["client"] = "gone"]
      /\ local' = [c \in Conns |-> IF local[c] = "none" THEN "none" ELSE "closed"]
      /\ active' = None /\ sessionId' = 0
  BY DEF ClientExits, history
<1>2. /\ up' \in [Sides -> {"down", "up", "gone"}] /\ dropped' \subseteq Sides
      /\ local' \in [Conns -> {"none", "open", "ending", "ended", "closed"}]
      /\ \A c \in Conns : local'[c] = "none" => local[c] = "none"
  BY <1>1 DEF Types
<1>3. /\ Types' /\ Mail' /\ Untouched' /\ OneSession' /\ Current' /\ Bridge' /\ Alive'
      /\ HostFlow' /\ ClientFlow' /\ TargetsEnd'
  BY <1>1, <1>2, LosesKept
<1>4. OneConn' /\ PipedInOrder'
  BY <1>1 DEF OneConn, PipedInOrder
<1>5. LocalsEnd'
  <2>1. inbox'["client"] = <<>> /\ Range(inbox'["client"]) = {}
    BY <1>1, Loses
  <2>2. \A s \in Sessions : sessionId' # s
    BY <1>1
  <2>. QED BY <1>1, <2>1, <2>2 DEF LocalsEnd
<1>. QED BY <1>3, <1>4, <1>5

-----------------------------------------------------------------------------
(* The invariant                                                           *)

\* It holds at first: nothing is under way and no connection was made.
LEMMA InitHolds ==
  ASSUME Init
  PROVE  Inv
<1>. USE DEF Init
<1>1. /\ \A p \in Sides : toRelay[p] = <<>> /\ inbox[p] = <<>>
      /\ Range(toRelay["client"]) = {} /\ Range(toRelay["host"]) = {}
      /\ Range(inbox["client"]) = {} /\ Range(inbox["host"]) = {}
  BY DEF Range, Sides
<1>2. Sessions \subseteq Nat \ {0} /\ None \notin Conns /\ <<>> \in Seq(Events)
      /\ \A c \in Conns : opened[c] = 0 /\ target[c] = "none" /\ local[c] = "none"
      /\ \A s \in Sessions : sessions[s] = None
  BY ShareAssumption DEF Sessions
<1>3. Types
  <2>1. given \in [Sides -> [Conns -> Seq(Conns \X Nat)]]
    <3>1. <<>> \in Seq(Conns \X Nat)
      OBVIOUS
    <3>. QED BY <3>1
  <2>2. sentBy \in [Sides -> [Conns -> Nat]] /\ opened \in [Conns -> 0..created]
    OBVIOUS
  <2>3. created \in 0..MaxSessions /\ sessionId \in 0..created /\ bridged \subseteq Known
    BY ShareAssumption
  <2>. QED BY <1>2, <2>1, <2>2, <2>3 DEF Types
<1>4. \A s \in Sessions, c \in Conns : ~Uses(s, c) /\ ~Started(s, c)
  BY <1>1, <1>2 DEF Uses, Started, ToHost
<1>5. Mail /\ Untouched /\ OneSession
  <2>1. Mail
    BY <1>1 DEF Mail
  <2>2. given["client"] = [c \in Conns |-> <<>>] /\ given["host"] = [c \in Conns |-> <<>>]
        /\ sentBy["client"] = [c \in Conns |-> 0] /\ sentBy["host"] = [c \in Conns |-> 0]
    BY DEF Sides
  <2>3. \A c \in Conns : /\ given["client"][c] = <<>> /\ given["host"][c] = <<>>
                         /\ sentBy["client"][c] = 0 /\ sentBy["host"][c] = 0
    BY <2>2
  <2>5. Untouched
    BY <1>2, <1>4, <2>3 DEF Untouched
  <2>4. OneSession
    BY <1>1, <1>4 DEF OneSession, ToHost
  <2>. QED BY <2>1, <2>4, <2>5
<1>6. Once(<<>>) /\ Followed(<<>>) /\ Final(<<>>)
  BY DEF Once, Followed, Final
<1>7. "client" \in Sides /\ "host" \in Sides
  BY DEF Sides
<1>8. Current
  BY <1>1, <1>2, <1>4, <1>6, <1>7 DEF Current
<1>9. OneConn /\ Bridge /\ Alive
  BY <1>1, <1>2, <1>6, <1>7 DEF OneConn, Bridge, Alive
<1>10. HostFlow /\ ClientFlow
  <2>1. HostFlow
    BY <1>1, <1>2, ShareAssumption DEF HostFlow, Routed
  <2>2. ClientFlow
    BY <1>1, <1>2 DEF ClientFlow
  <2>. QED BY <2>1, <2>2
<1>11. TargetsEnd /\ LocalsEnd
  <2>1. TargetsEnd
    BY <1>1, <1>2, <1>6, <1>7 DEF TargetsEnd
  <2>2. LocalsEnd
    BY <1>1, <1>2 DEF LocalsEnd
  <2>. QED BY <2>1, <2>2
<1>12. PipedInOrder
  <2>1. \A p \in Sides, c \in Conns : given[p][c] = <<>>
    OBVIOUS
  <2>. QED BY <2>1 DEF PipedInOrder
<1>. QED BY <1>3, <1>5, <1>8, <1>9, <1>10, <1>11, <1>12 DEF Inv

\* A connection that comes out of turn stays out of turn.
LEMMA OrderlyBefore ==
  ASSUME [Next]_vars, orderly'
  PROVE  orderly
BY DEF Next, vars, history, Connect, Drop, RelayTakes, Connected, ClientData, ClientEnd,
       ClientExits, HostStart, HostData, HostEnd, Accept, LocalData, LocalEnd, LocalError,
       LocalClose, TargetData, TargetEnd, TargetError

\* A step that changes nothing.
LEMMA StutterStep ==
  ASSUME Inv, UNCHANGED vars
  PROVE  Inv'
<1>1. /\ UNCHANGED <<up, toRelay, inbox, created, bridged, sessionId, active, local>>
      /\ UNCHANGED <<sessions, target, opened, sentBy, given, dropped, orderly>>
  BY DEF vars, relay, client, host, history
<1>. USE <1>1 DEF Inv
<1>2. Known' = Known /\ ToHost' = ToHost
  BY DEF Known, ToHost
<1>. USE <1>2
<1>3. \A s, c : Uses(s, c)' = Uses(s, c) /\ Started(s, c)' = Started(s, c)
  BY DEF Uses, Started
<1>4. Types' /\ Mail' /\ Untouched' /\ OneSession'
  BY <1>3 DEF Types, Mail, Untouched, OneSession, FromClient, FromHost, AtClient, AtHost, Sends
<1>5. Current' /\ OneConn' /\ Bridge' /\ PipedInOrder'
  BY <1>3 DEF Current, OneConn, Bridge, PipedInOrder
<1>6. Alive'
  BY <1>3 DEF Alive, InUse, Leaving
<1>7. HostFlow' /\ ClientFlow'
  BY DEF HostFlow, Routed, Flows, Reached, ClientFlow, Returns
<1>8. TargetsEnd' /\ LocalsEnd'
  BY DEF TargetsEnd, LocalsEnd, Served
<1>. QED BY <1>4, <1>5, <1>6, <1>7, <1>8

\* No step breaks it.
LEMMA InvNext ==
  ASSUME IInv, [Next]_vars
  PROVE  IInv'
<1>. SUFFICES ASSUME orderly' PROVE Inv'
  BY DEF IInv
<1>1. orderly /\ Inv
  BY OrderlyBefore DEF IInv
<1>2. CASE UNCHANGED vars
  BY <1>1, <1>2, StutterStep
<1>3. ASSUME NEW p \in Sides, Connect(p) \/ Drop(p) \/ RelayTakes(p)
      PROVE  Inv'
  BY <1>1, <1>3, ConnectStep, DropStep, RelayTakesStep
<1>4. CASE Connected \/ ClientData \/ ClientEnd \/ ClientExits
  BY <1>1, <1>4, ConnectedStep, ClientDataStep, ClientEndStep, ClientExitsStep
<1>5. CASE HostStart \/ HostData \/ HostEnd
  BY <1>1, <1>5, HostStartStep, HostDataStep, HostEndStep
<1>6. ASSUME NEW c \in Conns, Accept(c) \/ LocalData(c) \/ LocalClose(c)
      PROVE  Inv'
  BY <1>1, <1>6, AcceptStep, LocalDataStep, LocalCloseStep
<1>7. ASSUME NEW c \in Conns, LocalEnd(c) \/ LocalError(c)
      PROVE  Inv'
  BY <1>1, <1>7, LocalEndStep
<1>8. ASSUME NEW c \in Conns, TargetData(c) \/ TargetEnd(c) \/ TargetError(c)
      PROVE  Inv'
  BY <1>1, <1>8, TargetDataStep, TargetEndStep
<1>. QED BY <1>2, <1>3, <1>4, <1>5, <1>6, <1>7, <1>8 DEF Next

-----------------------------------------------------------------------------
(* Theorems                                                                *)

\* As long as local connections come one after the other, a session serves one
\* connection, and what its two ends have not got of each other is under way,
\* in order.
THEOREM ShareInvariant == Spec => []IInv
<1>1. Init => IInv
  BY InitHolds DEF IInv
<1>2. IInv /\ [Next]_vars => IInv'
  BY InvNext
<1>. QED BY <1>1, <1>2, PTL DEF Spec

\* As long as local connections come one after the other, each end of one gets
\* only what its other end sent, in order and without a gap (handleTcpData,
\* handleShareData), although the client does not look at the session of what
\* it receives, sessions end from both sides and sockets drop.
THEOREM SharePipedInOrder == Spec => []PipedInOrder
<1>1. IInv => PipedInOrder
  BY DEF IInv, Inv, PipedInOrder
<1>. QED BY <1>1, ShareInvariant, PTL

\* Once nothing is under way, neither end of a connection is open without the
\* other, unless a socket dropped (closeClient, closeSession, share-end).
THEOREM ShareEndsTogether == Spec => []EndsTogether
<1>1. ASSUME IInv PROVE EndsTogether
  <2>. SUFFICES ASSUME orderly, Quiet, NEW c \in Conns
       PROVE  /\ target[c] = "open" => local[c] = "open" \/ "host" \in dropped
              /\ local[c] = "open" => target[c] = "open" \/ dropped # {}
    BY DEF EndsTogether
  <2>1. Inv
    BY <1>1 DEF IInv
  <2>. USE Basics DEF Inv
  <2>2. /\ toRelay["client"] = <<>> /\ toRelay["host"] = <<>>
        /\ inbox["client"] = <<>> /\ inbox["host"] = <<>>
    BY <2>1 DEF Quiet
  <2>3. /\ Range(toRelay["client"]) = {} /\ Range(toRelay["host"]) = {}
        /\ Range(inbox["client"]) = {} /\ Range(inbox["host"]) = {}
    BY <2>2 DEF Range
  <2>4. ASSUME target[c] = "open", "host" \notin dropped PROVE local[c] = "open"
    <3>1. opened[c] # 0 /\ opened[c] \in Sessions
      <4>1. opened[c] # 0
        BY <2>1, <2>4 DEF Untouched
      <4>2. opened[c] \in 0..created /\ created \in Nat
        BY <2>1, ShareAssumption DEF Types
      <4>3. opened[c] \in Known
        BY <4>1, <4>2 DEF Known
      <4>. QED BY <2>1, <4>1, <4>3
    <3>2. opened[c] \in bridged
      BY <2>1, <2>3, <2>4, <3>1 DEF TargetsEnd
    <3>3. InUse(opened[c], c) \/ Leaving(opened[c])
      BY <2>1, <3>2 DEF Alive, Started
    <3>4. ~Leaving(opened[c])
      BY <2>2 DEF Leaving, EndFirst
    <3>. QED BY <2>1, <3>3, <3>4 DEF InUse, OneConn
  <2>5. ASSUME local[c] = "open", dropped = {} PROVE target[c] = "open"
    <3>1. Has(inbox["client"], "end") \/ Served(c)
      BY <2>1, <2>5 DEF LocalsEnd
    <3>2. Served(c)
      BY <2>3, <3>1 DEF Has
    <3>. QED BY <2>3, <3>2 DEF Served, ToHost
  <2>. QED BY <2>4, <2>5
<1>. QED BY <1>1, ShareInvariant, PTL
=============================================================================
