-------------------- MODULE UsageDelivery_ledger_proofs --------------------
(***************************************************************************)
(* Proofs that relate UsageDelivery to what it promises of each record     *)
(* (UsageLedger): how often a record is billed at most when pods of        *)
(* different kinds share the address and are replaced one by one, and that *)
(* every step settles and bills records as the ledger says.                *)
(***************************************************************************)
EXTENDS UsageDelivery_proofs

USE DEF billVars, cpVars, emitVars, batchVars, ackVars, stopVars, LoopFrame

-----------------------------------------------------------------------------
(* What has been posted.                                                   *)

\* A record that has been in a batch is in hand, delivered or counted; the rows
\* of a batch are committed with its id; and a notification follows its cause.
PostInv ==
    /\ IsFiniteSet(strays)
    /\ \A e \in Event : dropped[e] = 0 /\ e \notin batch \union acked => Fresh(e)
    /\ \A r \in recorded : \A e \in r : rows[e] > 0
    /\ unseen => cancel

LEMMA InitPost == Init => PostInv
BY FS_EmptySet DEF Init, PostInv, Fresh

LEMMA CommitPosts ==
    ASSUME TypeOK, PostInv, NEW i \in SUBSET Event, NEW dedup, Commit(i, dedup)
    PROVE  /\ \A e \in Event : rows'[e] \in {rows[e], rows[e] + 1}
           /\ \A e \in Event : e \notin i => rows'[e] = rows[e]
           /\ \A e \in i : rows'[e] > 0
           /\ \A r \in recorded' : r = i \/ r \in recorded
           /\ \A r \in recorded' : \A e \in r : rows'[e] > 0
           /\ UNCHANGED rows \/ \A e \in Event : rows'[e] = rows[e] + IF e \in i THEN 1 ELSE 0
<1>1. CASE dedup /\ i \in recorded
  <2>1. UNCHANGED <<rows, recorded>>
    BY <1>1 DEF Commit
  <2> QED BY <1>1, <2>1 DEF PostInv
<1>2. CASE ~(dedup /\ i \in recorded)
  <2>1. /\ rows' = [e \in Event |-> rows[e] + IF e \in i THEN 1 ELSE 0]
        /\ recorded' = IF dedup THEN recorded \union {i} ELSE recorded
    BY <1>2 DEF Commit
  <2>2. \A e \in Event : rows[e] \in Nat
    BY DEF TypeOK
  <2>3. \A r \in recorded : r \subseteq Event
    BY DEF TypeOK
  <2>4. \A r \in recorded : \A e \in r : rows'[e] > 0
    BY <2>1, <2>2, <2>3 DEF PostInv
  <2> QED BY <2>1, <2>2, <2>4
<1> QED BY <1>1, <1>2

\* The control plane and the requests are let alone, and no record leaves its
\* batch but for a count or a delivery.
LEMMA QuietPost ==
    ASSUME PostInv, UNCHANGED <<rows, recorded, strays>>, unseen' => cancel',
           \A e \in Event : dropped'[e] = 0 /\ e \notin batch' \union acked'
                              => dropped[e] = 0 /\ e \notin batch \union acked
    PROVE  PostInv'
BY DEF PostInv, Fresh

LEMMA DeliverPost ==
    ASSUME TypeOK, StageInv, PostInv, NEW b \in SUBSET Event, NEW to \in Resume, NEW last,
           Deliver(b, to, last), pc \in {"select", "draining"},
           UNCHANGED <<rows, recorded, strays, acked, unseen, cancel>>
    PROVE  PostInv'
<1>1. batch = {}
  BY DEF StageInv
<1>2. \A e \in Event : dropped'[e] = 0 => dropped[e] = 0
  BY DeliverShape DEF Count, TypeOK
<1> QED BY <1>1, <1>2, QuietPost DEF PostInv

\* The batch in hand has been carried out, or may be later, and the attempt ends.
LEMMA AttemptPost ==
    ASSUME TypeOK, PostInv,
           UNCHANGED strays \/ Stray,
           UNCHANGED <<rows, recorded>> \/ \E dedup : Commit(batch, dedup),
           \/ Count(batch) /\ UNCHANGED acked
           \/ acked' = acked \union batch /\ UNCHANGED dropped
           \/ UNCHANGED <<dropped, batch, acked>>,
           UNCHANGED <<unseen, cancel>>
    PROVE  PostInv'
<1>1. IsFiniteSet(strays')
  BY FS_AddElement DEF PostInv, Stray
<1>2. \A e \in Event : dropped'[e] = 0 /\ e \notin batch' \union acked'
                         => dropped[e] = 0 /\ e \notin batch \union acked
  BY DEF Count, TypeOK
<1>3. \A e \in Event : e \notin batch => rows'[e] = rows[e]
  BY CommitPosts DEF TypeOK
<1>4. /\ \A r \in recorded' : r = batch \/ r \in recorded
      /\ \A r \in recorded' : \A e \in r : rows'[e] > 0
  BY CommitPosts DEF TypeOK, PostInv
<1>5. \A s \in strays' : s \in strays \/ s.batch = batch
  BY DEF Stray
<1> QED BY <1>1, <1>2, <1>3, <1>4, <1>5 DEF PostInv, Fresh

LEMMA StrayLandsPost ==
    ASSUME TypeOK, PostInv, NEW s \in strays, StrayLands(s)
    PROVE  PostInv'
<1>1. s.batch \in SUBSET Event
  BY DEF TypeOK
<1>2. /\ \A e \in Event : e \notin s.batch => rows'[e] = rows[e]
      /\ \A r \in recorded' : r = s.batch \/ r \in recorded
      /\ \A r \in recorded' : \A e \in r : rows'[e] > 0
  BY <1>1, CommitPosts DEF StrayLands
<1>3. strays' = strays \ {s} /\ UNCHANGED <<dropped, batch, acked, unseen, cancel>>
  BY DEF StrayLands
<1>4. IsFiniteSet(strays')
  BY <1>3, FS_RemoveElement DEF PostInv
<1> QED BY <1>2, <1>3, <1>4 DEF PostInv, Fresh

\* Time passes for a request: what a request on its way becomes.
Older(s) == [s EXCEPT !.left = @ - 1]

\* Time passes for some of the requests on their way, which become no more.
LEMMA OlderStrays ==
    ASSUME NEW S, IsFiniteSet(S), NEW T, T = {Older(s) : s \in S}
    PROVE  IsFiniteSet(T) /\ Cardinality(T) <= Cardinality(S)
<1>. DEFINE f == [s \in S |-> Older(s)]
<1>1. f \in Surjection(S, T)
  BY DEF Surjection
<1> QED BY <1>1, FS_Surjection

LEMMA TickPost == TypeOK /\ PostInv /\ Tick => PostInv'
<1>. SUFFICES ASSUME TypeOK, PostInv, Tick PROVE PostInv'
  OBVIOUS
<1>1. /\ UNCHANGED <<rows, recorded, dropped, batch, acked, unseen, cancel>>
      /\ strays' = {Older(s) : s \in {r \in strays : r.left > 0}}
  BY DEF Tick, Older
<1>2. IsFiniteSet({r \in strays : r.left > 0})
  BY FS_Subset DEF PostInv
<1>3. IsFiniteSet(strays')
  BY <1>1, <1>2, OlderStrays
<1>4. \A s \in strays' : \E r \in strays : s.batch = r.batch
  BY <1>1 DEF TypeOK, Older
<1> QED BY <1>1, <1>3, <1>4 DEF PostInv, Fresh

LEMMA NextPost == TypeOK /\ StageInv /\ PostInv /\ [Next]_vars => PostInv'
<1>. SUFFICES ASSUME TypeOK, StageInv, PostInv, [Next]_vars PROVE PostInv'
  OBVIOUS
<1>1. ASSUME NEW e \in Event, Emit(e) PROVE PostInv'
  <2>1. \A d \in Event : dropped'[d] = 0 => dropped[d] = 0
    BY <1>1 DEF Emit, TypeOK
  <2> QED BY <1>1, <2>1, QuietPost DEF Emit, PostInv
<1>2. CASE Shutdown \/ HandlersGone \/ Rollout \/ CancelChanged \/ Exit \/ UNCHANGED vars
  BY <1>2, QuietPost DEF Shutdown, HandlersGone, Rollout, CancelChanged, Exit, vars, PostInv
<1>3. CASE Resend
  BY <1>3, QuietPost DEF Resend, PostInv
<1>4. CASE Delivered
  BY <1>4, AttemptPost DEF Delivered
<1>5. CASE Refused
  <2>1. PICK dedup \in fleet, retryable \in BOOLEAN, wrote \in RefusedWrites :
           /\ IF wrote THEN Commit(batch, dedup) ELSE UNCHANGED <<rows, recorded>>
           /\ Failure(TRUE, dedup /\ retryable)
    BY <1>5 DEF Refused
  <2>2. UNCHANGED <<strays, unseen, cancel>>
    BY <1>5 DEF Refused
  <2> QED BY <2>1, <2>2, FailureShape, AttemptPost
<1>6. CASE AnsweredOnTheWay \/ Unanswered
  <2>1. PICK answered, may : Failure(answered, may)
    BY <1>6 DEF AnsweredOnTheWay, Unanswered
  <2>2. (Stray \/ UNCHANGED strays) /\ UNCHANGED <<rows, recorded, unseen, cancel>>
    BY <1>6 DEF AnsweredOnTheWay, Unanswered
  <2> QED BY <2>1, <2>2, FailureShape, AttemptPost
<1>7. CASE Receive
  <2>1. PICK e \in queue :
           IF Cardinality(buffer) + 1 >= MaxBatch
           THEN Deliver(buffer \union {e}, "select", FALSE)
           ELSE UNCHANGED <<batchVars, dropped>>
    BY <1>7 DEF Receive
  <2>2. pc = "select" /\ UNCHANGED <<rows, recorded, strays, acked, unseen, cancel>>
    BY <1>7 DEF Receive
  <2>3. CASE Deliver(buffer \union {e}, "select", FALSE)
    <3>1. buffer \union {e} \in SUBSET Event /\ "select" \in Resume
      BY DEF TypeOK, Resume
    <3> QED BY <2>2, <2>3, <3>1, DeliverPost
  <2>4. CASE UNCHANGED <<batchVars, dropped>>
    BY <2>2, <2>4, QuietPost DEF PostInv
  <2> QED BY <2>1, <2>3, <2>4
<1>8. CASE ReceiveNone
  <2>1. pc = "select" /\ UNCHANGED <<rows, recorded, strays, acked, unseen, cancel>>
    BY <1>8 DEF ReceiveNone
  <2>2. CASE buffer = {}
    BY <1>8, <2>1, <2>2, QuietPost DEF ReceiveNone, PostInv
  <2>3. CASE buffer # {}
    BY <1>8, <2>1, <2>3, DeliverPost DEF ReceiveNone, Resume, TypeOK
  <2> QED BY <2>2, <2>3
<1>9. CASE FlushTick
  BY <1>9, FilledType, DeliverPost DEF FlushTick, Resume
<1>10. CASE Drain
  <2>1. PICK b \in Filled :
           IF b = {}
           THEN UNCHANGED <<buffer, batchVars, dropped>>
           ELSE Deliver(b, "draining", TRUE)
    BY <1>10 DEF Drain
  <2>2. pc = "draining" /\ UNCHANGED <<rows, recorded, strays, acked, unseen, cancel>>
    BY <1>10 DEF Drain
  <2>3. CASE b = {}
    BY <2>1, <2>2, <2>3, QuietPost DEF PostInv
  <2>4. CASE b # {}
    BY <2>1, <2>2, <2>4, FilledType, DeliverPost DEF Resume
  <2> QED BY <2>3, <2>4
<1> QED BY <1>1, <1>2, <1>3, <1>4, <1>5, <1>6, <1>7, <1>8, <1>9, <1>10,
           StrayLandsPost, TickPost
        DEF Next, WorkerStep, AttemptEnds

LEMMA PostInvariant == Spec => [](TypeOK /\ StageInv /\ AccountInv /\ AgeInv /\ PostInv)
BY AccountInvariant, InitAge, NextAge, InitPost, NextPost, PTL DEF Spec

-----------------------------------------------------------------------------
(* How often a record may be billed.                                       *)

\* The requests on their way that carry record e, and how often it has been
\* billed or may still be by a request that nobody waits for.
StraysOf(e) == {s \in strays : e \in s.batch}

Posts(e) == rows[e] + Cardinality(StraysOf(e))

\* The time of n longest backoffs, and all the time there may be for them.
Backoffs(n) == n * MaxBackoff

Room == Backoffs(2 + (MaxBackoff - InitialBackoff)) + RetryBudget

\* The time that n posts, what is left of the budget and the way to the longest
\* backoff come to.
Due(n) == Backoffs(n) + left + Backoffs(MaxBackoff - backoff)

\* No record is posted more often than there is room for.  Each wait pays for
\* the next post: with its time, or with the step of the backoff it leads to.
\* The last post, when no time is left or a shutdown has cut a wait short, is
\* paid for from the start.
RowsInv ==
    /\ \A e \in Event : Backoffs(Posts(e)) <= Room
    /\ pc \in {"sending", "backoff"} =>
         /\ backoff \in 1 .. MaxBackoff
         /\ \A e \in batch : Backoffs(Posts(e) + 1) <= Room
    /\ pc = "sending" /\ ~final /\ left > 0 =>
         \A e \in batch : Due(Posts(e) + 1) <= Room - MaxBackoff
    /\ pc = "backoff" =>
         \A e \in batch :
            wait = left \/ Due(Posts(e)) + (backoff - wait) <= Room - MaxBackoff

LEMMA BackoffsStep ==
    ASSUME NEW n \in Nat
    PROVE  Backoffs(n) \in Nat /\ Backoffs(n + 1) = Backoffs(n) + MaxBackoff
BY UsageAssumption DEF UsageAssumption, Backoffs

LEMMA BackoffsOrder ==
    ASSUME NEW m \in Nat, NEW n \in Nat, m <= n
    PROVE  Backoffs(m) <= Backoffs(n)
BY UsageAssumption DEF UsageAssumption, Backoffs

\* The step a backoff takes to the next pays for what it falls short of the
\* longest.
LEMMA RampPays ==
    ASSUME NEW b \in 1 .. MaxBackoff
    PROVE  LET next == Least(2 * b, MaxBackoff)
           IN  /\ next \in 1 .. MaxBackoff
               /\ Backoffs(MaxBackoff - next) + MaxBackoff <= Backoffs(MaxBackoff - b) + b
<1>. DEFINE m == MaxBackoff
<1>0. m \in Nat /\ m >= 1 /\ b \in Nat /\ b >= 1 /\ b <= m
  BY UsageAssumption DEF UsageAssumption
<1>1. CASE 2 * b < m
  <2>1. Least(2 * b, m) = 2 * b
    BY <1>1 DEF Least
  <2>2. m <= b * m
    BY <1>0
  <2>3. (m - 2 * b) * m = m * m - 2 * (b * m) /\ (m - b) * m = m * m - b * m
    BY <1>0
  <2>4. m * m \in Nat /\ b * m \in Nat
    BY <1>0
  <2>5. (m - 2 * b) * m + m <= (m - b) * m + b
    BY <1>0, <2>2, <2>3, <2>4
  <2> QED BY <1>0, <1>1, <2>1, <2>5 DEF Backoffs
<1>2. CASE ~(2 * b < m)
  <2>1. Least(2 * b, m) = m
    BY <1>2 DEF Least
  <2>2. m - b \in Nat /\ (m - m) * m = 0
    BY <1>0
  <2>3. m - b <= (m - b) * m
    BY <1>0, <2>2
  <2>4. (m - b) * m \in Nat
    BY <1>0, <2>2
  <2> QED BY <1>0, <2>1, <2>2, <2>3, <2>4 DEF Backoffs
<1> QED BY <1>1, <1>2

LEMMA RoomNat ==
    /\ Room \in Nat
    /\ Backoffs(0) = 0 /\ Backoffs(1) = MaxBackoff
    /\ MaxBackoff <= Room
    /\ Backoffs(1) + RetryBudget + Backoffs(MaxBackoff - InitialBackoff) = Room - MaxBackoff
<1>. DEFINE n == MaxBackoff - InitialBackoff
<1>1. n \in Nat /\ MaxBackoff \in Nat /\ RetryBudget \in Nat
  BY UsageAssumption DEF UsageAssumption
<1>2. Backoffs(n) \in Nat /\ Backoffs(2 + n) = 2 * MaxBackoff + Backoffs(n)
  <2>1. Backoffs(n + 1) = Backoffs(n) + MaxBackoff /\ Backoffs(n) \in Nat
    BY <1>1, BackoffsStep
  <2>2. Backoffs((n + 1) + 1) = Backoffs(n + 1) + MaxBackoff
    BY <1>1, BackoffsStep
  <2>3. (n + 1) + 1 = 2 + n
    BY <1>1
  <2> QED BY <1>1, <2>1, <2>2, <2>3
<1>3. Backoffs(0) = 0 /\ Backoffs(1) = MaxBackoff
  BY <1>1 DEF Backoffs
<1> QED BY <1>1, <1>2, <1>3 DEF Room

LEMMA StraysFinite ==
    ASSUME NEW S, IsFiniteSet(S), NEW e
    PROVE  LET T == {s \in S : e \in s.batch}
           IN  IsFiniteSet(T) /\ Cardinality(T) \in Nat
BY FS_Subset, FS_CardinalityType

LEMMA PostsNat ==
    ASSUME TypeOK, IsFiniteSet(strays), NEW e \in Event
    PROVE  /\ IsFiniteSet(StraysOf(e)) /\ Cardinality(StraysOf(e)) \in Nat
           /\ Posts(e) \in Nat /\ rows[e] <= Posts(e)
<1>1. IsFiniteSet(StraysOf(e)) /\ Cardinality(StraysOf(e)) \in Nat
  BY StraysFinite DEF StraysOf
<1>2. rows[e] \in Nat
  BY DEF TypeOK
<1> QED BY <1>1, <1>2 DEF Posts

LEMMA PostsNatAfter ==
    ASSUME TypeOK', IsFiniteSet(strays'), NEW e \in Event
    PROVE  Posts(e)' \in Nat
<1>1. Cardinality(StraysOf(e)') \in Nat
  BY StraysFinite DEF StraysOf
<1>2. rows'[e] \in Nat
  BY DEF TypeOK
<1> QED BY <1>1, <1>2 DEF Posts

\* A record that has never been in a batch has no posts.
LEMMA FreshPosts == ASSUME NEW e, Fresh(e) PROVE Posts(e) = 0
<1>1. StraysOf(e) = {}
  BY DEF Fresh, StraysOf
<1> QED BY <1>1, FS_EmptySet DEF Fresh, Posts

\* The batch in hand is carried out, or may be later: that is one post more for
\* each of its records.
LEMMA AttemptPosts ==
    ASSUME TypeOK, PostInv, NEW e \in Event,
           \/ UNCHANGED rows /\ (UNCHANGED strays \/ Stray)
           \/ UNCHANGED strays /\ \E dedup : Commit(batch, dedup)
    PROVE  /\ e \in batch => Posts(e)' <= Posts(e) + 1
           /\ e \notin batch => Posts(e)' = Posts(e)
<1>. DEFINE gone == [batch |-> batch, left |-> MaxStray, last |-> final]
<1>0. /\ IsFiniteSet(StraysOf(e)) /\ Cardinality(StraysOf(e)) \in Nat /\ rows[e] \in Nat
  BY PostsNat DEF PostInv, TypeOK
<1>1. CASE UNCHANGED rows /\ UNCHANGED strays
  BY <1>0, <1>1 DEF Posts, StraysOf
<1>2. CASE UNCHANGED rows /\ Stray
  <2>1. CASE e \in batch
    <3>1. StraysOf(e)' = StraysOf(e) \union {gone}
      BY <1>2, <2>1 DEF Stray, StraysOf
    <3>2. Cardinality(StraysOf(e) \union {gone})
             \in {Cardinality(StraysOf(e)), Cardinality(StraysOf(e)) + 1}
      BY <1>0, FS_AddElement
    <3> QED BY <1>0, <1>2, <2>1, <3>1, <3>2 DEF Posts
  <2>2. CASE e \notin batch
    <3>1. StraysOf(e)' = StraysOf(e)
      BY <1>2, <2>2 DEF Stray, StraysOf
    <3> QED BY <1>2, <2>2, <3>1 DEF Posts
  <2> QED BY <2>1, <2>2
<1>3. CASE UNCHANGED strays /\ \E dedup : Commit(batch, dedup)
  <2>1. rows'[e] \in {rows[e], rows[e] + 1} /\ (e \notin batch => rows'[e] = rows[e])
    BY <1>3, CommitPosts DEF TypeOK
  <2>2. StraysOf(e)' = StraysOf(e)
    BY <1>3 DEF StraysOf
  <2> QED BY <1>0, <2>1, <2>2 DEF Posts
<1> QED BY <1>1, <1>2, <1>3

\* A request that lands or is lost makes no more posts.
LEMMA StrayLandsPosts ==
    ASSUME TypeOK, PostInv, NEW s \in strays, StrayLands(s), NEW e \in Event
    PROVE  Posts(e)' <= Posts(e)
<1>0. /\ IsFiniteSet(StraysOf(e)) /\ Cardinality(StraysOf(e)) \in Nat /\ rows[e] \in Nat
  BY PostsNat DEF PostInv, TypeOK
<1>1. /\ rows'[e] \in {rows[e], rows[e] + 1}
      /\ e \notin s.batch => rows'[e] = rows[e]
  BY CommitPosts DEF StrayLands, TypeOK
<1>2. StraysOf(e)' = StraysOf(e) \ {s}
  BY DEF StrayLands, StraysOf
<1>3. CASE e \in s.batch
  <2>1. s \in StraysOf(e)
    BY <1>3 DEF StraysOf
  <2>2. Cardinality(StraysOf(e)') = Cardinality(StraysOf(e)) - 1
    BY <1>0, <1>2, <2>1, FS_RemoveElement
  <2> QED BY <1>0, <1>1, <2>2 DEF Posts
<1>4. CASE e \notin s.batch
  <2>1. StraysOf(e)' = StraysOf(e)
    BY <1>2, <1>4 DEF StraysOf
  <2> QED BY <1>0, <1>1, <1>4, <2>1 DEF Posts
<1> QED BY <1>3, <1>4

LEMMA TickPosts ==
    ASSUME TypeOK, PostInv, Tick, NEW e \in Event
    PROVE  Posts(e)' <= Posts(e)
<1>. DEFINE kept == {r \in StraysOf(e) : r.left > 0}
<1>0. /\ IsFiniteSet(StraysOf(e)) /\ Cardinality(StraysOf(e)) \in Nat /\ rows[e] \in Nat
  BY PostsNat DEF PostInv, TypeOK
<1>1. IsFiniteSet(kept) /\ Cardinality(kept) <= Cardinality(StraysOf(e))
  BY <1>0, FS_Subset
<1>2. StraysOf(e)' = {Older(s) : s \in kept}
  <2>1. strays' = {Older(s) : s \in {r \in strays : r.left > 0}}
    BY DEF Tick, Older
  <2>2. \A r \in strays : Older(r).batch = r.batch
    BY DEF TypeOK, Older
  <2> QED BY <2>1, <2>2 DEF StraysOf
<1>3. IsFiniteSet(StraysOf(e)') /\ Cardinality(StraysOf(e)') <= Cardinality(kept)
  BY <1>1, <1>2, OlderStrays
<1>4. Cardinality(kept) \in Nat /\ Cardinality(StraysOf(e)') \in Nat
  BY <1>1, <1>3, FS_CardinalityType
<1>5. rows' = rows
  BY DEF Tick
<1> QED BY <1>0, <1>1, <1>3, <1>4, <1>5 DEF Posts

LEMMA InitRows == Init /\ TypeOK => RowsInv
<1>. SUFFICES ASSUME Init, TypeOK PROVE RowsInv
  OBVIOUS
<1>1. \A e \in Event : Posts(e) = 0
  BY FreshPosts DEF Init, Fresh
<1> QED BY <1>1, RoomNat DEF Init, RowsInv

\* There are no more posts, and the delivery goes on as before.
LEMMA FewerRows ==
    ASSUME TypeOK, TypeOK', PostInv, PostInv', RowsInv,
           \A e \in Event : Posts(e)' <= Posts(e),
           UNCHANGED <<pc, batch, left, wait, backoff, final>>
    PROVE  RowsInv'
<1>1. \A e \in Event : Posts(e) \in Nat /\ Posts(e)' \in Nat
  BY PostsNat, PostsNatAfter DEF PostInv
<1>2. \A e \in Event : /\ Backoffs(Posts(e)') <= Backoffs(Posts(e))
                       /\ Backoffs(Posts(e)' + 1) <= Backoffs(Posts(e) + 1)
                       /\ Backoffs(Posts(e)') \in Nat /\ Backoffs(Posts(e)' + 1) \in Nat
                       /\ Backoffs(Posts(e)) \in Nat /\ Backoffs(Posts(e) + 1) \in Nat
  <2>. SUFFICES ASSUME NEW e \in Event
                PROVE  /\ Backoffs(Posts(e)') <= Backoffs(Posts(e))
                       /\ Backoffs(Posts(e)' + 1) <= Backoffs(Posts(e) + 1)
                       /\ Backoffs(Posts(e)') \in Nat /\ Backoffs(Posts(e)' + 1) \in Nat
                       /\ Backoffs(Posts(e)) \in Nat /\ Backoffs(Posts(e) + 1) \in Nat
    OBVIOUS
  <2>1. Posts(e) \in Nat /\ Posts(e)' \in Nat /\ Posts(e)' <= Posts(e)
    BY <1>1
  <2>2. Posts(e) + 1 \in Nat /\ Posts(e)' + 1 \in Nat /\ Posts(e)' + 1 <= Posts(e) + 1
    BY <2>1
  <2> QED BY <2>1, <2>2, BackoffsOrder, BackoffsStep
<1>3. Room \in Nat /\ MaxBackoff \in Nat /\ left \in Nat
  BY RoomNat, UsageAssumption DEF UsageAssumption, TypeOK
<1>4. \A e \in Event : Backoffs(Posts(e)') <= Room
  BY <1>2, <1>3 DEF RowsInv
<1>5. \A e \in batch : e \in Event
  BY DEF TypeOK
<1>6. pc \in {"sending", "backoff"} =>
        backoff \in 1 .. MaxBackoff /\ \A e \in batch : Backoffs(Posts(e)' + 1) <= Room
  BY <1>2, <1>3, <1>5 DEF RowsInv
<1>7. backoff \in 1 .. MaxBackoff => Backoffs(MaxBackoff - backoff) \in Nat
  BY <1>3, BackoffsStep
<1>8. pc = "sending" /\ ~final /\ left > 0 =>
        \A e \in batch :
           Backoffs(Posts(e)' + 1) + left + Backoffs(MaxBackoff - backoff) <= Room - MaxBackoff
  BY <1>2, <1>3, <1>5, <1>7 DEF RowsInv, Due
<1>9. pc = "backoff" =>
        \A e \in batch :
           \/ wait = left
           \/ Backoffs(Posts(e)') + left + Backoffs(MaxBackoff - backoff) + (backoff - wait)
                <= Room - MaxBackoff
  <2>. SUFFICES ASSUME pc = "backoff", NEW e \in batch, wait # left
                PROVE  Backoffs(Posts(e)') + left + Backoffs(MaxBackoff - backoff)
                         + (backoff - wait) <= Room - MaxBackoff
    OBVIOUS
  <2>1. backoff \in Nat /\ wait \in Nat
    BY DEF RowsInv, TypeOK
  <2> QED BY <1>2, <1>3, <1>5, <1>7, <2>1 DEF RowsInv, Due
<1> QED BY <1>4, <1>6, <1>8, <1>9 DEF RowsInv, Due, Backoffs

\* An attempt ends, and there is at most one post more for each record of its
\* batch: it was paid for.
LEMMA AttemptWithin ==
    ASSUME TypeOK, TypeOK', PostInv, PostInv', RowsInv, pc = "sending",
           \A e \in Event : /\ e \in batch => Posts(e)' <= Posts(e) + 1
                            /\ e \notin batch => Posts(e)' = Posts(e)
    PROVE  /\ \A e \in Event : Backoffs(Posts(e)') <= Room
           /\ \A e \in batch : /\ Posts(e) \in Nat /\ Posts(e)' \in Nat
                               /\ Backoffs(Posts(e)') <= Backoffs(Posts(e) + 1)
                               /\ Backoffs(Posts(e)') \in Nat /\ Backoffs(Posts(e) + 1) \in Nat
<1>1. \A e \in Event : Posts(e) \in Nat /\ Posts(e)' \in Nat
  BY PostsNat, PostsNatAfter DEF PostInv
<1>2. \A e \in batch : e \in Event
  BY DEF TypeOK
<1>3. ASSUME NEW e \in batch
      PROVE  /\ Posts(e) \in Nat /\ Posts(e)' \in Nat
             /\ Backoffs(Posts(e)') <= Backoffs(Posts(e) + 1)
             /\ Backoffs(Posts(e)') \in Nat /\ Backoffs(Posts(e) + 1) \in Nat
  <2>1. Posts(e) \in Nat /\ Posts(e)' \in Nat /\ Posts(e)' <= Posts(e) + 1
    BY <1>1, <1>2
  <2>2. Posts(e) + 1 \in Nat
    BY <2>1
  <2> QED BY <2>1, <2>2, BackoffsOrder, BackoffsStep
<1>4. \A e \in batch : Backoffs(Posts(e) + 1) <= Room
  BY DEF RowsInv
<1>5. ASSUME NEW e \in Event PROVE Backoffs(Posts(e)') <= Room
  <2>1. CASE e \in batch
    BY <1>3, <1>4, <2>1, RoomNat
  <2>2. CASE e \notin batch
    BY <2>2 DEF RowsInv
  <2> QED BY <2>1, <2>2
<1> QED BY <1>3, <1>5

\* A batch that is given up or delivered has no post to come.
LEMMA IdleRows ==
    ASSUME \A e \in Event : Backoffs(Posts(e)') <= Room, pc' \notin {"sending", "backoff"}
    PROVE  RowsInv'
BY DEF RowsInv, Backoffs, Room

\* A failed attempt leads to a wait only before the last, and while there is
\* time: the wait is the backoff, or all the time that is left.
LEMMA BackoffRows ==
    ASSUME TypeOK, TypeOK', PostInv, PostInv', RowsInv, pc = "sending",
           \A e \in Event : /\ e \in batch => Posts(e)' <= Posts(e) + 1
                            /\ e \notin batch => Posts(e)' = Posts(e),
           pc' = "backoff", ~final, left # 0, wait' = Least(backoff, left),
           UNCHANGED <<batch, left, backoff, final>>
    PROVE  RowsInv'
<1>1. /\ \A e \in Event : Backoffs(Posts(e)') <= Room
      /\ \A e \in batch : /\ Posts(e) \in Nat /\ Posts(e)' \in Nat
                          /\ Backoffs(Posts(e)') <= Backoffs(Posts(e) + 1)
                          /\ Backoffs(Posts(e)') \in Nat /\ Backoffs(Posts(e) + 1) \in Nat
  BY AttemptWithin
<1>2. left \in Nat /\ left > 0 /\ backoff \in 1 .. MaxBackoff
  BY UsageAssumption DEF UsageAssumption, TypeOK, RowsInv
<1>3. Room \in Nat /\ MaxBackoff \in Nat
  BY RoomNat, UsageAssumption DEF UsageAssumption
<1>4. Backoffs(MaxBackoff - backoff) \in Nat
  BY <1>2, <1>3, BackoffsStep
<1>5. \A e \in batch :
         Backoffs(Posts(e) + 1) + left + Backoffs(MaxBackoff - backoff) <= Room - MaxBackoff
  BY <1>2 DEF RowsInv, Due
<1>6. \A e \in batch :
         Backoffs(Posts(e)') + left + Backoffs(MaxBackoff - backoff) <= Room - MaxBackoff
  BY <1>1, <1>2, <1>3, <1>4, <1>5
<1>7. \A e \in batch : Backoffs(Posts(e)' + 1) <= Room
  <2>. SUFFICES ASSUME NEW e \in batch PROVE Backoffs(Posts(e)' + 1) <= Room
    OBVIOUS
  <2>1. Backoffs(Posts(e)' + 1) = Backoffs(Posts(e)') + MaxBackoff
    BY <1>1, BackoffsStep
  <2> QED BY <1>1, <1>2, <1>3, <1>4, <1>6, <2>1
<1>8. wait' = left \/ wait' = backoff
  BY DEF Least
<1>9. \A e \in batch :
         \/ wait' = left
         \/ Backoffs(Posts(e)') + left + Backoffs(MaxBackoff - backoff) + (backoff - wait')
              <= Room - MaxBackoff
  BY <1>1, <1>2, <1>3, <1>4, <1>6, <1>8
<1> QED BY <1>1, <1>2, <1>7, <1>9 DEF RowsInv, Due, Backoffs, Room

LEMMA FailureRows ==
    ASSUME TypeOK, TypeOK', PostInv, PostInv', RowsInv, pc = "sending",
           NEW answered, NEW may, Failure(answered, may),
           \A e \in Event : /\ e \in batch => Posts(e)' <= Posts(e) + 1
                            /\ e \notin batch => Posts(e)' = Posts(e)
    PROVE  RowsInv'
<1>1. CASE Return(resume)
  <2>1. pc' \notin {"sending", "backoff"}
    BY <1>1 DEF Return, TypeOK
  <2> QED BY <2>1, AttemptWithin, IdleRows
<1>2. CASE ~Return(resume)
  <2>1. /\ pc' = "backoff" /\ ~final /\ left # 0 /\ wait' = Least(backoff, left)
        /\ UNCHANGED <<batch, left, backoff, final>>
    BY <1>2 DEF Failure
  <2> QED BY <2>1, BackoffRows
<1> QED BY <1>1, <1>2

\* The first post of a batch.
LEMMA DeliverRows ==
    ASSUME TypeOK, TypeOK', PostInv, PostInv', AccountInv, RowsInv,
           NEW b \in SUBSET Event, NEW to \in Resume, NEW last,
           Deliver(b, to, last), b \subseteq buffer \union queue,
           UNCHANGED <<rows, strays>>
    PROVE  RowsInv'
<1>0. \A e \in Event : Posts(e)' = Posts(e)
  BY DEF Posts, StraysOf
<1>1. \A e \in Event : Backoffs(Posts(e)') <= Room
  BY <1>0 DEF RowsInv
<1>. PICK n \in 0 .. RetryBudget :
         IF n = 0
         THEN Return(to)
         ELSE pc' = "sending" /\ batch' = b /\ left' = n /\ backoff' = InitialBackoff
  BY DEF Deliver, Attempt
<1>2. CASE n = 0
  <2>1. pc' \notin {"sending", "backoff"}
    BY <1>2 DEF Return, Resume
  <2> QED BY <1>1, <2>1, IdleRows
<1>3. CASE n # 0
  <2>1. pc' = "sending" /\ batch' = b /\ left' = n /\ backoff' = InitialBackoff
    BY <1>3
  <2>2. \A e \in b : Fresh(e)
    BY DEF PostInv, AccountInv, AccountOf, Held
  <2>3. \A e \in b : Posts(e)' = 0
    BY <1>0, <2>2, FreshPosts
  <2>4. InitialBackoff \in 1 .. MaxBackoff /\ MaxBackoff \in Nat /\ RetryBudget \in Nat
    BY UsageAssumption DEF UsageAssumption
  <2>5. Backoffs(MaxBackoff - InitialBackoff) \in Nat
    BY <2>4, BackoffsStep
  <2>6. \A e \in b : Backoffs(Posts(e)' + 1) <= Room
    BY <2>3, RoomNat
  <2>7. \A e \in b : Backoffs(Posts(e)' + 1) + n + Backoffs(MaxBackoff - InitialBackoff)
                       <= Room - MaxBackoff
    <3>1. Backoffs(1) + n + Backoffs(MaxBackoff - InitialBackoff) <= Room - MaxBackoff
      BY <2>4, <2>5, RoomNat
    <3> QED BY <2>3, <3>1
  <2> QED BY <1>1, <2>1, <2>4, <2>6, <2>7 DEF RowsInv, Due, Backoffs, Room
<1> QED BY <1>2, <1>3

\* The batch is posted again: the wait, or its cut, has paid for that.
LEMMA ResendRows ==
    ASSUME TypeOK, PostInv, RowsInv, Resend
    PROVE  RowsInv'
<1>0. \A e \in Event : Posts(e)' = Posts(e)
  BY DEF Resend, Posts, StraysOf
<1>1. /\ pc = "backoff" /\ pc' = "sending" /\ UNCHANGED <<batch, left>>
      /\ backoff' = Least(2 * backoff, MaxBackoff)
      /\ wait = 0 \/ final' = TRUE
  BY DEF Resend, Attempt, PostInv, TypeOK
<1>2. /\ \A e \in Event : Backoffs(Posts(e)') <= Room
      /\ \A e \in batch : Backoffs(Posts(e)' + 1) <= Room /\ e \in Event
  BY <1>0, <1>1 DEF RowsInv, TypeOK
<1>3. backoff \in 1 .. MaxBackoff /\ left \in Nat /\ Room \in Nat /\ MaxBackoff \in Nat
  BY <1>1, RoomNat, UsageAssumption DEF UsageAssumption, RowsInv, TypeOK
<1>4. /\ backoff' \in 1 .. MaxBackoff
      /\ Backoffs(MaxBackoff - backoff') + MaxBackoff
           <= Backoffs(MaxBackoff - backoff) + backoff
  BY <1>1, <1>3, RampPays
<1>5. Backoffs(MaxBackoff - backoff') \in Nat /\ Backoffs(MaxBackoff - backoff) \in Nat
  BY <1>3, <1>4, BackoffsStep
<1>6. ASSUME ~final', left > 0, NEW e \in batch
      PROVE  Backoffs(Posts(e)' + 1) + left + Backoffs(MaxBackoff - backoff') <= Room - MaxBackoff
  <2>1. wait = 0
    BY <1>1, <1>6
  <2>2. Backoffs(Posts(e)) + left + Backoffs(MaxBackoff - backoff) + backoff <= Room - MaxBackoff
    BY <1>1, <1>3, <1>5, <1>6, <2>1 DEF RowsInv, Due
  <2>3. Posts(e) \in Nat /\ Posts(e)' = Posts(e)
    BY <1>0, <1>2, PostsNat DEF PostInv
  <2>4. Backoffs(Posts(e) + 1) = Backoffs(Posts(e)) + MaxBackoff /\ Backoffs(Posts(e)) \in Nat
    BY <2>3, BackoffsStep
  <2>5. Backoffs(Posts(e) + 1) + left + Backoffs(MaxBackoff - backoff') <= Room - MaxBackoff
    BY <1>3, <1>4, <1>5, <2>2, <2>4
  <2> QED BY <2>3, <2>5
<1> QED BY <1>1, <1>2, <1>4, <1>6 DEF RowsInv, Due, Backoffs, Room

\* Time passes, and what it takes from the budget it takes from the wait.
LEMMA TickRows ==
    ASSUME TypeOK, TypeOK', PostInv, PostInv', AgeInv, RowsInv, Tick
    PROVE  RowsInv'
<1>0. \A e \in Event : /\ Posts(e) \in Nat /\ Posts(e)' \in Nat /\ Posts(e)' <= Posts(e)
                       /\ Posts(e) + 1 \in Nat /\ Posts(e)' + 1 \in Nat
                       /\ Posts(e)' + 1 <= Posts(e) + 1
  BY TickPosts, PostsNat, PostsNatAfter DEF PostInv
<1>1. \A e \in Event : /\ Backoffs(Posts(e)') <= Backoffs(Posts(e))
                       /\ Backoffs(Posts(e)' + 1) <= Backoffs(Posts(e) + 1)
                       /\ Backoffs(Posts(e)') \in Nat /\ Backoffs(Posts(e)' + 1) \in Nat
                       /\ Backoffs(Posts(e)) \in Nat /\ Backoffs(Posts(e) + 1) \in Nat
  BY <1>0, BackoffsOrder, BackoffsStep
<1>2. /\ UNCHANGED <<pc, batch, backoff, final>>
      /\ left' = Before(left) /\ wait' = Before(wait)
      /\ pc = "backoff" => wait > 0
  BY DEF Tick
<1>3. Room \in Nat /\ MaxBackoff \in Nat /\ left \in Nat /\ wait \in Nat
  BY RoomNat, UsageAssumption DEF UsageAssumption, TypeOK
<1>4. left' \in Nat /\ left' <= left
  BY <1>2, <1>3 DEF Before
<1>5. \A e \in batch : e \in Event
  BY DEF TypeOK
<1>6. \A e \in Event : Backoffs(Posts(e)') <= Room
  BY <1>1, <1>3 DEF RowsInv
<1>7. pc \in {"sending", "backoff"} =>
        backoff \in 1 .. MaxBackoff /\ \A e \in batch : Backoffs(Posts(e)' + 1) <= Room
  BY <1>1, <1>3, <1>5 DEF RowsInv
<1>8. backoff \in 1 .. MaxBackoff => Backoffs(MaxBackoff - backoff) \in Nat
  BY <1>3, BackoffsStep
<1>9. pc = "sending" /\ ~final /\ left' > 0 =>
        \A e \in batch :
           Backoffs(Posts(e)' + 1) + left' + Backoffs(MaxBackoff - backoff) <= Room - MaxBackoff
  <2>. SUFFICES ASSUME pc = "sending", ~final, left' > 0, NEW e \in batch
                PROVE  Backoffs(Posts(e)' + 1) + left' + Backoffs(MaxBackoff - backoff)
                         <= Room - MaxBackoff
    OBVIOUS
  <2>1. Backoffs(Posts(e) + 1) + left + Backoffs(MaxBackoff - backoff) <= Room - MaxBackoff
    BY <1>3, <1>4 DEF RowsInv, Due
  <2>2. Backoffs(Posts(e)' + 1) <= Backoffs(Posts(e) + 1)
    BY <1>1, <1>5
  <2> QED BY <1>1, <1>3, <1>4, <1>5, <1>7, <1>8, <2>1, <2>2
<1>10. pc = "backoff" =>
        \A e \in batch :
           \/ wait' = left'
           \/ Backoffs(Posts(e)') + left' + Backoffs(MaxBackoff - backoff) + (backoff - wait')
                <= Room - MaxBackoff
  <2>. SUFFICES ASSUME pc = "backoff", NEW e \in batch, wait' # left'
                PROVE  Backoffs(Posts(e)') + left' + Backoffs(MaxBackoff - backoff)
                         + (backoff - wait') <= Room - MaxBackoff
    OBVIOUS
  <2>1. wait > 0 /\ wait <= left
    BY <1>2 DEF AgeInv
  <2>2. wait' = wait - 1 /\ left' = left - 1
    BY <1>2, <1>3, <2>1 DEF Before
  <2>3. Backoffs(Posts(e)) + left + Backoffs(MaxBackoff - backoff) + (backoff - wait)
          <= Room - MaxBackoff
    BY <1>3, <2>2 DEF RowsInv, Due
  <2>4. backoff \in Nat
    BY <1>3, <1>7
  <2>5. Backoffs(Posts(e)') <= Backoffs(Posts(e)) /\ Backoffs(Posts(e)') \in Nat
        /\ Backoffs(Posts(e)) \in Nat
    BY <1>1, <1>5
  <2> QED BY <1>3, <1>7, <1>8, <2>2, <2>3, <2>4, <2>5
<1> QED BY <1>2, <1>6, <1>7, <1>9, <1>10 DEF RowsInv, Due, Backoffs, Room

LEMMA NextRows ==
    ASSUME TypeOK, TypeOK', StageInv, AccountInv, AgeInv, PostInv, PostInv', RowsInv,
           [Next]_vars
    PROVE  RowsInv'
<1>1. CASE \/ \E e \in Event : Emit(e)
           \/ Shutdown \/ HandlersGone \/ Rollout \/ UNCHANGED vars
  <2>1. UNCHANGED <<rows, strays, pc, batch, left, wait, backoff, final>>
    BY <1>1 DEF Emit, Shutdown, HandlersGone, Rollout, vars
  <2>2. \A e \in Event : Posts(e)' = Posts(e) /\ Posts(e) \in Nat
    BY <2>1, PostsNat DEF Posts, StraysOf, PostInv
  <2> QED BY <2>1, <2>2, FewerRows
<1>2. ASSUME NEW s \in strays, StrayLands(s) PROVE RowsInv'
  <2>1. UNCHANGED <<pc, batch, left, wait, backoff, final>>
    BY <1>2 DEF StrayLands
  <2> QED BY <1>2, <2>1, StrayLandsPosts, FewerRows
<1>3. CASE CancelChanged \/ Exit
  <2>1. /\ UNCHANGED <<rows, strays>>
        /\ pc' \notin {"sending", "backoff"}
    BY <1>3 DEF CancelChanged, Exit, Return
  <2> QED BY <2>1, IdleRows DEF RowsInv, Posts, StraysOf
<1>4. CASE Delivered
  <2>1. pc = "sending" /\ pc' \notin {"sending", "backoff"}
    BY <1>4 DEF Delivered, Return, TypeOK
  <2>2. \A e \in Event : /\ e \in batch => Posts(e)' <= Posts(e) + 1
                         /\ e \notin batch => Posts(e)' = Posts(e)
    BY <1>4, AttemptPosts DEF Delivered
  <2> QED BY <2>1, <2>2, AttemptWithin, IdleRows
<1>5. CASE Refused \/ AnsweredOnTheWay \/ Unanswered
  <2>1. pc = "sending" /\ \E answered, may : Failure(answered, may)
    BY <1>5 DEF Refused, AnsweredOnTheWay, Unanswered
  <2>2. \/ UNCHANGED rows /\ (UNCHANGED strays \/ Stray)
        \/ UNCHANGED strays /\ \E dedup : Commit(batch, dedup)
    BY <1>5 DEF Refused, AnsweredOnTheWay, Unanswered
  <2>3. \A e \in Event : /\ e \in batch => Posts(e)' <= Posts(e) + 1
                         /\ e \notin batch => Posts(e)' = Posts(e)
    BY <2>2, AttemptPosts
  <2> QED BY <2>1, <2>3, FailureRows
<1>6. CASE Receive
  <2>1. PICK e \in queue :
           IF Cardinality(buffer) + 1 >= MaxBatch
           THEN Deliver(buffer \union {e}, "select", FALSE)
           ELSE Return("select")
    BY <1>6 DEF Receive
  <2>2. UNCHANGED <<rows, strays>>
    BY <1>6 DEF Receive
  <2>3. CASE Deliver(buffer \union {e}, "select", FALSE)
    <3>1. /\ buffer \union {e} \in SUBSET Event /\ "select" \in Resume
          /\ buffer \union {e} \subseteq buffer \union queue
      BY DEF TypeOK, Resume
    <3> QED BY <2>2, <2>3, <3>1, DeliverRows
  <2>4. CASE Return("select")
    BY <2>2, <2>4, IdleRows DEF Return, RowsInv, Posts, StraysOf
  <2> QED BY <2>1, <2>3, <2>4
<1>7. CASE ReceiveNone
  <2>1. UNCHANGED <<rows, strays>>
    BY <1>7 DEF ReceiveNone
  <2>2. CASE buffer = {}
    BY <1>7, <2>1, <2>2, IdleRows DEF ReceiveNone, RowsInv, Posts, StraysOf
  <2>3. CASE buffer # {}
    BY <1>7, <2>1, <2>3, DeliverRows DEF ReceiveNone, Resume, TypeOK
  <2> QED BY <2>2, <2>3
<1>8. CASE FlushTick
  BY <1>8, FilledType, DeliverRows DEF FlushTick, Resume
<1>9. CASE Drain
  <2>1. PICK b \in Filled :
           IF b = {} THEN pc' = "exiting" ELSE Deliver(b, "draining", TRUE)
    BY <1>9 DEF Drain
  <2>2. UNCHANGED <<rows, strays>>
    BY <1>9 DEF Drain
  <2>3. CASE b = {}
    BY <2>1, <2>2, <2>3, IdleRows DEF RowsInv, Posts, StraysOf
  <2>4. CASE b # {}
    BY <2>1, <2>2, <2>4, FilledType, DeliverRows DEF Resume
  <2> QED BY <2>3, <2>4
<1>10. CASE Resend
  BY <1>10, ResendRows
<1>11. CASE Tick
  BY <1>11, TickRows
<1> QED BY <1>1, <1>2, <1>3, <1>4, <1>5, <1>6, <1>7, <1>8, <1>9, <1>10, <1>11
        DEF Next, WorkerStep, AttemptEnds

\* What there is room for, counted.
LEMMA RoomForAttempts ==
    ASSUME NEW n \in Nat, Backoffs(n) <= Room
    PROVE  n <= MostAttempts
<1>. DEFINE ramp == MaxBackoff - InitialBackoff
            q == RetryBudget \div MaxBackoff
<1>1. MaxBackoff \in Nat /\ MaxBackoff > 0 /\ ramp \in Nat /\ RetryBudget \in Nat
  BY UsageAssumption DEF UsageAssumption
<1>2. q \in Nat /\ RetryBudget < (q + 1) * MaxBackoff
  BY <1>1
<1>. HIDE DEF q
<1>3. Backoffs(2 + ramp) + (q + 1) * MaxBackoff = Backoffs(2 + ramp + q + 1)
  BY <1>1, <1>2 DEF Backoffs
<1>4. Room < Backoffs(2 + ramp + q + 1)
  <2>1. Backoffs(2 + ramp) \in Nat /\ Backoffs(2 + ramp + q + 1) \in Nat
    BY <1>1, <1>2, BackoffsStep
  <2>2. Room = Backoffs(2 + ramp) + RetryBudget /\ (q + 1) * MaxBackoff \in Nat
    BY <1>1, <1>2 DEF Room
  <2> QED BY <1>1, <1>2, <1>3, <2>1, <2>2
<1>5. ASSUME n > 2 + ramp + q PROVE FALSE
  <2>1. 2 + ramp + q + 1 \in Nat /\ 2 + ramp + q + 1 <= n
    BY <1>1, <1>2, <1>5
  <2>2. Backoffs(2 + ramp + q + 1) <= Backoffs(n)
    BY <2>1, BackoffsOrder
  <2>3. Backoffs(n) \in Nat /\ Backoffs(2 + ramp + q + 1) \in Nat
    BY <2>1, BackoffsStep
  <2> QED BY <1>4, <2>2, <2>3, RoomNat
<1>6. n <= 2 + ramp + q
  BY <1>1, <1>2, <1>5
<1> QED BY <1>6 DEF MostAttempts, q

LEMMA RowsInvariant ==
    Spec => [](TypeOK /\ StageInv /\ AccountInv /\ PostInv /\ RowsInv)
<1>1. Init /\ TypeOK => RowsInv
  BY InitRows
<1>2. TypeOK /\ TypeOK' /\ StageInv /\ AccountInv /\ AgeInv /\ PostInv /\ PostInv' /\ RowsInv
        /\ [Next]_vars => RowsInv'
  BY NextRows
<1> QED BY <1>1, <1>2, PostInvariant, PTL DEF Spec

LEMMA RowsWithin == TypeOK /\ PostInv /\ RowsInv => RowsAreBounded
<1>. SUFFICES ASSUME TypeOK, PostInv, RowsInv, NEW e \in Event
              PROVE  rows[e] <= MostAttempts
  BY DEF RowsAreBounded
<1>1. Posts(e) \in Nat /\ rows[e] <= Posts(e) /\ rows[e] \in Nat
  BY PostsNat DEF PostInv, TypeOK
<1>2. Posts(e) <= MostAttempts
  BY <1>1, RoomForAttempts DEF RowsInv
<1>3. MostAttempts \in Int
  BY UsageAssumption DEF UsageAssumption, MostAttempts
<1> QED BY <1>1, <1>2, <1>3

\* Whatever the pods of the control plane are and whoever replaces them, no
\* record is billed more often than its batch can be posted (deliver): a rolling
\* upgrade may bill a record twice, but not without end.
THEOREM RowsBounded == Spec => []RowsAreBounded
BY RowsInvariant, RowsWithin, PTL

-----------------------------------------------------------------------------
(* The delivery keeps a ledger.                                            *)

\* The records of b meet the fate f, or none does; the records of b are billed.
Met(b, f) == \A e \in Event : FateOf(e)' = IF e \in b THEN f ELSE FateOf(e)

FatesKept == \A e \in Event : FateOf(e)' = FateOf(e)

Billed(b) == \A e \in Event : rows'[e] = rows[e] + IF e \in b THEN 1 ELSE 0

Settles(b) ==
    /\ \A e \in b : FateOf(e) = "held"
    /\ Billed(b) \/ UNCHANGED rows
    /\ (Met(b, "delivered") /\ \A e \in b : rows'[e] > 0) \/ Met(b, "dropped")

BillsOnly(b) ==
    /\ \A e \in b : FateOf(e) \in {"held", "delivered", "dropped"}
    /\ Billed(b) /\ FatesKept

Loses(b) ==
    /\ \A e \in b : FateOf(e) = "held" /\ rows[e] = 0
    /\ Met(b, "lost") /\ UNCHANGED rows

\* A step of the ledger, whatever the number of copies it allows.
LedgerStep ==
    \/ \E e \in Event : /\ FateOf(e) = "none"
                        /\ Met({e}, "held") \/ Met({e}, "dropped")
                        /\ UNCHANGED rows
    \/ \E b \in SUBSET Event : Settles(b) \/ BillsOnly(b) \/ Loses(b)
    \/ FatesKept /\ UNCHANGED rows

\* A record in the worker's hands is held.
LEMMA HeldFate ==
    ASSUME TypeOK, AccountInv, pc # "stopped", NEW e \in queue \union buffer \union batch
    PROVE  /\ e \in Event /\ e \in emitted /\ e \notin acked /\ dropped[e] = 0
           /\ FateOf(e) = "held"
BY DEF TypeOK, AccountInv, AccountOf, Held, FateOf

LEMMA SameFates ==
    ASSUME UNCHANGED <<emitted, dropped, acked>>, pc = "stopped" <=> pc' = "stopped"
    PROVE  FatesKept
BY DEF FatesKept, FateOf

\* Records that are given up are dropped, and were held.
LEMMA CountedFates ==
    ASSUME TypeOK, AccountInv, pc # "stopped", pc' # "stopped",
           NEW b \in SUBSET (queue \union buffer \union batch), Count(b),
           UNCHANGED <<emitted, acked>>
    PROVE  Met(b, "dropped")
<1>1. \A e \in Event : dropped[e] \in Nat
  BY DEF TypeOK
<1>2. ASSUME NEW e \in Event, e \in b PROVE FateOf(e)' = "dropped"
  <2>1. e \in emitted' /\ dropped'[e] = 1
    BY <1>2, HeldFate DEF Count
  <2> QED BY <2>1 DEF FateOf
<1>3. ASSUME NEW e \in Event, e \notin b PROVE FateOf(e)' = FateOf(e)
  <2>1. dropped'[e] = dropped[e]
    BY <1>1, <1>3 DEF Count
  <2> QED BY <2>1 DEF FateOf
<1> QED BY <1>2, <1>3 DEF Met

LEMMA DeliverLedger ==
    ASSUME TypeOK, AccountInv, NEW b, NEW to \in Resume, NEW last,
           Deliver(b, to, last), pc \in {"select", "draining"},
           b \subseteq buffer \union queue, UNCHANGED <<rows, emitted, acked>>
    PROVE  LedgerStep
<1>1. b \in SUBSET (queue \union buffer \union batch) /\ b \in SUBSET Event
  BY DEF TypeOK
<1>2. CASE Count(b) /\ Return(to)
  <2>1. pc' # "stopped"
    BY <1>2 DEF Return, Resume
  <2>2. Met(b, "dropped") /\ \A e \in b : FateOf(e) = "held"
    BY <1>1, <1>2, <2>1, CountedFates, HeldFate
  <2> QED BY <1>1, <2>2 DEF LedgerStep, Settles
<1>3. CASE pc' = "sending" /\ UNCHANGED dropped
  BY <1>3, SameFates DEF LedgerStep
<1> QED BY <1>2, <1>3, DeliverShape

\* An attempt fails, after the batch was carried out or before.
LEMMA FailureLedger ==
    ASSUME TypeOK, PostInv, AccountInv, pc = "sending", NEW answered, NEW may,
           Failure(answered, may), UNCHANGED emitted,
           UNCHANGED rows \/ \E dedup : Commit(batch, dedup)
    PROVE  LedgerStep
<1>1. batch \in SUBSET (queue \union buffer \union batch) /\ batch \in SUBSET Event
  BY DEF TypeOK
<1>2. UNCHANGED rows \/ Billed(batch)
  BY <1>1, CommitPosts DEF Billed
<1>3. \A e \in batch : FateOf(e) = "held"
  BY <1>1, HeldFate
<1>4. UNCHANGED acked
  BY FailureShape
<1>5. CASE Count(batch) /\ Return(resume)
  <2>1. pc' # "stopped"
    BY <1>5 DEF Return, TypeOK
  <2>2. Met(batch, "dropped")
    BY <1>1, <1>4, <1>5, <2>1, CountedFates
  <2> QED BY <1>1, <1>2, <1>3, <2>2 DEF LedgerStep, Settles
<1>6. CASE pc' = "backoff" /\ UNCHANGED dropped
  <2>1. FatesKept
    BY <1>4, <1>6, SameFates
  <2> QED BY <1>1, <1>2, <1>3, <2>1 DEF LedgerStep, BillsOnly
<1> QED BY <1>5, <1>6, FailureShape

LEMMA DeliveredLedger ==
    TypeOK /\ PostInv /\ AccountInv /\ Delivered => LedgerStep
<1>. SUFFICES ASSUME TypeOK, PostInv, AccountInv, Delivered PROVE LedgerStep
  OBVIOUS
<1>1. /\ pc = "sending" /\ pc' # "stopped" /\ UNCHANGED <<emitted, dropped>>
      /\ acked' = acked \union batch /\ \E dedup : Commit(batch, dedup)
  BY DEF Delivered, Return, TypeOK
<1>2. batch \in SUBSET Event
  BY DEF TypeOK
<1>3. (UNCHANGED rows \/ Billed(batch)) /\ \A e \in batch : rows'[e] > 0
  BY <1>1, <1>2, CommitPosts DEF Billed
<1>4. \A e \in batch : e \in emitted /\ dropped[e] = 0 /\ FateOf(e) = "held"
  BY <1>1, HeldFate
<1>5. Met(batch, "delivered")
  <2>1. ASSUME NEW e \in Event, e \in batch PROVE FateOf(e)' = "delivered"
    BY <1>1, <1>4, <2>1 DEF FateOf
  <2>2. ASSUME NEW e \in Event, e \notin batch PROVE FateOf(e)' = FateOf(e)
    BY <1>1, <2>2 DEF FateOf
  <2> QED BY <2>1, <2>2 DEF Met
<1> QED BY <1>2, <1>3, <1>4, <1>5 DEF LedgerStep, Settles

\* A late request bills records that were posted: they are not lost, and not
\* waiting to be emitted.
LEMMA StrayLandsLedger ==
    ASSUME TypeOK, StageInv, PostInv, AccountInv, NEW s \in strays, StrayLands(s)
    PROVE  LedgerStep
<1>1. s.batch \in SUBSET Event
  BY DEF TypeOK
<1>2. UNCHANGED rows \/ Billed(s.batch)
  BY <1>1, CommitPosts DEF StrayLands, Billed
<1>3. \A e \in s.batch : FateOf(e) \in {"held", "delivered", "dropped"}
  <2>. SUFFICES ASSUME NEW e \in s.batch
                PROVE  FateOf(e) \in {"held", "delivered", "dropped"}
    OBVIOUS
  <2>1. e \in Event /\ ~Fresh(e)
    BY <1>1 DEF Fresh
  <2>2. dropped[e] # 0 \/ e \in batch \union acked
    BY <2>1 DEF PostInv
  <2>3. e \in emitted /\ dropped[e] \in {0, 1}
    BY <2>1, <2>2 DEF AccountInv, AccountOf, Held
  <2>4. e \in batch => FateOf(e) = "held" \/ pc = "stopped"
    BY HeldFate
  <2>5. pc = "stopped" /\ e \in batch => FALSE
    BY DEF StageInv
  <2> QED BY <2>2, <2>3, <2>4, <2>5 DEF FateOf
<1>4. FatesKept
  BY SameFates DEF StrayLands
<1> QED BY <1>1, <1>2, <1>3, <1>4 DEF LedgerStep, BillsOnly

LEMMA EmitLedger ==
    ASSUME TypeOK, AccountInv, NEW e \in Event, Emit(e)
    PROVE  LedgerStep
<1>1. /\ e \notin emitted /\ emitted' = emitted \union {e}
      /\ UNCHANGED <<rows, acked, pc>>
  BY DEF Emit, IsNext
<1>2. dropped[e] = 0 /\ e \notin acked /\ FateOf(e) = "none"
  BY <1>1 DEF AccountInv, AccountOf, Held, FateOf
<1>3. CASE pc # "stopped" /\ UNCHANGED dropped
  <2>1. FateOf(e)' = "held"
    BY <1>1, <1>2, <1>3 DEF FateOf
  <2>2. \A d \in Event : d # e => FateOf(d)' = FateOf(d)
    BY <1>1, <1>3 DEF FateOf
  <2>3. Met({e}, "held")
    BY <2>1, <2>2 DEF Met
  <2> QED BY <1>1, <1>2, <2>3 DEF LedgerStep
<1>4. CASE dropped' = [dropped EXCEPT ![e] = @ + 1]
  <2>1. dropped'[e] = 1
    BY <1>2, <1>4 DEF TypeOK
  <2>2. FateOf(e)' = "dropped"
    BY <1>1, <2>1 DEF FateOf
  <2>3. \A d \in Event : d # e => FateOf(d)' = FateOf(d)
    BY <1>1, <1>4 DEF FateOf, TypeOK
  <2>4. Met({e}, "dropped")
    BY <2>2, <2>3 DEF Met
  <2> QED BY <1>1, <1>2, <2>4 DEF LedgerStep
<1> QED BY <1>3, <1>4 DEF Emit

\* What is in the queue when the worker stops is lost, and was never posted.
LEMMA ExitLedger ==
    ASSUME TypeOK, StageInv, PostInv, AccountInv, Exit
    PROVE  LedgerStep
<1>1. /\ pc = "exiting" /\ pc' = "stopped" /\ UNCHANGED <<rows, emitted, dropped, acked>>
      /\ buffer = {} /\ batch = {}
  BY DEF Exit, StageInv
<1>2. \A e \in queue : /\ e \in Event /\ e \in emitted /\ e \notin acked /\ dropped[e] = 0
                       /\ FateOf(e) = "held"
  BY <1>1, HeldFate
<1>3. \A e \in queue : rows[e] = 0
  BY <1>1, <1>2 DEF PostInv, Fresh
<1>4. Met(queue, "lost")
  <2>1. ASSUME NEW e \in Event, e \in queue PROVE FateOf(e)' = "lost"
    BY <1>1, <1>2, <2>1 DEF FateOf
  <2>2. ASSUME NEW e \in Event, e \notin queue PROVE FateOf(e)' = FateOf(e)
    <3>1. e \notin emitted \/ dropped[e] = 1 \/ e \in acked
      BY <1>1, <2>2 DEF AccountInv, AccountOf, Held
    <3> QED BY <1>1, <3>1 DEF FateOf
  <2> QED BY <2>1, <2>2 DEF Met
<1>5. queue \in SUBSET Event
  BY <1>2
<1> QED BY <1>1, <1>2, <1>3, <1>4, <1>5 DEF LedgerStep, Loses

LEMMA NextLedger ==
    ASSUME TypeOK, StageInv, AccountInv, PostInv, [Next]_vars
    PROVE  LedgerStep
<1>1. CASE Shutdown \/ HandlersGone \/ Rollout \/ Tick \/ CancelChanged \/ Resend \/ UNCHANGED vars
  <2>1. UNCHANGED <<rows, emitted, dropped, acked>> /\ (pc = "stopped" <=> pc' = "stopped")
    BY <1>1 DEF Shutdown, HandlersGone, Rollout, Tick, CancelChanged, Return, Resend, Attempt, vars
  <2> QED BY <2>1, SameFates DEF LedgerStep
<1>2. CASE Refused \/ AnsweredOnTheWay \/ Unanswered
  <2>1. pc = "sending" /\ UNCHANGED emitted /\ \E answered, may : Failure(answered, may)
    BY <1>2 DEF Refused, AnsweredOnTheWay, Unanswered
  <2>2. UNCHANGED rows \/ \E dedup : Commit(batch, dedup)
    BY <1>2 DEF Refused, AnsweredOnTheWay, Unanswered
  <2> QED BY <2>1, <2>2, FailureLedger
<1>3. CASE Receive
  <2>1. PICK e \in queue :
           IF Cardinality(buffer) + 1 >= MaxBatch
           THEN Deliver(buffer \union {e}, "select", FALSE)
           ELSE Return("select") /\ UNCHANGED <<batchVars, dropped>>
    BY <1>3 DEF Receive
  <2>2. pc = "select" /\ UNCHANGED <<rows, emitted, acked>>
    BY <1>3 DEF Receive
  <2>3. CASE Deliver(buffer \union {e}, "select", FALSE)
    <3>1. "select" \in Resume /\ buffer \union {e} \subseteq buffer \union queue
      BY DEF Resume
    <3> QED BY <2>2, <2>3, <3>1, DeliverLedger
  <2>4. CASE Return("select") /\ UNCHANGED dropped
    <3>1. pc' # "stopped"
      BY <2>4 DEF Return
    <3> QED BY <2>2, <2>4, <3>1, SameFates DEF LedgerStep
  <2> QED BY <2>1, <2>3, <2>4
<1>4. CASE ReceiveNone
  <2>1. pc = "select" /\ UNCHANGED <<rows, emitted, acked>>
    BY <1>4 DEF ReceiveNone
  <2>2. CASE buffer = {}
    <3>1. pc' = "exiting" /\ UNCHANGED dropped
      BY <1>4, <2>2 DEF ReceiveNone
    <3> QED BY <2>1, <3>1, SameFates DEF LedgerStep
  <2>3. CASE buffer # {}
    BY <1>4, <2>1, <2>3, DeliverLedger DEF ReceiveNone, Resume
  <2> QED BY <2>2, <2>3
<1>5. CASE FlushTick
  BY <1>5, FilledType, DeliverLedger DEF FlushTick, Resume
<1>6. CASE Drain
  <2>1. PICK b \in Filled :
           IF b = {} THEN pc' = "exiting" /\ UNCHANGED dropped
                     ELSE Deliver(b, "draining", TRUE)
    BY <1>6 DEF Drain
  <2>2. pc = "draining" /\ UNCHANGED <<rows, emitted, acked>>
    BY <1>6 DEF Drain
  <2>3. CASE b = {}
    <3>1. pc' = "exiting" /\ UNCHANGED dropped
      BY <2>1, <2>3
    <3> QED BY <2>2, <3>1, SameFates DEF LedgerStep
  <2>4. CASE b # {}
    BY <2>1, <2>2, <2>4, FilledType, DeliverLedger DEF Resume
  <2> QED BY <2>3, <2>4
<1> QED BY <1>1, <1>2, <1>3, <1>4, <1>5, <1>6, EmitLedger, DeliveredLedger,
           StrayLandsLedger, ExitLedger
        DEF Next, WorkerStep, AttemptEnds

\* A step of the ledger as UsageLedger states it.
LEMMA KeptFates == FatesKept => Fates' = Fates
BY DEF Fates, FatesKept

LEMMA MetFates ==
    ASSUME NEW b, NEW f, Met(b, f)
    PROVE  Fates' = [e \in Event |-> IF e \in b THEN f ELSE Fates[e]]
BY DEF Fates, Met

LEMMA BilledRows ==
    ASSUME TypeOK, TypeOK', NEW b \in SUBSET Event, Billed(b)
    PROVE  /\ rows' = [e \in Event |-> rows[e] + IF e \in b THEN 1 ELSE 0]
           /\ \A e \in b : rows'[e] = rows[e] + 1 /\ rows[e] \in Nat
BY DEF TypeOK, Billed

\* A step of the delivery is one of the ledger: it bills a record again only if
\* the pods have misled the worker about it, and within the copies it may have.
LEMMA StepOfLedger ==
    ASSUME TypeOK, TypeOK', LedgerStep, Misled \subseteq Misled',
           BilledAgainIfMisled', RowsAreBounded'
    PROVE  [Ledger!Next]_Ledger!vars
<1>1. ASSUME NEW b \in SUBSET Event, Billed(b),
             \A e \in b : FateOf(e) \in {"held", "delivered", "dropped"}
      PROVE  Ledger!Bill(b)
  <2>0. MostAttempts \in Int
    BY UsageAssumption DEF UsageAssumption, MostAttempts
  <2>1. ASSUME NEW e \in b PROVE rows[e] = 0 \/ (e \in Misled' /\ rows[e] < MostAttempts)
    <3>1. e \in Event /\ rows'[e] = rows[e] + 1 /\ rows[e] \in Nat
      BY <1>1, BilledRows
    <3>2. rows'[e] <= MostAttempts /\ (rows'[e] > 1 => e \in Misled')
      BY <3>1 DEF BilledAgainIfMisled, RowsAreBounded
    <3> QED BY <2>0, <3>1, <3>2
  <2> QED BY <1>1, <2>1, BilledRows DEF Ledger!Bill, Fates
<1>2. ASSUME NEW b, NEW f, Met(b, f) PROVE Ledger!Meet(b, f)
  BY <1>2, MetFates DEF Ledger!Meet
<1>3. ASSUME NEW e \in Event, FateOf(e) = "none",
             Met({e}, "held") \/ Met({e}, "dropped"), UNCHANGED rows
      PROVE  Ledger!Next
  <2>1. Ledger!Emit(e)
    BY <1>2, <1>3 DEF Ledger!Emit, Fates
  <2> QED BY <2>1 DEF Ledger!Next
<1>4. ASSUME NEW b \in SUBSET Event, Settles(b) PROVE Ledger!Next
  <2>1. Ledger!Bill(b) \/ UNCHANGED rows
    BY <1>1, <1>4 DEF Settles
  <2>2. Ledger!Settle(b)
    BY <1>2, <1>4, <2>1 DEF Settles, Ledger!Settle, Fates
  <2> QED BY <2>2 DEF Ledger!Next
<1>5. ASSUME NEW b \in SUBSET Event, BillsOnly(b) PROVE Ledger!Next
  <2>1. Ledger!BillOnly(b)
    BY <1>1, <1>5, KeptFates DEF BillsOnly, Ledger!BillOnly
  <2> QED BY <2>1 DEF Ledger!Next
<1>6. ASSUME NEW b \in SUBSET Event, Loses(b) PROVE Ledger!Next
  <2>1. Ledger!Lose(b)
    BY <1>2, <1>6 DEF Loses, Ledger!Lose, Fates
  <2> QED BY <2>1 DEF Ledger!Next
<1>7. CASE FatesKept /\ UNCHANGED rows
  BY <1>7, KeptFates DEF Ledger!Next
<1> QED BY <1>3, <1>4, <1>5, <1>6, <1>7 DEF LedgerStep

LEMMA InitLedger == Init => Ledger!Init
BY DEF Init, Fates, FateOf, Misled, Ledger!Init

\* What the pods have misled the worker about stays so.
LEMMA MisledGrows == [Next]_vars => Misled \subseteq Misled'
<1>. SUFFICES ASSUME [Next]_vars PROVE Misled \subseteq Misled'
  OBVIOUS
<1>1. vouched \subseteq vouched'
  BY DEF Next, WorkerStep, AttemptEnds, Emit, Shutdown, HandlersGone, Rollout, Tick,
         Delivered, Refused, AnsweredOnTheWay, Unanswered, Failure, Resend, Receive,
         ReceiveNone, FlushTick, CancelChanged, Drain, Exit, StrayLands, vars
<1>2. \A i, dedup : Commit(i, dedup) => unkept \subseteq unkept'
  BY DEF Commit
<1>3. (\E i, dedup : Commit(i, dedup)) \/ UNCHANGED unkept
  BY DEF Next, WorkerStep, AttemptEnds, Emit, Shutdown, HandlersGone, Rollout, Tick,
         Delivered, Refused, AnsweredOnTheWay, Unanswered, Resend, Receive,
         ReceiveNone, FlushTick, CancelChanged, Drain, Exit, StrayLands, vars
<1> QED BY <1>1, <1>2, <1>3 DEF Misled

\* Whatever the pods are and whoever replaces them, the delivery implements the
\* ledger: what becomes of a record is decided once, what is delivered has been
\* billed, what the worker leaves in its queue is not, and what is dropped may
\* have been billed, or be billed yet, but once; only what the pods have misled
\* the worker about is billed again, and no more often than its batch can be
\* posted (deliver, drop_batch, SenderState::may_resend).
THEOREM LedgerKept == Spec => KeepsLedger
<1>1. TypeOK /\ TypeOK' /\ StageInv /\ AccountInv /\ PostInv /\ RowsAreBounded'
        /\ BilledAgainIfMisled' /\ [Next]_vars
        => [Ledger!Next]_Ledger!vars
  BY NextLedger, MisledGrows, StepOfLedger
<1> QED BY <1>1, RowsInvariant, InitLedger, RowsBounded, BilledOnceUnlessMisled, PTL
        DEF Spec, KeepsLedger, Ledger!Spec
=============================================================================
