------------------------ MODULE RedisRateLimit_proofs ------------------------
(***************************************************************************)
(* Proofs about RedisRateLimit for any replicas and requests, any limits,  *)
(* windows and lifetimes, and any number of faults.                        *)
(***************************************************************************)
EXTENDS RedisRateLimit, FiniteSetTheorems, TLAPS

USE DEF windows, redisVars, slots, requestVars, history

-----------------------------------------------------------------------------
(* Type correctness.                                                       *)

LEMMA InitType == Init => TypeOK
BY RedisRateLimitAssumption
   DEF RedisRateLimitAssumption, Init, TypeOK, Stage, Store

LEMMA FaultType ==
    ASSUME TypeOK, NEW rs \in SUBSET Request, Fault(rs)
    PROVE  astray' \subseteq Request /\ faults' \in 0 .. MaxFaults
BY RedisRateLimitAssumption DEF RedisRateLimitAssumption, TypeOK, Fault

LEMMA CountRequestType ==
    ASSUME TypeOK, NEW s \in Store, CountRequest(s)
    PROVE  requests' \in [Store -> Nat]
BY DEF TypeOK, CountRequest

LEMMA CountTokensType ==
    ASSUME TypeOK, NEW r \in Request, NEW ss \in SUBSET Store, CountTokens(r, ss)
    PROVE  tokens' \in [Store -> Nat] /\ paid' \subseteq Request
BY RedisRateLimitAssumption DEF RedisRateLimitAssumption, TypeOK, CountTokens

LEMMA HomeType == \A r \in Request : Home[r] \in Replica /\ Home[r] \in Store
BY RedisRateLimitAssumption DEF RedisRateLimitAssumption, Store

LEMMA ReturnLocalSlotType ==
    ASSUME TypeOK, NEW r \in Request, ReturnLocalSlot(r)
    PROVE  inFlight' \in [Replica -> Nat] /\ degraded' \subseteq Request
BY HomeType DEF TypeOK, ReturnLocalSlot, Saturating

LEMMA AcquireRunsType ==
    ASSUME TypeOK, NEW r \in Request, AcquireRuns(r)
    PROVE  TypeOK'
<1>1. requests' \in [Store -> Nat]
  BY CountRequestType DEF AcquireRuns, Store, TypeOK
<1>2. member' \subseteq Request /\ age' \in [Request -> 0 .. ConcTtl]
  BY RedisRateLimitAssumption DEF RedisRateLimitAssumption, TypeOK, AcquireRuns, Pruned
<1>3. reply' \in [Request -> {"none", "admitted", "refused", "committed"}]
  BY DEF TypeOK, AcquireRuns, Answer
<1>4. \A q \in Request : reply'[q] # reply[q] => pc[q] = "acquiring" /\ reply'[q] \in {"admitted", "refused"}
  BY DEF TypeOK, AcquireRuns, Answer
<1> QED BY <1>1, <1>2, <1>3, <1>4 DEF TypeOK, AcquireRuns

LEMMA CommitRunsType ==
    ASSUME TypeOK, NEW r \in Request, CommitRuns(r)
    PROVE  TypeOK'
<1>1. tokens' \in [Store -> Nat] /\ paid' \subseteq Request
  BY CountTokensType DEF CommitRuns, Store
<1>2. reply' \in [Request -> {"none", "admitted", "refused", "committed"}]
  BY DEF TypeOK, CommitRuns, Answer
<1>3. \A q \in Request : reply'[q] # reply[q] => pc[q] = "committing" /\ reply'[q] = "committed"
  BY DEF TypeOK, CommitRuns, Answer
<1> QED BY <1>1, <1>2, <1>3 DEF TypeOK, CommitRuns

LEMMA ReleaseRunsType ==
    ASSUME TypeOK, NEW r \in Request, ReleaseRuns(r)
    PROVE  TypeOK'
BY DEF TypeOK, ReleaseRuns

LEMMA AddTokensRunsType ==
    ASSUME TypeOK, NEW r \in Request, AddTokensRuns(r)
    PROVE  TypeOK'
<1>1. tokens' \in [Store -> Nat] /\ paid' \subseteq Request
  BY CountTokensType DEF AddTokensRuns, Store
<1> QED BY <1>1 DEF TypeOK, AddTokensRuns

LEMMA PeekRunsType == TypeOK /\ PeekRuns => TypeOK'
BY DEF TypeOK, PeekRuns, Pruned

LEMMA AcquireType ==
    ASSUME TypeOK, NEW r \in Request, Acquire(r)
    PROVE  TypeOK'
BY DEF TypeOK, Acquire, Send, Operation, Stage

LEMMA AcquiredType ==
    ASSUME TypeOK, NEW r \in Request, Acquired(r)
    PROVE  TypeOK'
BY DEF TypeOK, Acquired, Stage

LEMMA AcquireFailsType ==
    ASSUME TypeOK, NEW r \in Request, AcquireFails(r)
    PROVE  TypeOK'
<1>1. astray' \subseteq Request /\ faults' \in 0 .. MaxFaults
  BY FaultType DEF AcquireFails
<1>2. requests' \in [Store -> Nat]
  BY CountRequestType, HomeType DEF AcquireFails, FallBack, TypeOK
<1>3. inFlight' \in [Replica -> Nat] /\ degraded' \subseteq Request
  BY HomeType DEF TypeOK, AcquireFails, FallBack
<1>4. /\ pc' \in [Request -> Stage]
      /\ \A q \in Request \ {r} : pc'[q] = pc[q]
      /\ pc'[r] \in {"holding", "done"}
  BY DEF TypeOK, AcquireFails, FallBack, Stage
<1>5. wire' \subseteq wire
  BY DEF AcquireFails, Unanswered
<1>6. pc[r] \in {"new", "acquiring"}
  BY DEF AcquireFails
<1> QED BY <1>1, <1>2, <1>3, <1>4, <1>5, <1>6 DEF TypeOK, AcquireFails

LEMMA AbandonAcquireType ==
    ASSUME TypeOK, NEW r \in Request, AbandonAcquire(r)
    PROVE  TypeOK'
BY DEF TypeOK, AbandonAcquire, Unanswered, Stage

LEMMA CommitType ==
    ASSUME TypeOK, NEW r \in Request, Commit(r)
    PROVE  TypeOK'
BY DEF TypeOK, Commit, Send, Operation, Stage

LEMMA CommittedType ==
    ASSUME TypeOK, NEW r \in Request, Committed(r)
    PROVE  TypeOK'
<1>1. inFlight' \in [Replica -> Nat] /\ degraded' \subseteq Request
  BY ReturnLocalSlotType DEF Committed
<1> QED BY <1>1 DEF TypeOK, Committed, Stage

LEMMA CommitFailsType ==
    ASSUME TypeOK, NEW r \in Request, CommitFails(r)
    PROVE  TypeOK'
<1>1. inFlight' \in [Replica -> Nat] /\ degraded' \subseteq Request
  BY ReturnLocalSlotType DEF CommitFails
<1>2. astray' \subseteq Request /\ faults' \in 0 .. MaxFaults
  BY FaultType DEF CommitFails
<1>3. tokens' \in [Store -> Nat] /\ paid' \subseteq Request
  BY CountTokensType, HomeType DEF CommitFails
<1>4. wire' \subseteq wire
  BY DEF CommitFails, Unanswered
<1> QED BY <1>1, <1>2, <1>3, <1>4 DEF TypeOK, CommitFails, Stage

LEMMA EndStreamType ==
    ASSUME TypeOK, NEW r \in Request, EndStream(r)
    PROVE  TypeOK'
<1>1. inFlight' \in [Replica -> Nat] /\ degraded' \subseteq Request
  BY ReturnLocalSlotType DEF EndStream
<1>2. tokens' \in [Store -> Nat] /\ paid' \subseteq Request
  BY CountTokensType, HomeType DEF EndStream
<1>3. /\ wire' \subseteq wire \union {<<"release", r>>, <<"add_tokens", r>>}
      /\ wire' \subseteq Operation \X Request
  BY DEF TypeOK, EndStream, Send, Operation
<1> QED BY <1>1, <1>2, <1>3 DEF TypeOK, EndStream, Stage

LEMMA DropType ==
    ASSUME TypeOK, NEW r \in Request, Drop(r)
    PROVE  TypeOK'
<1>1. inFlight' \in [Replica -> Nat] /\ degraded' \subseteq Request
  BY ReturnLocalSlotType DEF Drop
<1>2. /\ wire' = wire \union {<<"release", r>>}
      /\ wire' \subseteq Operation \X Request
  BY DEF TypeOK, Drop, Send, Operation
<1> QED BY <1>1, <1>2 DEF TypeOK, Drop, Stage

LEMMA DetachedFailsType ==
    ASSUME TypeOK, NEW r \in Request, DetachedFails(r)
    PROVE  TypeOK'
<1>1. astray' \subseteq Request /\ faults' \in 0 .. MaxFaults
  BY FaultType DEF DetachedFails
<1>2. wire' \subseteq wire
  BY DEF DetachedFails
<1> QED BY <1>1, <1>2 DEF TypeOK, DetachedFails

\* What a crash of h takes with it.
Lost(h) == {r \in Request : Home[r] = h /\ pc[r] # "new"}

LEMMA CrashType ==
    ASSUME TypeOK, NEW h \in Replica, Crash(h)
    PROVE  TypeOK'
<1>1. astray' \subseteq Request /\ faults' \in 0 .. MaxFaults
  BY FaultType DEF Crash
<1>2. wire' \subseteq wire
  BY DEF Crash
<1>3. /\ requests' \in [Store -> Nat] /\ tokens' \in [Store -> Nat]
      /\ inFlight' \in [Replica -> Nat] /\ degraded' \subseteq Request
  BY DEF TypeOK, Crash
<1>4. /\ pc' \in [Request -> Stage]
      /\ \A q \in Request : \/ pc'[q] = pc[q]
                            \/ q \in Lost(h) /\ pc'[q] = "done"
  BY DEF TypeOK, Crash, Stage, Lost
<1>5. /\ reply' \in [Request -> {"none", "admitted", "refused", "committed"}]
      /\ \A q \in Request : reply'[q] = IF q \in Lost(h) THEN "none" ELSE reply[q]
  BY DEF TypeOK, Crash, Lost
<1> QED BY <1>1, <1>2, <1>3, <1>4, <1>5 DEF TypeOK, Crash

LEMMA TickType == TypeOK /\ Tick => TypeOK'
<1>. SUFFICES ASSUME TypeOK, Tick PROVE TypeOK'
  OBVIOUS
<1>1. left' \in 1 .. Window
  BY RedisRateLimitAssumption DEF RedisRateLimitAssumption, TypeOK, Tick
<1>2. age' \in [Request -> 0 .. ConcTtl]
  BY RedisRateLimitAssumption DEF RedisRateLimitAssumption, TypeOK, Tick
<1> QED BY <1>1, <1>2 DEF TypeOK, Tick

LEMMA StutterType == TypeOK /\ UNCHANGED vars => TypeOK'
BY DEF TypeOK, vars

LEMMA NextType == TypeOK /\ [Next]_vars => TypeOK'
<1>. SUFFICES ASSUME TypeOK, [Next]_vars PROVE TypeOK'
  OBVIOUS
<1>. USE DEF Next, RedisRuns, Hears, Ends, Fails
<1> QED BY AcquireRunsType, CommitRunsType, ReleaseRunsType, AddTokensRunsType,
           PeekRunsType, AcquireType, AcquiredType, AcquireFailsType,
           AbandonAcquireType, CommitType, CommittedType, CommitFailsType,
           EndStreamType, DropType, DetachedFailsType, CrashType, TickType,
           StutterType

\* Every reachable state is well typed, and a command is on its way only from
\* a request that has come to send it, for any replicas, requests and bounds.
THEOREM TypeCorrect == Spec => []TypeOK
BY InitType, NextType, PTL DEF Spec

-----------------------------------------------------------------------------
(* The slots of the local stores.                                          *)

LEMMA FiniteRequests == IsFiniteSet(Request)
BY RedisRateLimitAssumption DEF RedisRateLimitAssumption

\* The requests that hold a slot of replica h.
Holders(h) == {r \in degraded : Home[r] = h}

\* A slot is held by a request between its admission and its end.
DegradedAreServed == \A r \in degraded : pc[r] \in {"holding", "committing"}

SlotInv == NeverFailsClosed /\ DegradedAreServed

LEMMA HoldersFinite ==
    ASSUME TypeOK, NEW h \in Replica
    PROVE  IsFiniteSet(Holders(h)) /\ Cardinality(Holders(h)) \in Nat
<1>1. Holders(h) \in SUBSET Request
  BY DEF TypeOK, Holders
<1> QED BY <1>1, FiniteRequests, FS_Subset, FS_CardinalityType

LEMMA InitSlots == Init => SlotInv
<1>. SUFFICES ASSUME Init PROVE SlotInv
  OBVIOUS
<1>1. \A h \in Replica : {r \in degraded : Home[r] = h} = {}
  BY DEF Init
<1> QED BY <1>1, FS_EmptySet DEF Init, SlotInv, NeverFailsClosed, DegradedAreServed

\* A slot is returned, whoever held it, and r no longer holds one.
LEMMA ReturnKeepsSlots ==
    ASSUME TypeOK, SlotInv, NEW r \in Request, ReturnLocalSlot(r),
           \A q \in Request \ {r} : pc'[q] = pc[q]
    PROVE  SlotInv'
<1>1. DegradedAreServed'
  BY DEF SlotInv, DegradedAreServed, ReturnLocalSlot, TypeOK
<1>2. ASSUME NEW h \in Replica
      PROVE  inFlight'[h] <= Cardinality(Holders(h)')
  <2>1. inFlight[h] <= Cardinality(Holders(h)) /\ inFlight[h] \in Nat
    BY DEF SlotInv, NeverFailsClosed, Holders, TypeOK
  <2>2. IsFiniteSet(Holders(h)) /\ Cardinality(Holders(h)) \in Nat
    BY HoldersFinite
  <2>3. CASE h = Home[r]
    <3>1. Holders(h)' = Holders(h) \ {r}
      BY DEF Holders, ReturnLocalSlot
    <3>2. Cardinality(Holders(h)') >= Cardinality(Holders(h)) - 1
      BY <2>2, <3>1, FS_RemoveElement
    <3>3. Cardinality(Holders(h)') \in Nat
      BY <2>2, <3>1, FS_RemoveElement, FS_CardinalityType
    <3>4. inFlight'[h] = Saturating(inFlight[h])
      BY <2>3 DEF ReturnLocalSlot, TypeOK
    <3> QED BY <2>1, <2>2, <3>2, <3>3, <3>4 DEF Saturating
  <2>4. CASE h # Home[r]
    <3>1. Holders(h)' = Holders(h)
      BY <2>4 DEF Holders, ReturnLocalSlot
    <3>2. inFlight'[h] = inFlight[h]
      BY <2>4 DEF ReturnLocalSlot, TypeOK
    <3> QED BY <2>1, <3>1, <3>2
  <2> QED BY <2>3, <2>4
<1> QED BY <1>1, <1>2 DEF SlotInv, NeverFailsClosed, Holders

LEMMA FallBackKeepsSlots ==
    ASSUME TypeOK, SlotInv, NEW r \in Request, FallBack(r),
           pc[r] \in {"new", "acquiring"}
    PROVE  SlotInv'
<1>0. r \notin degraded
  BY DEF SlotInv, DegradedAreServed
<1>1. CASE UNCHANGED slots
  <2>1. \A q \in degraded : pc'[q] = pc[q]
    BY <1>0 DEF FallBack, TypeOK
  <2> QED BY <1>1, <2>1 DEF SlotInv, NeverFailsClosed, DegradedAreServed
<1>2. CASE /\ inFlight' = [inFlight EXCEPT ![Home[r]] = @ + 1]
           /\ degraded' = degraded \union {r}
           /\ pc' = [pc EXCEPT ![r] = "holding"]
  <2>1. DegradedAreServed'
    BY <1>2 DEF SlotInv, DegradedAreServed, TypeOK
  <2>2. ASSUME NEW h \in Replica
        PROVE  inFlight'[h] <= Cardinality(Holders(h)')
    <3>1. inFlight[h] <= Cardinality(Holders(h)) /\ inFlight[h] \in Nat
      BY DEF SlotInv, NeverFailsClosed, Holders, TypeOK
    <3>2. IsFiniteSet(Holders(h)) /\ Cardinality(Holders(h)) \in Nat
      BY HoldersFinite
    <3>3. CASE h = Home[r]
      <4>1. Holders(h)' = Holders(h) \union {r} /\ r \notin Holders(h)
        BY <1>0, <1>2, <3>3 DEF Holders
      <4>2. Cardinality(Holders(h)') = Cardinality(Holders(h)) + 1
        BY <3>2, <4>1, FS_AddElement
      <4>3. inFlight'[h] = inFlight[h] + 1
        BY <1>2, <3>3 DEF TypeOK
      <4> QED BY <3>1, <3>2, <4>2, <4>3
    <3>4. CASE h # Home[r]
      <4>1. Holders(h)' = Holders(h) /\ inFlight'[h] = inFlight[h]
        BY <1>2, <3>4 DEF Holders, TypeOK
      <4> QED BY <3>1, <4>1
    <3> QED BY <3>3, <3>4
  <2> QED BY <2>1, <2>2 DEF SlotInv, NeverFailsClosed, Holders
<1> QED BY <1>1, <1>2 DEF FallBack

LEMMA CrashKeepsSlots ==
    ASSUME TypeOK, SlotInv, NEW h \in Replica, Crash(h)
    PROVE  SlotInv'
<1>1. DegradedAreServed'
  <2>1. \A q \in Request \ Lost(h) : pc'[q] = pc[q]
    BY DEF Crash, Lost, TypeOK
  <2>2. degraded' = degraded \ Lost(h)
    BY DEF Crash, Lost
  <2> QED BY <2>1, <2>2 DEF SlotInv, DegradedAreServed, TypeOK
<1>2. ASSUME NEW g \in Replica
      PROVE  inFlight'[g] <= Cardinality(Holders(g)')
  <2>0. degraded' = degraded \ Lost(h) /\ inFlight' = [inFlight EXCEPT ![h] = 0]
    BY DEF Crash, Lost
  <2>1. CASE g = h
    <3>1. Holders(g)' \in SUBSET Request
      BY <2>0 DEF Holders, TypeOK
    <3>2. Cardinality(Holders(g)') \in Nat
      BY <3>1, FiniteRequests, FS_Subset, FS_CardinalityType
    <3> QED BY <2>0, <2>1, <3>2 DEF TypeOK
  <2>2. CASE g # h
    <3>1. Holders(g)' = Holders(g) /\ inFlight'[g] = inFlight[g]
      BY <2>0, <2>2 DEF Holders, Lost, TypeOK
    <3> QED BY <3>1 DEF SlotInv, NeverFailsClosed, Holders
  <2> QED BY <2>1, <2>2
<1> QED BY <1>1, <1>2 DEF SlotInv, NeverFailsClosed, Holders

\* A step that leaves the local slots alone, and changes the stage of no
\* request that holds one but to "committing".
LEMMA OthersKeepSlots ==
    ASSUME SlotInv, UNCHANGED slots,
           \A q \in degraded : pc'[q] = pc[q] \/ pc'[q] = "committing"
    PROVE  SlotInv'
BY DEF SlotInv, NeverFailsClosed, DegradedAreServed

LEMMA NextSlots == TypeOK /\ SlotInv /\ [Next]_vars => SlotInv'
<1>. SUFFICES ASSUME TypeOK, SlotInv, [Next]_vars PROVE SlotInv'
  OBVIOUS
<1>0. \A q \in degraded : q \in Request /\ pc[q] \in {"holding", "committing"}
  BY DEF TypeOK, SlotInv, DegradedAreServed
<1>1. ASSUME NEW r \in Request, RedisRuns(r) PROVE SlotInv'
  BY <1>1, OthersKeepSlots
     DEF RedisRuns, AcquireRuns, CommitRuns, ReleaseRuns, AddTokensRuns
<1>2. ASSUME NEW r \in Request, Acquire(r) PROVE SlotInv'
  BY <1>0, <1>2, OthersKeepSlots DEF Acquire, TypeOK
<1>3. ASSUME NEW r \in Request, Acquired(r) PROVE SlotInv'
  BY <1>0, <1>3, OthersKeepSlots DEF Acquired, TypeOK
<1>4. ASSUME NEW r \in Request, AcquireFails(r) PROVE SlotInv'
  BY <1>4, FallBackKeepsSlots DEF AcquireFails
<1>5. ASSUME NEW r \in Request, AbandonAcquire(r) PROVE SlotInv'
  BY <1>0, <1>5, OthersKeepSlots DEF AbandonAcquire, TypeOK
<1>6. ASSUME NEW r \in Request, Commit(r) PROVE SlotInv'
  BY <1>0, <1>6, OthersKeepSlots DEF Commit, TypeOK
<1>7. ASSUME NEW r \in Request, Committed(r) \/ CommitFails(r) \/ EndStream(r) \/ Drop(r)
      PROVE  SlotInv'
  BY <1>7, ReturnKeepsSlots DEF Committed, CommitFails, EndStream, Drop, TypeOK
<1>8. ASSUME NEW r \in Request, DetachedFails(r) PROVE SlotInv'
  BY <1>8, OthersKeepSlots DEF DetachedFails
<1>9. CASE PeekRuns
  BY <1>9, OthersKeepSlots DEF PeekRuns
<1>10. ASSUME NEW h \in Replica, Crash(h) PROVE SlotInv'
  BY <1>10, CrashKeepsSlots
<1>11. CASE Tick
  BY <1>11, OthersKeepSlots DEF Tick
<1>12. CASE UNCHANGED vars
  BY <1>12, OthersKeepSlots DEF vars
<1> QED BY <1>1, <1>2, <1>3, <1>4, <1>5, <1>6, <1>7, <1>8, <1>9, <1>10, <1>11, <1>12
        DEF Next, Hears, Ends, Fails

\* However requests move between the stores, a local store never counts more
\* requests than it has admitted and not got back: it never fails closed.
THEOREM LocalStoresFailOpen == Spec => []NeverFailsClosed
<1>1. SlotInv => NeverFailsClosed
  BY DEF SlotInv
<1> QED BY <1>1, InitType, NextType, InitSlots, NextSlots, PTL DEF Spec

-----------------------------------------------------------------------------
(* What Redis and a request know of each other.                            *)

\* An acquire still on its way is the first of its request, or nobody's.
AcquiresAreFirst ==
    \A r \in Request :
        /\ pc[r] = "new" => r \notin member /\ <<"acquire", r>> \notin wire
        /\ <<"acquire", r>> \in wire =>
              r \in astray \/ (pc[r] = "acquiring" /\ r \notin member /\ reply[r] = "none")

\* What a reply tells its caller is so.
RepliesAreTrue ==
    \A r \in Request :
        /\ reply[r] = "admitted" /\ age[r] < ConcTtl => r \in member
        /\ reply[r] \in {"admitted", "refused"} => <<"acquire", r>> \notin wire
        /\ reply[r] = "refused" => r \notin member \/ r \in astray
        /\ reply[r] = "committed" => r \in paid /\ (r \notin member \/ r \in astray)

\* The members that still count are no more than the limit, and the requests
\* in service that Redis has admitted are among them.
MembersWithinLimit == Cardinality(Pruned) <= Concurrency

ServedAreMembers == ServedByRedis \subseteq member

MemberInv ==
    /\ AcquiresAreFirst
    /\ RepliesAreTrue
    /\ MembersWithinLimit
    /\ ServedAreMembers
    /\ NoSilentLeak
    /\ TokensAreCounted

LEMMA PrunedFinite ==
    ASSUME TypeOK
    PROVE  IsFiniteSet(Pruned) /\ Cardinality(Pruned) \in Nat
<1>1. Pruned \in SUBSET Request
  BY DEF TypeOK, Pruned
<1> QED BY <1>1, FiniteRequests, FS_Subset, FS_CardinalityType

\* Fewer members count, or no more than before.
LEMMA FewerMembers ==
    ASSUME TypeOK, MembersWithinLimit, Pruned' \subseteq Pruned
    PROVE  MembersWithinLimit'
<1>1. Pruned' \in SUBSET Pruned
  OBVIOUS
<1>2. Cardinality(Pruned') <= Cardinality(Pruned) /\ Cardinality(Pruned') \in Nat
  BY <1>1, PrunedFinite, FS_Subset, FS_CardinalityType
<1>3. Cardinality(Pruned') <= Concurrency
  BY <1>2, PrunedFinite, RedisRateLimitAssumption
     DEF MembersWithinLimit, RedisRateLimitAssumption
<1> QED BY <1>3 DEF MembersWithinLimit

LEMMA InitMembers == Init => MemberInv
<1>. SUFFICES ASSUME Init PROVE MemberInv
  OBVIOUS
<1>1. Pruned = {}
  BY DEF Init, Pruned
<1>2. MembersWithinLimit
  BY <1>1, FS_EmptySet, RedisRateLimitAssumption
     DEF MembersWithinLimit, RedisRateLimitAssumption
<1> QED BY <1>2 DEF Init, MemberInv, AcquiresAreFirst, RepliesAreTrue,
                    ServedAreMembers, ServedByRedis, NoSilentLeak, TokensAreCounted

LEMMA AcquireRunsMembers ==
    ASSUME TypeOK, MemberInv, NEW r \in Request, AcquireRuns(r)
    PROVE  MemberInv'
<1>. DEFINE admitted == /\ Cardinality(Pruned) < Concurrency
                        /\ member' = Pruned \union {r}
                        /\ age' = [age EXCEPT ![r] = 0]
                        /\ Answer(r, "acquiring", "admitted")
            refused == /\ member' = Pruned /\ age' = age
                       /\ Answer(r, "acquiring", "refused")
<1>0. admitted \/ refused
  BY DEF AcquireRuns
<1>1. /\ <<"acquire", r>> \in wire /\ wire' = wire \ {<<"acquire", r>>}
      /\ UNCHANGED <<pc, degraded, paid, astray>>
  BY DEF AcquireRuns
<1>2. /\ \A q \in Request \ {r} : reply'[q] = reply[q]
      /\ reply'[r] = reply[r] \/ reply'[r] \in {"admitted", "refused"}
      /\ reply'[r] # reply[r] => pc[r] = "acquiring" /\ reply[r] = "none"
      /\ age'[r] = 0 \/ age' = age
      /\ \A q \in Request \ {r} : age'[q] = age[q]
  BY <1>0 DEF Answer, TypeOK
<1>3. Pruned \subseteq member /\ member' \subseteq member \union {r} /\ Pruned \subseteq member'
  BY <1>0 DEF Pruned
<1>4. \A q \in member : age[q] < ConcTtl => q \in member'
  BY <1>3 DEF Pruned
<1>5. AcquiresAreFirst'
  BY <1>1, <1>2, <1>3 DEF MemberInv, AcquiresAreFirst, TypeOK
<1>6. RepliesAreTrue'
  <2>1. ASSUME NEW q \in Request, q # r
        PROVE  /\ reply'[q] = "admitted" /\ age'[q] < ConcTtl => q \in member'
               /\ reply'[q] \in {"admitted", "refused"} => <<"acquire", q>> \notin wire'
               /\ reply'[q] = "refused" => q \notin member' \/ q \in astray'
               /\ reply'[q] = "committed" => q \in paid' /\ (q \notin member' \/ q \in astray')
    BY <1>1, <1>2, <1>3, <1>4, <2>1 DEF MemberInv, RepliesAreTrue
  <2>2. r \in astray \/ (pc[r] = "acquiring" /\ r \notin member /\ reply[r] = "none")
    BY <1>1 DEF MemberInv, AcquiresAreFirst
  <2>3. <<"acquire", r>> \notin wire'
    BY <1>1
  <2>4. reply[r] \notin {"admitted", "refused"}
    BY <1>1 DEF MemberInv, RepliesAreTrue
  <2>5. reply'[r] = "committed" => r \in paid' /\ (r \notin member' \/ r \in astray')
    BY <1>1, <1>2, <2>2 DEF MemberInv, RepliesAreTrue
  <2>6. reply'[r] = "admitted" => r \in member'
    BY <1>0, <2>4 DEF Answer, TypeOK
  <2>7. reply'[r] = "refused" => r \notin member' \/ r \in astray'
    BY <1>0, <1>1, <1>3, <2>2, <2>4 DEF Answer, TypeOK, Pruned
  <2> QED BY <2>1, <2>3, <2>5, <2>6, <2>7 DEF RepliesAreTrue
<1>7. MembersWithinLimit'
  <2>1. CASE refused
    <3>1. Pruned' \subseteq Pruned
      BY <2>1 DEF Pruned
    <3> QED BY <3>1, FewerMembers DEF MemberInv
  <2>2. CASE admitted
    <3>1. Pruned' \in SUBSET (Pruned \union {r})
      BY <2>2 DEF Pruned, TypeOK
    <3>2. /\ IsFiniteSet(Pruned \union {r})
          /\ Cardinality(Pruned \union {r}) <= Cardinality(Pruned) + 1
          /\ Cardinality(Pruned \union {r}) \in Nat
      BY PrunedFinite, FS_AddElement, FS_CardinalityType
    <3>3. Cardinality(Pruned') <= Cardinality(Pruned \union {r}) /\ Cardinality(Pruned') \in Nat
      BY <3>1, <3>2, FS_Subset, FS_CardinalityType
    <3>4. Cardinality(Pruned') <= Concurrency
      BY <2>2, <3>2, <3>3, PrunedFinite, RedisRateLimitAssumption DEF RedisRateLimitAssumption
    <3> QED BY <3>4 DEF MembersWithinLimit
  <2> QED BY <1>0, <2>1, <2>2
<1>8. ServedAreMembers'
  <2>1. ASSUME NEW q \in Request, q \in ServedByRedis' PROVE q \in member'
    <3>1. CASE q # r
      BY <1>1, <1>2, <1>4, <2>1, <3>1 DEF MemberInv, ServedAreMembers, ServedByRedis
    <3>2. CASE q = r /\ admitted
      BY <3>2
    <3>3. CASE q = r /\ refused
      BY <1>1, <1>4, <2>1, <3>3 DEF MemberInv, ServedAreMembers, ServedByRedis
    <3> QED BY <1>0, <3>1, <3>2, <3>3
  <2> QED BY <2>1 DEF ServedAreMembers, ServedByRedis
<1>9. NoSilentLeak'
  <2>1. ASSUME NEW q \in member'
        PROVE  \/ pc'[q] \in {"acquiring", "holding", "committing"}
               \/ \E op \in {"commit", "release"} : <<op, q>> \in wire'
               \/ q \in astray'
    <3>1. CASE q \in member
      BY <1>1, <3>1 DEF MemberInv, NoSilentLeak
    <3>2. CASE q = r
      BY <1>1, <3>2 DEF MemberInv, AcquiresAreFirst
    <3> QED BY <1>3, <3>1, <3>2
  <2> QED BY <2>1 DEF NoSilentLeak
<1>10. TokensAreCounted'
  BY <1>1 DEF MemberInv, TokensAreCounted
<1> QED BY <1>5, <1>6, <1>7, <1>8, <1>9, <1>10 DEF MemberInv

\* Redis gives back the slot of a request that is no longer served.
LEMMA RemovalMembers ==
    ASSUME TypeOK, MemberInv, NEW r \in Request,
           pc[r] \in {"committing", "answered", "done"},
           member' = member \ {r}, wire' \subseteq wire,
           \A q \in Request \ {r} : \A op \in Operation :
               <<op, q>> \in wire => <<op, q>> \in wire',
           UNCHANGED <<pc, degraded, age, astray>>, paid \subseteq paid',
           \A q \in Request : \/ reply'[q] = reply[q]
                              \/ q = r /\ reply'[r] = "committed" /\ r \in paid'
    PROVE  MemberInv'
<1>1. AcquiresAreFirst'
  BY DEF MemberInv, AcquiresAreFirst
<1>2. RepliesAreTrue'
  <2>1. ASSUME NEW q \in Request
        PROVE  /\ reply'[q] = "admitted" /\ age'[q] < ConcTtl => q \in member'
               /\ reply'[q] \in {"admitted", "refused"} => <<"acquire", q>> \notin wire'
               /\ reply'[q] = "refused" => q \notin member' \/ q \in astray'
               /\ reply'[q] = "committed" => q \in paid' /\ (q \notin member' \/ q \in astray')
    <3>1. reply'[q] = "admitted" => q # r
      BY DEF TypeOK
    <3>2. CASE reply'[q] = reply[q]
      BY <3>1, <3>2 DEF MemberInv, RepliesAreTrue
    <3>3. CASE q = r /\ reply'[r] = "committed" /\ r \in paid'
      BY <3>3
    <3> QED BY <3>2, <3>3
  <2> QED BY <2>1 DEF RepliesAreTrue
<1>3. MembersWithinLimit'
  BY FewerMembers DEF MemberInv, Pruned
<1>4. ServedAreMembers'
  BY DEF MemberInv, ServedAreMembers, ServedByRedis
<1>5. NoSilentLeak'
  <2>1. ASSUME NEW q \in member, q # r
        PROVE  \/ pc'[q] \in {"acquiring", "holding", "committing"}
               \/ \E op \in {"commit", "release"} : <<op, q>> \in wire'
               \/ q \in astray'
    BY <2>1 DEF MemberInv, NoSilentLeak, TypeOK, Operation
  <2> QED BY <2>1 DEF NoSilentLeak
<1>6. TokensAreCounted'
  BY DEF MemberInv, TokensAreCounted
<1> QED BY <1>1, <1>2, <1>3, <1>4, <1>5, <1>6 DEF MemberInv

LEMMA CommitRunsMembers ==
    ASSUME TypeOK, MemberInv, NEW r \in Request, CommitRuns(r)
    PROVE  MemberInv'
<1>1. pc[r] \in {"committing", "answered", "done"}
  BY DEF TypeOK, CommitRuns
<1>2. \A q \in Request : \/ reply'[q] = reply[q]
                         \/ q = r /\ reply'[r] = "committed" /\ r \in paid'
  BY DEF CommitRuns, Answer, CountTokens, TypeOK
<1>3. paid \subseteq paid'
  BY DEF CommitRuns, CountTokens
<1>4. /\ member' = member \ {r} /\ wire' = wire \ {<<"commit", r>>}
      /\ UNCHANGED <<pc, degraded, age, astray>>
  BY DEF CommitRuns
<1>5. \A q \in Request \ {r} : \A op \in Operation : <<op, q>> \in wire => <<op, q>> \in wire'
  BY <1>4
<1>6. wire' \subseteq wire
  BY <1>4
<1> QED BY <1>1, <1>2, <1>3, <1>4, <1>5, <1>6, RemovalMembers

LEMMA ReleaseRunsMembers ==
    ASSUME TypeOK, MemberInv, NEW r \in Request, ReleaseRuns(r)
    PROVE  MemberInv'
<1>1. pc[r] \in {"committing", "answered", "done"}
  BY DEF TypeOK, ReleaseRuns
<1>4. /\ member' = member \ {r} /\ wire' = wire \ {<<"release", r>>}
      /\ UNCHANGED <<pc, degraded, age, astray, paid, reply>>
  BY DEF ReleaseRuns
<1>5. \A q \in Request \ {r} : \A op \in Operation : <<op, q>> \in wire => <<op, q>> \in wire'
  BY <1>4
<1>6. wire' \subseteq wire
  BY <1>4
<1> QED BY <1>1, <1>4, <1>5, <1>6, RemovalMembers

LEMMA AddTokensRunsMembers ==
    ASSUME TypeOK, MemberInv, NEW r \in Request, AddTokensRuns(r)
    PROVE  MemberInv'
<1>1. wire' = wire \ {<<"add_tokens", r>>} /\ paid \subseteq paid'
  BY DEF AddTokensRuns, CountTokens
<1>2. \A q \in Request : \A op \in {"acquire", "commit", "release"} :
          <<op, q>> \in wire' <=> <<op, q>> \in wire
  BY <1>1
<1>3. UNCHANGED <<member, age, pc, degraded, astray, reply>>
  BY DEF AddTokensRuns
<1>4. AcquiresAreFirst' /\ RepliesAreTrue'
  BY <1>1, <1>2, <1>3 DEF MemberInv, AcquiresAreFirst, RepliesAreTrue
<1>5. MembersWithinLimit'
  BY <1>3, FewerMembers DEF MemberInv, Pruned
<1>6. NoSilentLeak'
  BY <1>2, <1>3 DEF MemberInv, NoSilentLeak, TypeOK
<1> QED BY <1>1, <1>3, <1>4, <1>5, <1>6
        DEF MemberInv, ServedAreMembers, ServedByRedis, TokensAreCounted

LEMMA PeekRunsMembers == TypeOK /\ MemberInv /\ PeekRuns => MemberInv'
<1>. SUFFICES ASSUME TypeOK, MemberInv, PeekRuns PROVE MemberInv'
  OBVIOUS
<1>1. /\ member' = Pruned
      /\ UNCHANGED <<age, wire, reply, pc, degraded, paid, astray>>
  BY DEF PeekRuns
<1>2. member' \subseteq member /\ \A q \in member : age[q] < ConcTtl => q \in member'
  BY <1>1 DEF Pruned
<1>3. AcquiresAreFirst' /\ RepliesAreTrue'
  BY <1>1, <1>2 DEF MemberInv, AcquiresAreFirst, RepliesAreTrue
<1>4. MembersWithinLimit'
  BY <1>1, FewerMembers DEF MemberInv, Pruned
<1>5. ServedAreMembers'
  BY <1>1, <1>2 DEF MemberInv, ServedAreMembers, ServedByRedis
<1>6. NoSilentLeak' /\ TokensAreCounted'
  BY <1>1, <1>2 DEF MemberInv, NoSilentLeak, TokensAreCounted
<1> QED BY <1>3, <1>4, <1>5, <1>6 DEF MemberInv

\* Steps that leave the members alone.
LEMMA SameMembers ==
    ASSUME TypeOK, MemberInv, UNCHANGED <<member, age>>
    PROVE  MembersWithinLimit'
BY FewerMembers DEF MemberInv, Pruned

LEMMA AcquireMembers ==
    ASSUME TypeOK, MemberInv, NEW r \in Request, Acquire(r)
    PROVE  MemberInv'
<1>1. /\ pc[r] = "new" /\ pc' = [pc EXCEPT ![r] = "acquiring"]
      /\ wire' = wire \union {<<"acquire", r>>}
      /\ UNCHANGED <<member, age, degraded, reply, paid, astray>>
  BY DEF Acquire, Send
<1>2. r \notin member /\ reply[r] = "none"
  BY <1>1 DEF MemberInv, AcquiresAreFirst, TypeOK
<1>3. AcquiresAreFirst' /\ RepliesAreTrue'
  BY <1>1, <1>2 DEF MemberInv, AcquiresAreFirst, RepliesAreTrue, TypeOK
<1>4. NoSilentLeak'
  BY <1>1, <1>2 DEF MemberInv, NoSilentLeak, TypeOK
<1>5. ServedAreMembers' /\ TokensAreCounted'
  BY <1>1 DEF MemberInv, ServedAreMembers, ServedByRedis, TokensAreCounted, TypeOK
<1> QED BY <1>1, <1>3, <1>4, <1>5, SameMembers DEF MemberInv

LEMMA AcquiredMembers ==
    ASSUME TypeOK, MemberInv, NEW r \in Request, Acquired(r)
    PROVE  MemberInv'
<1>1. /\ pc[r] = "acquiring" /\ reply' = [reply EXCEPT ![r] = "none"]
      /\ \/ reply[r] = "admitted" /\ pc' = [pc EXCEPT ![r] = "holding"]
         \/ reply[r] = "refused" /\ pc' = [pc EXCEPT ![r] = "done"]
      /\ UNCHANGED <<member, age, wire, degraded, paid, astray>>
  BY DEF Acquired
<1>2. /\ reply[r] = "admitted" /\ age[r] < ConcTtl => r \in member
      /\ reply[r] = "refused" => r \notin member \/ r \in astray
      /\ <<"acquire", r>> \notin wire
  BY <1>1 DEF MemberInv, RepliesAreTrue
<1>3. AcquiresAreFirst' /\ RepliesAreTrue'
  BY <1>1, <1>2 DEF MemberInv, AcquiresAreFirst, RepliesAreTrue, TypeOK
<1>4. NoSilentLeak'
  BY <1>1, <1>2 DEF MemberInv, NoSilentLeak, TypeOK
<1>5. ServedAreMembers'
  BY <1>1, <1>2 DEF MemberInv, ServedAreMembers, ServedByRedis, TypeOK
<1>6. TokensAreCounted'
  BY <1>1 DEF MemberInv, TokensAreCounted, TypeOK
<1> QED BY <1>1, <1>3, <1>4, <1>5, <1>6, SameMembers DEF MemberInv

LEMMA AcquireFailsMembers ==
    ASSUME TypeOK, MemberInv, NEW r \in Request, AcquireFails(r)
    PROVE  MemberInv'
<1>1. /\ reply' = [reply EXCEPT ![r] = "none"]
      /\ astray' = astray \union {r}
      /\ wire' \subseteq wire
      /\ \A q \in Request \ {r} : \A op \in Operation : <<op, q>> \in wire => <<op, q>> \in wire'
      /\ UNCHANGED <<member, age, paid>>
  BY DEF AcquireFails, Fault, Unanswered
<1>2. \/ pc' = [pc EXCEPT ![r] = "holding"] /\ degraded' = degraded \union {r}
      \/ pc' = [pc EXCEPT ![r] = "done"] /\ degraded' = degraded
  BY DEF AcquireFails, FallBack
<1>3. AcquiresAreFirst'
  BY <1>1, <1>2 DEF MemberInv, AcquiresAreFirst, TypeOK
<1>4. RepliesAreTrue'
  BY <1>1 DEF MemberInv, RepliesAreTrue, TypeOK
<1>5. NoSilentLeak'
  <2>1. ASSUME NEW q \in member, q # r
        PROVE  \/ pc'[q] \in {"acquiring", "holding", "committing"}
               \/ \E op \in {"commit", "release"} : <<op, q>> \in wire'
               \/ q \in astray'
    BY <1>1, <1>2, <2>1 DEF MemberInv, NoSilentLeak, TypeOK, Operation
  <2> QED BY <1>1, <2>1 DEF NoSilentLeak
<1>6. ServedAreMembers'
  BY <1>1, <1>2 DEF MemberInv, ServedAreMembers, ServedByRedis, TypeOK
<1>7. TokensAreCounted'
  BY <1>1, <1>2 DEF MemberInv, TokensAreCounted, TypeOK
<1> QED BY <1>1, <1>3, <1>4, <1>5, <1>6, <1>7, SameMembers DEF MemberInv

LEMMA AbandonAcquireMembers ==
    ASSUME TypeOK, MemberInv, NEW r \in Request, AbandonAcquire(r)
    PROVE  MemberInv'
<1>1. /\ reply' = [reply EXCEPT ![r] = "none"]
      /\ astray' = astray \union {r}
      /\ wire' \subseteq wire
      /\ \A q \in Request \ {r} : \A op \in Operation : <<op, q>> \in wire => <<op, q>> \in wire'
      /\ pc' = [pc EXCEPT ![r] = "done"]
      /\ UNCHANGED <<member, age, paid, degraded>>
  BY DEF AbandonAcquire, Unanswered
<1>3. AcquiresAreFirst'
  BY <1>1 DEF MemberInv, AcquiresAreFirst, TypeOK
<1>4. RepliesAreTrue'
  BY <1>1 DEF MemberInv, RepliesAreTrue, TypeOK
<1>5. NoSilentLeak'
  <2>1. ASSUME NEW q \in member, q # r
        PROVE  \/ pc'[q] \in {"acquiring", "holding", "committing"}
               \/ \E op \in {"commit", "release"} : <<op, q>> \in wire'
               \/ q \in astray'
    BY <1>1, <2>1 DEF MemberInv, NoSilentLeak, TypeOK, Operation
  <2> QED BY <1>1, <2>1 DEF NoSilentLeak
<1>6. ServedAreMembers' /\ TokensAreCounted'
  BY <1>1 DEF MemberInv, ServedAreMembers, ServedByRedis, TokensAreCounted, TypeOK
<1> QED BY <1>1, <1>3, <1>4, <1>5, <1>6, SameMembers DEF MemberInv

LEMMA CommitMembers ==
    ASSUME TypeOK, MemberInv, NEW r \in Request, Commit(r)
    PROVE  MemberInv'
<1>1. /\ pc[r] = "holding" /\ pc' = [pc EXCEPT ![r] = "committing"]
      /\ wire' = wire \union {<<"commit", r>>}
      /\ UNCHANGED <<member, age, degraded, reply, paid, astray>>
  BY DEF Commit, Send
<1>3. AcquiresAreFirst' /\ RepliesAreTrue'
  BY <1>1 DEF MemberInv, AcquiresAreFirst, RepliesAreTrue, TypeOK
<1>4. NoSilentLeak'
  BY <1>1 DEF MemberInv, NoSilentLeak, TypeOK
<1>5. ServedAreMembers' /\ TokensAreCounted'
  BY <1>1 DEF MemberInv, ServedAreMembers, ServedByRedis, TokensAreCounted, TypeOK
<1> QED BY <1>1, <1>3, <1>4, <1>5, SameMembers DEF MemberInv

LEMMA CommittedMembers ==
    ASSUME TypeOK, MemberInv, NEW r \in Request, Committed(r)
    PROVE  MemberInv'
<1>1. /\ pc[r] = "committing" /\ pc' = [pc EXCEPT ![r] = "answered"]
      /\ reply[r] = "committed" /\ reply' = [reply EXCEPT ![r] = "none"]
      /\ degraded' = degraded \ {r}
      /\ UNCHANGED <<member, age, wire, paid, astray>>
  BY DEF Committed, ReturnLocalSlot, TypeOK
<1>2. r \in paid /\ (r \notin member \/ r \in astray)
  BY <1>1 DEF MemberInv, RepliesAreTrue
<1>3. AcquiresAreFirst' /\ RepliesAreTrue'
  BY <1>1, <1>2 DEF MemberInv, AcquiresAreFirst, RepliesAreTrue, TypeOK
<1>4. NoSilentLeak'
  BY <1>1, <1>2 DEF MemberInv, NoSilentLeak, TypeOK
<1>5. ServedAreMembers' /\ TokensAreCounted'
  BY <1>1, <1>2 DEF MemberInv, ServedAreMembers, ServedByRedis, TokensAreCounted, TypeOK
<1> QED BY <1>1, <1>3, <1>4, <1>5, SameMembers DEF MemberInv

LEMMA CommitFailsMembers ==
    ASSUME TypeOK, MemberInv, NEW r \in Request, CommitFails(r)
    PROVE  MemberInv'
<1>1. /\ pc' = [pc EXCEPT ![r] = "answered"]
      /\ reply' = [reply EXCEPT ![r] = "none"]
      /\ degraded' = degraded \ {r}
      /\ paid' = paid \union {r} /\ astray' = astray \union {r}
      /\ wire' \subseteq wire
      /\ \A q \in Request \ {r} : \A op \in Operation : <<op, q>> \in wire => <<op, q>> \in wire'
      /\ UNCHANGED <<member, age>>
  BY DEF CommitFails, ReturnLocalSlot, Fault, CountTokens, Unanswered
<1>3. AcquiresAreFirst'
  BY <1>1 DEF MemberInv, AcquiresAreFirst, TypeOK
<1>4. RepliesAreTrue'
  BY <1>1 DEF MemberInv, RepliesAreTrue, TypeOK
<1>5. NoSilentLeak'
  <2>1. ASSUME NEW q \in member, q # r
        PROVE  \/ pc'[q] \in {"acquiring", "holding", "committing"}
               \/ \E op \in {"commit", "release"} : <<op, q>> \in wire'
               \/ q \in astray'
    BY <1>1, <2>1 DEF MemberInv, NoSilentLeak, TypeOK, Operation
  <2> QED BY <1>1, <2>1 DEF NoSilentLeak
<1>6. ServedAreMembers' /\ TokensAreCounted'
  BY <1>1 DEF MemberInv, ServedAreMembers, ServedByRedis, TokensAreCounted, TypeOK
<1> QED BY <1>1, <1>3, <1>4, <1>5, <1>6, SameMembers DEF MemberInv

LEMMA GivenBackMembers ==
    ASSUME TypeOK, MemberInv, NEW r \in Request, EndStream(r) \/ Drop(r)
    PROVE  MemberInv'
<1>1. /\ pc[r] \in {"holding", "committing"} /\ pc' = [pc EXCEPT ![r] = "done"]
      /\ reply'[r] = "none" /\ \A q \in Request \ {r} : reply'[q] = reply[q]
      /\ degraded' = degraded \ {r}
      /\ wire \subseteq wire' /\ <<"release", r>> \in wire'
      /\ \A q \in Request : <<"acquire", q>> \in wire' => <<"acquire", q>> \in wire
      /\ paid \subseteq paid'
      /\ UNCHANGED <<member, age, astray>>
  BY DEF EndStream, Drop, ReturnLocalSlot, Send, CountTokens, TypeOK
<1>3. AcquiresAreFirst' /\ RepliesAreTrue'
  BY <1>1 DEF MemberInv, AcquiresAreFirst, RepliesAreTrue, TypeOK
<1>4. NoSilentLeak'
  BY <1>1 DEF MemberInv, NoSilentLeak, TypeOK
<1>5. ServedAreMembers' /\ TokensAreCounted'
  BY <1>1 DEF MemberInv, ServedAreMembers, ServedByRedis, TokensAreCounted, TypeOK
<1> QED BY <1>1, <1>3, <1>4, <1>5, SameMembers DEF MemberInv

LEMMA DetachedFailsMembers ==
    ASSUME TypeOK, MemberInv, NEW r \in Request, DetachedFails(r)
    PROVE  MemberInv'
<1>1. /\ astray' = astray \union {r}
      /\ wire' \subseteq wire
      /\ \A q \in Request \ {r} : \A op \in Operation : <<op, q>> \in wire => <<op, q>> \in wire'
      /\ UNCHANGED <<member, age, paid, degraded, pc, reply>>
  BY DEF DetachedFails, Fault
<1>3. AcquiresAreFirst' /\ RepliesAreTrue'
  BY <1>1 DEF MemberInv, AcquiresAreFirst, RepliesAreTrue
<1>5. NoSilentLeak'
  <2>1. ASSUME NEW q \in member, q # r
        PROVE  \/ pc'[q] \in {"acquiring", "holding", "committing"}
               \/ \E op \in {"commit", "release"} : <<op, q>> \in wire'
               \/ q \in astray'
    BY <1>1, <2>1 DEF MemberInv, NoSilentLeak, TypeOK, Operation
  <2> QED BY <1>1, <2>1 DEF NoSilentLeak
<1>6. ServedAreMembers' /\ TokensAreCounted'
  BY <1>1 DEF MemberInv, ServedAreMembers, ServedByRedis, TokensAreCounted
<1> QED BY <1>1, <1>3, <1>5, <1>6, SameMembers DEF MemberInv

LEMMA CrashMembers ==
    ASSUME TypeOK, MemberInv, NEW h \in Replica, Crash(h)
    PROVE  MemberInv'
<1>1. /\ \A q \in Request : q \notin Lost(h) =>
             /\ pc'[q] = pc[q] /\ reply'[q] = reply[q]
             /\ \A op \in Operation : <<op, q>> \in wire => <<op, q>> \in wire'
             /\ q \in degraded' <=> q \in degraded
      /\ \A q \in Lost(h) : pc'[q] \in {"done", "answered"} /\ reply'[q] = "none"
      /\ \A q \in Lost(h) : pc'[q] = "answered" => pc[q] = "answered"
  BY DEF Crash, Lost, TypeOK
<1>2. /\ astray' = astray \union Lost(h)
      /\ wire' \subseteq wire
      /\ UNCHANGED <<member, age, paid>>
  BY DEF Crash, Lost, Fault
<1>3. AcquiresAreFirst' /\ RepliesAreTrue'
  BY <1>1, <1>2 DEF MemberInv, AcquiresAreFirst, RepliesAreTrue, TypeOK
<1>5. NoSilentLeak'
  <2>1. ASSUME NEW q \in member, q \notin Lost(h)
        PROVE  \/ pc'[q] \in {"acquiring", "holding", "committing"}
               \/ \E op \in {"commit", "release"} : <<op, q>> \in wire'
               \/ q \in astray'
    BY <1>1, <1>2, <2>1 DEF MemberInv, NoSilentLeak, TypeOK, Operation
  <2> QED BY <1>2, <2>1 DEF NoSilentLeak
<1>6. ServedAreMembers' /\ TokensAreCounted'
  BY <1>1, <1>2 DEF MemberInv, ServedAreMembers, ServedByRedis, TokensAreCounted
<1> QED BY <1>2, <1>3, <1>5, <1>6, SameMembers DEF MemberInv

LEMMA TickMembers == TypeOK /\ MemberInv /\ Tick => MemberInv'
<1>. SUFFICES ASSUME TypeOK, MemberInv, Tick PROVE MemberInv'
  OBVIOUS
<1>1. /\ \A q \in Request : age'[q] < ConcTtl => age[q] < ConcTtl
      /\ \A q \in Request : age'[q] \in 0 .. ConcTtl
      /\ \A q \in Request : age'[q] < ConcTtl => (q \in member => q \in member')
      /\ member' \subseteq member
      /\ UNCHANGED <<wire, degraded, pc, reply, paid, astray>>
  BY RedisRateLimitAssumption DEF RedisRateLimitAssumption, Tick, TypeOK
<1>2. AcquiresAreFirst' /\ RepliesAreTrue'
  BY <1>1 DEF MemberInv, AcquiresAreFirst, RepliesAreTrue
<1>3. MembersWithinLimit'
  <2>1. Pruned' \subseteq Pruned
    BY <1>1 DEF Pruned, TypeOK
  <2> QED BY <2>1, FewerMembers DEF MemberInv
<1>4. ServedAreMembers'
  BY <1>1 DEF MemberInv, ServedAreMembers, ServedByRedis
<1>5. NoSilentLeak' /\ TokensAreCounted'
  BY <1>1 DEF MemberInv, NoSilentLeak, TokensAreCounted
<1> QED BY <1>2, <1>3, <1>4, <1>5 DEF MemberInv

LEMMA StutterMembers == TypeOK /\ MemberInv /\ UNCHANGED vars => MemberInv'
<1>. SUFFICES ASSUME TypeOK, MemberInv, UNCHANGED vars PROVE MemberInv'
  OBVIOUS
<1>1. MembersWithinLimit'
  BY SameMembers DEF vars
<1> QED BY <1>1 DEF vars, MemberInv, AcquiresAreFirst, RepliesAreTrue,
                    ServedAreMembers, ServedByRedis, NoSilentLeak, TokensAreCounted

LEMMA NextMembers == TypeOK /\ MemberInv /\ [Next]_vars => MemberInv'
<1>. SUFFICES ASSUME TypeOK, MemberInv, [Next]_vars PROVE MemberInv'
  OBVIOUS
<1>. USE DEF Next, RedisRuns, Hears, Ends, Fails
<1> QED BY AcquireRunsMembers, CommitRunsMembers, ReleaseRunsMembers,
           AddTokensRunsMembers, PeekRunsMembers, AcquireMembers, AcquiredMembers,
           AcquireFailsMembers, AbandonAcquireMembers, CommitMembers,
           CommittedMembers, CommitFailsMembers, GivenBackMembers,
           DetachedFailsMembers, CrashMembers, TickMembers, StutterMembers

LEMMA MembersInvariant == Spec => [](TypeOK /\ MemberInv)
BY InitType, NextType, InitMembers, NextMembers, PTL DEF Spec

LEMMA WithinLimitOfMembers ==
    ASSUME TypeOK, MemberInv
    PROVE  ClusterConcurrency
<1>1. ServedByRedis \in SUBSET Pruned
  BY DEF MemberInv, ServedAreMembers, ServedByRedis, Pruned
<1>2. Cardinality(ServedByRedis) <= Cardinality(Pruned) /\ Cardinality(ServedByRedis) \in Nat
  BY <1>1, PrunedFinite, FS_Subset, FS_CardinalityType
<1> QED BY <1>2, PrunedFinite, RedisRateLimitAssumption
        DEF MemberInv, MembersWithinLimit, ClusterConcurrency, RedisRateLimitAssumption

\* Redis keeps the requests it admitted within the concurrency limit across all
\* replicas, for as long as their members live, through lost replies, late
\* commands, cancellations and crashes.
THEOREM ClusterConcurrencyKept == Spec => []ClusterConcurrency
BY MembersInvariant, WithinLimitOfMembers, PTL

\* No member is left in Redis but by a failed call, a crash or a client that
\* went while acquire waited.
THEOREM LeaksHaveCause == Spec => []NoSilentLeak
<1>1. MemberInv => NoSilentLeak
  BY DEF MemberInv
<1> QED BY <1>1, MembersInvariant, PTL

\* The tokens of a response whose commit returned were counted in some store.
THEOREM CommitsAreCounted == Spec => []TokensAreCounted
<1>1. MemberInv => TokensAreCounted
  BY DEF MemberInv
<1> QED BY <1>1, MembersInvariant, PTL

-----------------------------------------------------------------------------
(* What requests leave behind, and that they come to an end.               *)

\* The set has a member only until its key expires.
KeyExpires == member # {} => \E r \in Request : age[r] < ConcTtl

LEMMA NextExpires == TypeOK /\ KeyExpires /\ [Next]_vars => KeyExpires'
<1>. SUFFICES ASSUME TypeOK, KeyExpires, [Next]_vars PROVE KeyExpires'
  OBVIOUS
<1>1. ASSUME UNCHANGED age, member' \subseteq member PROVE KeyExpires'
  BY <1>1 DEF KeyExpires
<1>2. ASSUME NEW r \in Request, AcquireRuns(r) PROVE KeyExpires'
  <2>1. CASE age' = [age EXCEPT ![r] = 0]
    BY <2>1, RedisRateLimitAssumption DEF KeyExpires, TypeOK, RedisRateLimitAssumption
  <2>2. CASE member' = Pruned /\ UNCHANGED age
    BY <1>1, <2>2 DEF Pruned
  <2> QED BY <1>2, <2>1, <2>2 DEF AcquireRuns
<1>3. ASSUME NEW r \in Request,
             CommitRuns(r) \/ ReleaseRuns(r) \/ AddTokensRuns(r) \/ DetachedFails(r)
      PROVE  KeyExpires'
  BY <1>1, <1>3 DEF CommitRuns, ReleaseRuns, AddTokensRuns, DetachedFails
<1>4. ASSUME NEW r \in Request,
             Acquire(r) \/ Acquired(r) \/ AcquireFails(r) \/ AbandonAcquire(r)
      PROVE  KeyExpires'
  BY <1>1, <1>4 DEF Acquire, Acquired, AcquireFails, AbandonAcquire
<1>5. ASSUME NEW r \in Request,
             Commit(r) \/ Committed(r) \/ CommitFails(r) \/ EndStream(r) \/ Drop(r)
      PROVE  KeyExpires'
  BY <1>1, <1>5 DEF Commit, Committed, CommitFails, EndStream, Drop
<1>6. ASSUME NEW h \in Replica, Crash(h) PROVE KeyExpires'
  BY <1>1, <1>6 DEF Crash
<1>7. CASE PeekRuns \/ UNCHANGED vars
  BY <1>1, <1>7 DEF PeekRuns, Pruned, vars
<1>8. CASE Tick
  <2>1. /\ member' = IF \A r \in Request : age'[r] = ConcTtl THEN {} ELSE member
        /\ age' = [r \in Request |-> IF age[r] < ConcTtl THEN age[r] + 1 ELSE ConcTtl]
    BY <1>8 DEF Tick
  <2>2. \A r \in Request : age'[r] # ConcTtl => age'[r] < ConcTtl
    BY <2>1, RedisRateLimitAssumption DEF TypeOK, RedisRateLimitAssumption
  <2> QED BY <2>1, <2>2 DEF KeyExpires
<1> QED BY <1>2, <1>3, <1>4, <1>5, <1>6, <1>7, <1>8
        DEF Next, RedisRuns, Hears, Ends, Fails

\* When all requests are over and Redis is through with their commands, no
\* local slot is taken, every member has a call that went wrong to explain it,
\* and the key of the set is going to expire.
THEOREM QuietIsClean == Spec => []QuietStoreIsClean
<1>1. ASSUME TypeOK, SlotInv, MemberInv, KeyExpires,
             \A r \in Request : pc[r] \in {"new", "answered", "done"}, wire = {}
      PROVE  /\ \A h \in Replica : inFlight[h] = 0
             /\ member \subseteq astray
             /\ member # {} => \E r \in Request : age[r] < ConcTtl
  <2>1. degraded = {}
    BY <1>1 DEF SlotInv, DegradedAreServed, TypeOK
  <2>2. ASSUME NEW h \in Replica PROVE inFlight[h] = 0
    <3>1. {r \in degraded : Home[r] = h} = {}
      BY <2>1
    <3>2. inFlight[h] <= 0
      BY <1>1, <3>1, FS_EmptySet DEF SlotInv, NeverFailsClosed
    <3>3. inFlight[h] \in Nat
      BY <1>1 DEF TypeOK
    <3> QED BY <3>2, <3>3
  <2>3. ASSUME NEW r \in member PROVE r \in astray
    <3>1. r \in Request
      BY <1>1 DEF TypeOK
    <3>2. pc[r] \notin {"acquiring", "holding", "committing"}
      BY <1>1, <3>1
    <3> QED BY <1>1, <3>2 DEF MemberInv, NoSilentLeak
  <2> QED BY <1>1, <2>2, <2>3 DEF KeyExpires
<1>2. TypeOK /\ SlotInv /\ MemberInv /\ KeyExpires => QuietStoreIsClean
  BY <1>1 DEF QuietStoreIsClean
<1>3. Init => KeyExpires
  BY DEF Init, KeyExpires
<1> QED BY <1>2, <1>3, NextExpires, MembersInvariant, InitSlots, NextSlots, PTL DEF Spec

\* The commands on their way in the name of r.
Sent(r) == OnItsWay("acquire", r) + OnItsWay("commit", r)
               + OnItsWay("release", r) + OnItsWay("add_tokens", r)

LEMMA RemainingIs ==
    ASSUME NEW r
    PROVE  /\ Sent(r) \in Nat /\ StepsBefore(pc[r]) \in Nat
           /\ Remaining(r) = StepsBefore(pc[r]) + Sent(r)
BY DEF Remaining, Sent, OnItsWay, StepsBefore

\* Nothing of r changes, or there is less of it.
LEMMA OfOthers ==
    ASSUME NEW r, pc'[r] = pc[r], \A op \in Operation : <<op, r>> \in wire' => <<op, r>> \in wire
    PROVE  Remaining(r)' <= Remaining(r)
BY DEF Remaining, OnItsWay, StepsBefore, Operation

\* A command of r is gone.
LEMMA OneFewer ==
    ASSUME NEW r, NEW op \in Operation, <<op, r>> \in wire, wire' = wire \ {<<op, r>>},
           UNCHANGED pc
    PROVE  Remaining(r)' < Remaining(r)
<1>1. \A o \in Operation : <<o, r>> \in wire' <=> o # op /\ <<o, r>> \in wire
  OBVIOUS
<1> QED BY <1>1 DEF Remaining, OnItsWay, StepsBefore, Operation

\* Request r goes on, and sends at most n commands.
LEMMA GoesOn ==
    ASSUME NEW r, NEW n \in Nat, Sent(r)' <= Sent(r) + n,
           StepsBefore(pc'[r]) + n < StepsBefore(pc[r])
    PROVE  Remaining(r)' < Remaining(r)
<1>1. Sent(r) \in Nat /\ Sent(r)' \in Nat
  BY DEF Sent, OnItsWay
<1>2. StepsBefore(pc[r]) \in Nat /\ StepsBefore(pc'[r]) \in Nat
  BY DEF StepsBefore
<1>3. /\ Remaining(r) = StepsBefore(pc[r]) + Sent(r)
      /\ Remaining(r)' = StepsBefore(pc'[r]) + Sent(r)'
  BY DEF Remaining, Sent, OnItsWay, StepsBefore
<1> QED BY <1>1, <1>2, <1>3

\* What a request does, or happens to it, is of no other.
Only(r) == \A q \in Request : q # r => Remaining(q)' = Remaining(q)

LEMMA OnlyOf ==
    ASSUME NEW r \in Request, \A q \in Request : q # r => pc'[q] = pc[q],
           \A op \in Operation, q \in Request : q # r => (<<op, q>> \in wire' <=> <<op, q>> \in wire)
    PROVE  Only(r)
BY DEF Only, Remaining, OnItsWay, StepsBefore, Operation

LEMMA RedisRunsDown ==
    ASSUME NEW r \in Request, RedisRuns(r) \/ DetachedFails(r)
    PROVE  Only(r) /\ Remaining(r)' < Remaining(r)
<1>1. PICK op \in Operation : <<op, r>> \in wire /\ wire' = wire \ {<<op, r>>}
  BY DEF RedisRuns, AcquireRuns, CommitRuns, ReleaseRuns, AddTokensRuns, DetachedFails, Operation
<1>2. UNCHANGED pc
  BY DEF RedisRuns, AcquireRuns, CommitRuns, ReleaseRuns, AddTokensRuns, DetachedFails
<1> QED BY <1>1, <1>2, OneFewer, OnlyOf

LEMMA HearsDown ==
    ASSUME TypeOK, NEW r \in Request, Hears(r)
    PROVE  Only(r) /\ Remaining(r)' < Remaining(r)
<1>1. /\ UNCHANGED wire
      /\ \A q \in Request : q # r => pc'[q] = pc[q]
      /\ \/ pc[r] = "acquiring" /\ pc'[r] \in {"holding", "done"}
         \/ pc[r] = "committing" /\ pc'[r] = "answered"
  BY DEF Hears, Acquired, Committed, TypeOK
<1>2. StepsBefore(pc'[r]) + 0 < StepsBefore(pc[r]) /\ Sent(r)' <= Sent(r) + 0
  BY <1>1 DEF StepsBefore, Sent, OnItsWay
<1> QED BY <1>1, <1>2, GoesOn, OnlyOf

LEMMA FailsDown ==
    ASSUME TypeOK, NEW r \in Request, AcquireFails(r) \/ AbandonAcquire(r) \/ CommitFails(r)
    PROVE  Only(r) /\ Remaining(r)' < Remaining(r)
<1>1. /\ wire' = wire \/ \E op \in Operation : wire' = wire \ {<<op, r>>}
      /\ \A q \in Request : q # r => pc'[q] = pc[q]
      /\ \/ pc[r] \in {"new", "acquiring"} /\ pc'[r] \in {"holding", "done"}
         \/ pc[r] = "committing" /\ pc'[r] = "answered"
  BY DEF AcquireFails, AbandonAcquire, CommitFails, FallBack, Unanswered, Operation, TypeOK
<1>2. StepsBefore(pc'[r]) + 0 < StepsBefore(pc[r]) /\ Sent(r)' <= Sent(r) + 0
  BY <1>1 DEF StepsBefore, Sent, OnItsWay
<1>3. \A op \in Operation, q \in Request : q # r => (<<op, q>> \in wire' <=> <<op, q>> \in wire)
  BY <1>1
<1> QED BY <1>1, <1>2, <1>3, GoesOn, OnlyOf

LEMMA SendsDown ==
    ASSUME TypeOK, NEW r \in Request, Acquire(r) \/ Ends(r)
    PROVE  Only(r) /\ Remaining(r)' < Remaining(r)
<1>1. PICK ops \in SUBSET Operation, n \in {1, 2} :
        /\ wire' = wire \union {<<op, r>> : op \in ops}
        /\ \A q \in Request : q # r => pc'[q] = pc[q]
        /\ ops \in {{"acquire"}, {"commit"}, {"release"}} \/ (n = 2 /\ ops = {"release", "add_tokens"})
        /\ \/ pc[r] = "new" /\ pc'[r] = "acquiring" /\ n = 1
           \/ pc[r] = "holding" /\ pc'[r] = "committing" /\ n = 1
           \/ pc[r] \in {"holding", "committing"} /\ pc'[r] = "done" /\ n = 1
           \/ pc[r] = "holding" /\ pc'[r] = "done" /\ n = 2
  <2>1. CASE Acquire(r)
    <3>1. wire' = wire \union {<<op, r>> : op \in {"acquire"}}
      BY <2>1 DEF Acquire, Send
    <3>2. /\ \A q \in Request : q # r => pc'[q] = pc[q]
          /\ pc[r] = "new" /\ pc'[r] = "acquiring"
      BY <2>1 DEF Acquire, TypeOK
    <3> QED BY <3>1, <3>2 DEF Operation
  <2>2. CASE Commit(r)
    <3>1. wire' = wire \union {<<op, r>> : op \in {"commit"}}
      BY <2>2 DEF Commit, Send
    <3>2. /\ \A q \in Request : q # r => pc'[q] = pc[q]
          /\ pc[r] = "holding" /\ pc'[r] = "committing"
      BY <2>2 DEF Commit, TypeOK
    <3> QED BY <3>1, <3>2 DEF Operation
  <2>3. CASE Drop(r)
    <3>1. wire' = wire \union {<<op, r>> : op \in {"release"}}
      BY <2>3 DEF Drop, Send
    <3>2. /\ \A q \in Request : q # r => pc'[q] = pc[q]
          /\ pc[r] \in {"holding", "committing"} /\ pc'[r] = "done"
      BY <2>3 DEF Drop, TypeOK
    <3> QED BY <3>1, <3>2 DEF Operation
  <2>4. CASE EndStream(r)
    <3>1. \/ wire' = wire \union {<<op, r>> : op \in {"release"}}
          \/ wire' = wire \union {<<op, r>> : op \in {"release", "add_tokens"}}
      <4>1. \/ wire' = wire \union ({<<"release", r>>} \union {})
            \/ wire' = wire \union ({<<"release", r>>} \union {<<"add_tokens", r>>})
        BY <2>4 DEF EndStream, Send
      <4> QED BY <4>1
    <3>2. /\ \A q \in Request : q # r => pc'[q] = pc[q]
          /\ pc[r] = "holding" /\ pc'[r] = "done"
      BY <2>4 DEF EndStream, TypeOK
    <3> QED BY <3>1, <3>2 DEF Operation
  <2> QED BY <2>1, <2>2, <2>3, <2>4 DEF Ends
<1>2. StepsBefore(pc'[r]) + n < StepsBefore(pc[r])
  BY <1>1 DEF StepsBefore
<1>3. \A op \in Operation : <<op, r>> \in wire' <=> op \in ops \/ <<op, r>> \in wire
  BY <1>1
<1>4. Sent(r)' <= Sent(r) + n
  BY <1>1, <1>3 DEF Sent, OnItsWay, Operation
<1>5. \A op \in Operation, q \in Request : q # r => (<<op, q>> \in wire' <=> <<op, q>> \in wire)
  BY <1>1
<1> QED BY <1>1, <1>2, <1>4, <1>5, GoesOn, OnlyOf

LEMMA CrashDown ==
    ASSUME TypeOK, NEW h \in Replica, Crash(h), NEW r \in Request
    PROVE  Remaining(r)' <= Remaining(r)
<1>1. wire' \subseteq wire /\ pc'[r] \in {pc[r], "done"}
  BY DEF Crash
<1> QED BY <1>1 DEF Remaining, OnItsWay, StepsBefore

\* A request takes seven steps at the most, those of its commands included, and
\* after each of them, its own, of Redis or a failure, it has fewer left.
THEOREM RequestsAlwaysWindDown == Spec => RequestsWindDown
<1> DEFINE Down == \A r \in Request :
         /\ Remaining(r)' <= Remaining(r)
         /\ Acquire(r) \/ RedisRuns(r) \/ Hears(r) \/ Ends(r) \/ Fails(r)
                => Remaining(r)' < Remaining(r)
<1>0. \A r \in Request : Remaining(r) \in Nat /\ Remaining(r)' \in Nat
  BY DEF Remaining, OnItsWay, StepsBefore
<1>1. ASSUME TypeOK, NEW r \in Request,
             Acquire(r) \/ RedisRuns(r) \/ Hears(r) \/ Ends(r) \/ Fails(r)
      PROVE  Only(r) /\ Remaining(r)' < Remaining(r)
  BY <1>1, RedisRunsDown, HearsDown, FailsDown, SendsDown DEF Fails
<1>2. ASSUME TypeOK, [Next]_vars, NEW r \in Request PROVE Remaining(r)' <= Remaining(r)
  <2>1. ASSUME NEW q \in Request,
               Acquire(q) \/ RedisRuns(q) \/ Hears(q) \/ Ends(q) \/ Fails(q)
        PROVE  Remaining(r)' <= Remaining(r)
    BY <1>0, <1>1, <1>2, <2>1 DEF Only
  <2>2. ASSUME NEW h \in Replica, Crash(h) PROVE Remaining(r)' <= Remaining(r)
    BY <1>2, <2>2, CrashDown
  <2>3. ASSUME PeekRuns \/ Tick \/ UNCHANGED vars PROVE Remaining(r)' <= Remaining(r)
    <3>1. UNCHANGED <<wire, pc>>
      BY <2>3 DEF PeekRuns, Tick, vars
    <3> QED BY <3>1, OfOthers
  <2> QED BY <1>2, <2>1, <2>2, <2>3 DEF Next
<1>3. TypeOK /\ [Next]_vars => [Down]_vars
  BY <1>1, <1>2
<1> QED BY <1>3, TypeCorrect, PTL DEF Spec, RequestsWindDown
=============================================================================
