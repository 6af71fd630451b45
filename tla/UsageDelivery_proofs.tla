------------------------ MODULE UsageDelivery_proofs ------------------------
(***************************************************************************)
(* Proofs about UsageDelivery for any number of records, any capacities,   *)
(* budgets and timeouts, and, but for the last theorem, any fleets and     *)
(* rollouts.                                                               *)
(***************************************************************************)
EXTENDS UsageDelivery, FiniteSetTheorems, TLAPS

USE DEF billVars, cpVars, emitVars, batchVars, ackVars, stopVars, LoopFrame

-----------------------------------------------------------------------------
(* Type correctness.                                                       *)

LEMMA InitType == Init => TypeOK
<1>. SUFFICES ASSUME Init PROVE TypeOK
  OBVIOUS
<1>1. fleet \in Fleet
  BY UsageAssumption DEF UsageAssumption, Init
<1>2. /\ Cardinality(queue) <= QueueCapacity /\ Cardinality(buffer) < MaxBatch
      /\ Cardinality(batch) <= MaxBatch
  BY UsageAssumption, FS_EmptySet DEF UsageAssumption, Init
<1>3. /\ age \in [Event -> 0 .. AgeCap]
      /\ left \in 0 .. RetryBudget /\ wait \in Nat
      /\ backoff \in 0 .. MaxBackoff /\ refusals \in 0 .. MaxAnswered - 1
  BY UsageAssumption DEF UsageAssumption, Init, AgeCap
<1>4. /\ senders \in BOOLEAN /\ final \in BOOLEAN /\ dedupSeen \in BOOLEAN
      /\ cancel \in BOOLEAN /\ unseen \in BOOLEAN
  BY DEF Init
<1>5. pc \in Stage /\ resume \in {"select", "draining", "exiting"}
  BY DEF Init, Stage
<1>6. /\ rows \in [Event -> Nat] /\ recorded = {} /\ strays = {}
      /\ unkept = {} /\ vouched = {}
      /\ dropped \in [Event -> Nat]
      /\ emitted = {} /\ late = {} /\ queue = {} /\ buffer = {} /\ batch = {} /\ acked = {}
  BY DEF Init
<1> QED BY <1>1, <1>2, <1>3, <1>4, <1>5, <1>6 DEF TypeOK

LEMMA EventSetsFinite ==
    \A s \in SUBSET Event : IsFiniteSet(s) /\ Cardinality(s) \in Nat
BY UsageAssumption, FS_Subset, FS_CardinalityType DEF UsageAssumption

LEMMA CommitType ==
    ASSUME TypeOK, NEW b \in SUBSET Event, NEW dedup \in BOOLEAN, Commit(b, dedup)
    PROVE  /\ rows' \in [Event -> Nat] /\ recorded' \subseteq SUBSET Event
           /\ unkept' \subseteq Event
BY DEF TypeOK, Commit

LEMMA CountType ==
    ASSUME TypeOK, NEW b \in SUBSET Event, Count(b)
    PROVE  dropped' \in [Event -> Nat]
BY DEF TypeOK, Count

LEMMA StrayType ==
    TypeOK /\ (Stray \/ UNCHANGED strays)
       => strays' \subseteq [batch : SUBSET Event, left : 0 .. MaxStray, last : BOOLEAN]
<1>. SUFFICES ASSUME TypeOK, Stray
              PROVE  [batch |-> batch, left |-> MaxStray, last |-> final]
                       \in [batch : SUBSET Event, left : 0 .. MaxStray, last : BOOLEAN]
  BY DEF TypeOK, Stray
<1> QED BY UsageAssumption DEF UsageAssumption, TypeOK

LEMMA FleetType == TypeOK => fleet \subseteq BOOLEAN
<1>1. Old \subseteq BOOLEAN
  BY DEF Old
<1>2. New \subseteq BOOLEAN
  BY DEF New
<1>3. Mixed \subseteq BOOLEAN
  BY DEF Mixed
<1> QED BY <1>1, <1>2, <1>3 DEF TypeOK, Fleet

Resume == {"select", "draining", "exiting"}

BatchType ==
    /\ batch \subseteq Event /\ Cardinality(batch) <= MaxBatch
    /\ resume \in Resume
    /\ left \in 0 .. RetryBudget /\ wait \in Nat
    /\ backoff \in 0 .. MaxBackoff /\ refusals \in 0 .. MaxAnswered - 1
    /\ final \in BOOLEAN

LEMMA BatchOfType == TypeOK => BatchType
BY DEF TypeOK, BatchType, Resume

LEMMA ReturnType ==
    ASSUME NEW to \in Resume, Return(to)
    PROVE  pc' \in Stage
BY DEF Return, Resume, Stage

LEMMA FreeType == Free => BatchType'
<1>. SUFFICES ASSUME Free PROVE BatchType'
  OBVIOUS
<1>1. batch' = {} /\ Cardinality(batch') <= MaxBatch
  BY UsageAssumption, FS_EmptySet DEF UsageAssumption, Free
<1>2. /\ left' \in 0 .. RetryBudget /\ wait' \in Nat
      /\ backoff' \in 0 .. MaxBackoff /\ refusals' \in 0 .. MaxAnswered - 1
  BY UsageAssumption DEF UsageAssumption, Free
<1> QED BY <1>1, <1>2 DEF Free, BatchType, Resume

LEMMA DeliverType ==
    ASSUME TypeOK, NEW b \in SUBSET Event, Cardinality(b) <= MaxBatch,
           NEW to \in Resume, NEW last \in BOOLEAN, Deliver(b, to, last)
    PROVE  /\ BatchType' /\ pc' \in Stage /\ buffer' = {}
           /\ dropped' \in [Event -> Nat]
<1>. PICK n \in 0 .. RetryBudget :
         IF n = 0
         THEN Count(b) /\ Return(to) /\ UNCHANGED batchVars
         ELSE /\ Attempt
              /\ resume' = to /\ batch' = b /\ left' = n
              /\ backoff' = InitialBackoff /\ refusals' = 0 /\ final' = last
              /\ UNCHANGED dropped
  BY DEF Deliver
<1>1. CASE n = 0
  BY <1>1, CountType, ReturnType, BatchOfType DEF Deliver, BatchType
<1>2. CASE n # 0
  <2>1. pc' \in Stage /\ wait' \in Nat
    BY <1>2, UsageAssumption DEF UsageAssumption, Attempt, Stage
  <2>2. /\ left' \in 0 .. RetryBudget /\ backoff' \in 0 .. MaxBackoff
        /\ refusals' \in 0 .. MaxAnswered - 1
    BY <1>2, UsageAssumption DEF UsageAssumption
  <2>3. /\ batch' = b /\ resume' = to /\ final' = last /\ dropped' = dropped
        /\ buffer' = {}
    BY <1>2 DEF Deliver
  <2> QED BY <2>1, <2>2, <2>3 DEF BatchType, TypeOK
<1> QED BY <1>1, <1>2

LEMMA FailureType ==
    ASSUME TypeOK, NEW answered \in BOOLEAN, NEW may, Failure(answered, may)
    PROVE  /\ BatchType' /\ pc' \in Stage /\ UNCHANGED <<buffer, acked, vouched>>
           /\ dropped' \in [Event -> Nat]
<1>. DEFINE refused == refusals + IF answered THEN 1 ELSE 0
<1>. USE DEF Failure
<1>1. CASE ~may \/ final \/ refused >= MaxAnswered \/ left = 0
  <2>1. Count(batch) /\ Return(resume) /\ Free /\ UNCHANGED <<buffer, acked>>
    BY <1>1
  <2> QED BY <2>1, CountType, ReturnType, FreeType DEF TypeOK, Resume
<1>2. CASE ~(~may \/ final \/ refused >= MaxAnswered \/ left = 0)
  <2>1. /\ pc' = "backoff" /\ wait' = Least(backoff, left) /\ refusals' = refused
        /\ UNCHANGED <<dropped, resume, batch, left, backoff, final, buffer, acked>>
    BY <1>2
  <2>2. wait' \in Nat /\ refusals' \in 0 .. MaxAnswered - 1
    BY <1>2, <2>1, UsageAssumption DEF UsageAssumption, TypeOK, Least
  <2> QED BY <2>1, <2>2 DEF TypeOK, BatchType, Resume, Stage
<1> QED BY <1>1, <1>2

LEMMA FewerQueued ==
    ASSUME TypeOK, queue' \subseteq queue
    PROVE  queue' \subseteq Event /\ Cardinality(queue') <= QueueCapacity
<1>1. Cardinality(queue') <= Cardinality(queue)
  BY EventSetsFinite, FS_Subset DEF TypeOK
<1> QED BY <1>1, EventSetsFinite, UsageAssumption DEF UsageAssumption, TypeOK

LEMMA EmptyBuffer == Cardinality({}) < MaxBatch
BY FS_EmptySet, UsageAssumption DEF UsageAssumption

\* A batch is filled up to its maximum at most, and is empty only if nothing is
\* left to put in it.
LEMMA FilledType ==
    ASSUME TypeOK, NEW b \in Filled
    PROVE  /\ b \in SUBSET Event /\ Cardinality(b) <= MaxBatch
           /\ buffer \subseteq b /\ b \subseteq buffer \union queue
           /\ b = {} => queue = {}
<1>. PICK s \in SUBSET queue :
         /\ Cardinality(s) = Least(Cardinality(queue), MaxBatch - Cardinality(buffer))
         /\ b = buffer \union s
  BY DEF Filled
<1>1. /\ Cardinality(s) \in Nat /\ Cardinality(buffer) \in Nat
      /\ Cardinality(queue) \in Nat
      /\ IsFiniteSet(s) /\ IsFiniteSet(buffer) /\ IsFiniteSet(queue)
  BY EventSetsFinite DEF TypeOK
<1>2. Cardinality(s) <= MaxBatch - Cardinality(buffer)
  BY <1>1, UsageAssumption DEF UsageAssumption, TypeOK, Least
<1>3. Cardinality(b) <= Cardinality(buffer) + Cardinality(s)
  <2>1. /\ Cardinality(buffer \union s) =
             Cardinality(buffer) + Cardinality(s) - Cardinality(buffer \intersect s)
        /\ Cardinality(buffer \intersect s) \in Nat
    BY <1>1, FS_Union, FS_Intersection, FS_CardinalityType
  <2> QED BY <1>1, <2>1
<1>4. b \in SUBSET Event /\ Cardinality(b) \in Nat
  BY EventSetsFinite DEF TypeOK
<1>5. b = {} => queue = {}
  <2>1. SUFFICES ASSUME b = {} PROVE queue = {}
    OBVIOUS
  <2>2. Cardinality(s) = 0 /\ Cardinality(buffer) = 0
    BY <2>1, FS_EmptySet
  <2>3. Cardinality(queue) = 0
    BY <2>2, <1>1, UsageAssumption DEF UsageAssumption, Least
  <2> QED BY <2>3, <1>1, FS_EmptySet
<1> QED BY <1>1, <1>2, <1>3, <1>4, <1>5, UsageAssumption DEF UsageAssumption

LEMMA EmitType == ASSUME TypeOK, NEW e \in Event, Emit(e) PROVE TypeOK'
<1>1. CASE pc # "stopped" /\ Cardinality(queue) < QueueCapacity
  <2>1. Cardinality(queue \union {e}) <= Cardinality(queue) + 1
    BY EventSetsFinite, FS_AddElement DEF TypeOK
  <2>2. queue' = queue \union {e} /\ Cardinality(queue') <= QueueCapacity
    <3>1. Cardinality(queue) \in Nat /\ Cardinality(queue \union {e}) \in Nat
      BY EventSetsFinite DEF TypeOK
    <3>2. queue' = queue \union {e}
      BY <1>1 DEF Emit
    <3> QED BY <1>1, <2>1, <3>1, <3>2, UsageAssumption DEF UsageAssumption
  <2>3. queue' \subseteq Event /\ emitted' \subseteq Event /\ late' \subseteq Event
    BY <1>1, <2>2 DEF TypeOK, Emit
  <2>4. UNCHANGED <<dropped, senders>>
    BY <1>1 DEF Emit
  <2> QED BY <2>2, <2>3, <2>4 DEF TypeOK, Emit
<1>2. CASE ~(pc # "stopped" /\ Cardinality(queue) < QueueCapacity)
  BY <1>2 DEF TypeOK, Emit
<1> QED BY <1>1, <1>2

LEMMA EnvironmentType ==
    ASSUME TypeOK, Shutdown \/ HandlersGone \/ Rollout \/ UNCHANGED vars
    PROVE  TypeOK'
BY DEF TypeOK, Shutdown, HandlersGone, Rollout, vars

LEMMA StrayLandsType == ASSUME TypeOK, NEW s \in strays, StrayLands(s) PROVE TypeOK'
<1>1. s.batch \in SUBSET Event
  BY DEF TypeOK
<1>2. rows' \in [Event -> Nat] /\ recorded' \subseteq SUBSET Event /\ unkept' \subseteq Event
  BY <1>1, CommitType, FleetType DEF StrayLands
<1> QED BY <1>2 DEF TypeOK, StrayLands

LEMMA DeliveredType == TypeOK /\ Delivered => TypeOK'
<1>. SUFFICES ASSUME TypeOK, Delivered PROVE TypeOK'
  OBVIOUS
<1>1. /\ rows' \in [Event -> Nat] /\ recorded' \subseteq SUBSET Event
      /\ unkept' \subseteq Event /\ dedupSeen' \in BOOLEAN
  BY CommitType, FleetType DEF Delivered, TypeOK
<1>2. BatchType' /\ pc' \in Stage
  BY FreeType, ReturnType DEF Delivered, TypeOK, Resume
<1> QED BY <1>1, <1>2 DEF TypeOK, Delivered, BatchType, Resume

LEMMA RefusedType == TypeOK /\ Refused => TypeOK'
<1>. SUFFICES ASSUME TypeOK, Refused PROVE TypeOK'
  OBVIOUS
<1>. PICK dedup \in fleet, retryable \in BOOLEAN, wrote \in RefusedWrites :
         /\ IF wrote THEN Commit(batch, dedup) ELSE UNCHANGED billVars
         /\ dedupSeen' = dedup
         /\ Failure(TRUE, dedup /\ retryable)
  BY DEF Refused
<1>1. /\ rows' \in [Event -> Nat] /\ recorded' \subseteq SUBSET Event
      /\ unkept' \subseteq Event /\ dedupSeen' \in BOOLEAN
  BY CommitType, FleetType DEF TypeOK
<1>2. /\ BatchType' /\ pc' \in Stage /\ UNCHANGED <<buffer, acked, vouched>>
      /\ dropped' \in [Event -> Nat]
  BY FailureType
<1> QED BY <1>1, <1>2 DEF TypeOK, Refused, BatchType, Resume

LEMMA AnsweredOnTheWayType == TypeOK /\ AnsweredOnTheWay => TypeOK'
BY FailureType, StrayType DEF TypeOK, AnsweredOnTheWay, BatchType, Resume

LEMMA UnansweredType == TypeOK /\ Unanswered => TypeOK'
BY FailureType, StrayType DEF TypeOK, Unanswered, BatchType, Resume

LEMMA ResendType == TypeOK /\ Resend => TypeOK'
<1>. SUFFICES ASSUME TypeOK, Resend PROVE TypeOK'
  OBVIOUS
<1>1. wait' \in Nat /\ backoff' \in 0 .. MaxBackoff /\ pc' \in Stage
  BY UsageAssumption DEF UsageAssumption, TypeOK, Resend, Attempt, Least, Stage
<1>2. final' \in BOOLEAN /\ unseen' \in BOOLEAN
  BY DEF TypeOK, Resend
<1> QED BY <1>1, <1>2 DEF TypeOK, Resend

LEMMA ReceiveType == TypeOK /\ Receive => TypeOK'
<1>. SUFFICES ASSUME TypeOK, Receive PROVE TypeOK'
  OBVIOUS
<1>. PICK e \in queue :
         /\ queue' = queue \ {e}
         /\ IF Cardinality(buffer) + 1 >= MaxBatch
            THEN Deliver(buffer \union {e}, "select", FALSE)
            ELSE /\ buffer' = buffer \union {e}
                 /\ Return("select")
                 /\ UNCHANGED <<batchVars, dropped>>
  BY DEF Receive
<1>1. queue' \subseteq Event /\ Cardinality(queue') <= QueueCapacity
  BY FewerQueued
<1>2. /\ Cardinality(buffer \union {e}) <= Cardinality(buffer) + 1
      /\ Cardinality(buffer \union {e}) \in Nat /\ Cardinality(buffer) \in Nat
      /\ buffer \union {e} \in SUBSET Event
  BY SMTT(30), EventSetsFinite, FS_AddElement DEF TypeOK
<1>3. /\ BatchType' /\ pc' \in Stage /\ dropped' \in [Event -> Nat]
      /\ buffer' \subseteq Event /\ Cardinality(buffer') < MaxBatch
  <2>1. CASE Cardinality(buffer) + 1 >= MaxBatch
    <3>1. Cardinality(buffer \union {e}) <= MaxBatch
      BY <1>2, UsageAssumption DEF UsageAssumption, TypeOK
    <3> QED BY <2>1, <3>1, <1>2, DeliverType, EmptyBuffer DEF Resume
  <2>2. CASE ~(Cardinality(buffer) + 1 >= MaxBatch)
    <3>1. Cardinality(buffer') < MaxBatch
      BY SMTT(30), <1>2, <2>2, UsageAssumption DEF UsageAssumption
    <3> QED BY <1>2, <2>2, <3>1, ReturnType, BatchOfType DEF TypeOK, BatchType, Resume
  <2> QED BY <2>1, <2>2
<1> QED BY <1>1, <1>3 DEF TypeOK, Receive, BatchType, Resume

LEMMA BufferDelivered ==
    ASSUME TypeOK
    PROVE  buffer \in SUBSET Event /\ Cardinality(buffer) <= MaxBatch
BY EventSetsFinite, UsageAssumption DEF UsageAssumption, TypeOK

LEMMA ReceiveNoneType == TypeOK /\ ReceiveNone => TypeOK'
<1>. SUFFICES ASSUME TypeOK, ReceiveNone PROVE TypeOK'
  OBVIOUS
<1>1. CASE buffer = {}
  BY <1>1 DEF TypeOK, ReceiveNone, Stage
<1>2. CASE buffer # {}
  <2>1. BatchType' /\ pc' \in Stage /\ buffer' = {} /\ dropped' \in [Event -> Nat]
    BY <1>2, DeliverType, BufferDelivered DEF ReceiveNone, Resume
  <2> QED BY <1>2, <2>1, EmptyBuffer DEF TypeOK, ReceiveNone, BatchType, Resume
<1> QED BY <1>1, <1>2

LEMMA FlushTickType == TypeOK /\ FlushTick => TypeOK'
<1>. SUFFICES ASSUME TypeOK, FlushTick PROVE TypeOK'
  OBVIOUS
<1>1. PICK b \in Filled : queue' = queue \ b /\ Deliver(b, "select", FALSE)
  BY DEF FlushTick
<1>2. BatchType' /\ pc' \in Stage /\ buffer' = {} /\ dropped' \in [Event -> Nat]
  BY <1>1, FilledType, DeliverType DEF Resume
<1>3. queue' \subseteq Event /\ Cardinality(queue') <= QueueCapacity
  BY <1>1, FewerQueued
<1> QED BY <1>2, <1>3, EmptyBuffer DEF TypeOK, FlushTick, BatchType, Resume

LEMMA CancelChangedType == TypeOK /\ CancelChanged => TypeOK'
BY ReturnType DEF TypeOK, CancelChanged, Resume

LEMMA DrainType == TypeOK /\ Drain => TypeOK'
<1>. SUFFICES ASSUME TypeOK, Drain PROVE TypeOK'
  OBVIOUS
<1>. PICK b \in Filled :
         /\ queue' = queue \ b
         /\ IF b = {}
            THEN pc' = "exiting" /\ UNCHANGED <<buffer, batchVars, dropped>>
            ELSE Deliver(b, "draining", TRUE)
  BY DEF Drain
<1>1. queue' \subseteq Event /\ Cardinality(queue') <= QueueCapacity
  BY FewerQueued
<1>2. CASE b = {}
  BY <1>1, <1>2 DEF TypeOK, Drain, Stage
<1>3. CASE b # {}
  <2>1. BatchType' /\ pc' \in Stage /\ buffer' = {} /\ dropped' \in [Event -> Nat]
    BY <1>3, FilledType, DeliverType DEF Resume
  <2> QED BY <1>1, <2>1, EmptyBuffer DEF TypeOK, Drain, BatchType, Resume
<1> QED BY <1>2, <1>3

LEMMA ExitType == TypeOK /\ Exit => TypeOK'
<1>. SUFFICES ASSUME TypeOK, Exit PROVE TypeOK'
  OBVIOUS
<1>1. queue' \subseteq Event /\ Cardinality(queue') <= QueueCapacity
  BY FewerQueued DEF Exit
<1> QED BY <1>1 DEF TypeOK, Exit, Stage

LEMMA TickType == TypeOK /\ Tick => TypeOK'
<1>. SUFFICES ASSUME TypeOK, Tick PROVE TypeOK'
  OBVIOUS
<1>1. age' \in [Event -> 0 .. AgeCap]
  BY UsageAssumption DEF UsageAssumption, TypeOK, Tick, Least, AgeCap
<1>2. left' \in 0 .. RetryBudget /\ wait' \in Nat
  BY UsageAssumption DEF UsageAssumption, TypeOK, Tick, Before
<1>3. strays' \subseteq [batch : SUBSET Event, left : 0 .. MaxStray, last : BOOLEAN]
  <2>. SUFFICES ASSUME NEW s \in strays, s.left > 0
                PROVE  [s EXCEPT !.left = @ - 1]
                         \in [batch : SUBSET Event, left : 0 .. MaxStray, last : BOOLEAN]
    BY DEF Tick
  <2> QED BY UsageAssumption DEF UsageAssumption, TypeOK
<1> QED BY <1>1, <1>2, <1>3 DEF TypeOK, Tick

LEMMA NextType == TypeOK /\ [Next]_vars => TypeOK'
<1>. SUFFICES ASSUME TypeOK, [Next]_vars PROVE TypeOK'
  OBVIOUS
<1> QED BY EmitType, EnvironmentType, StrayLandsType, DeliveredType, RefusedType,
           AnsweredOnTheWayType, UnansweredType, ResendType, ReceiveType,
           ReceiveNoneType, FlushTickType, CancelChangedType, DrainType, ExitType,
           TickType
        DEF Next, WorkerStep, AttemptEnds

\* Every state is made of values of the right kind: in particular the queue and
\* the batches stay within their limits, whatever is filled, drained or retried.
THEOREM TypeCorrect == Spec => []TypeOK
BY InitType, NextType, PTL DEF Spec
-----------------------------------------------------------------------------
(* The shape of the steps.                                                 *)

\* deliver gives the batch up at once, or goes on to post it.
LEMMA DeliverShape ==
    ASSUME NEW b, NEW to, NEW last, Deliver(b, to, last)
    PROVE  /\ buffer' = {}
           /\ \/ Count(b) /\ Return(to) /\ UNCHANGED batchVars
              \/ pc' = "sending" /\ batch' = b /\ resume' = to /\ UNCHANGED dropped
BY DEF Deliver, Attempt

\* A failed attempt gives the batch up, or leads to the next one.
LEMMA FailureShape ==
    ASSUME NEW answered, NEW may, Failure(answered, may)
    PROVE  /\ UNCHANGED <<acked, buffer>>
           /\ \/ Count(batch) /\ Return(resume) /\ batch' = {} /\ resume' = "select"
              \/ pc' = "backoff" /\ UNCHANGED <<dropped, resume, batch>>
BY DEF Failure, Free

\* What the stages of the worker say about what it holds.
StageInv ==
    /\ batch # {} => pc \in {"sending", "backoff"}
    /\ pc \in {"sending", "backoff", "exiting", "stopped"} => buffer = {}
    /\ pc = "exiting" => queue \subseteq late
    /\ pc = "stopped" => queue = {}
    /\ pc \in {"sending", "backoff"} /\ resume = "exiting" => ~senders /\ queue = {}

LEMMA InitStage == Init => StageInv
BY DEF Init, StageInv

LEMMA DeliverStage ==
    ASSUME TypeOK, StageInv, NEW b, NEW to \in Resume, NEW last, Deliver(b, to, last),
           pc \in {"select", "draining"}, UNCHANGED <<senders, late>>,
           to = "exiting" => ~senders /\ queue' = {}
    PROVE  StageInv'
<1>1. batch = {}
  BY DEF StageInv
<1>2. CASE Return(to) /\ UNCHANGED batchVars
  BY <1>1, <1>2, DeliverShape DEF StageInv, Return, Resume
<1>3. CASE pc' = "sending" /\ batch' = b /\ resume' = to
  BY <1>3, DeliverShape DEF StageInv
<1> QED BY <1>2, <1>3, DeliverShape

LEMMA FailureStage ==
    ASSUME TypeOK, StageInv, pc = "sending", NEW answered, NEW may,
           Failure(answered, may), UNCHANGED <<senders, late, queue>>
    PROVE  StageInv'
<1>1. CASE Return(resume) /\ batch' = {}
  BY <1>1, FailureShape DEF TypeOK, StageInv, Return
<1>2. CASE pc' = "backoff" /\ UNCHANGED <<dropped, resume, batch>>
  BY <1>2, FailureShape DEF StageInv
<1> QED BY <1>1, <1>2, FailureShape

LEMMA NextStage == TypeOK /\ StageInv /\ [Next]_vars => StageInv'
<1>. SUFFICES ASSUME TypeOK, StageInv, [Next]_vars PROVE StageInv'
  OBVIOUS
<1>1. ASSUME NEW e \in Event, Emit(e) PROVE StageInv'
  BY <1>1 DEF Emit, StageInv
<1>2. CASE Shutdown \/ HandlersGone \/ Rollout \/ Tick \/ UNCHANGED vars
  BY <1>2 DEF Shutdown, HandlersGone, Rollout, Tick, vars, StageInv
<1>3. ASSUME NEW s \in strays, StrayLands(s) PROVE StageInv'
  BY <1>3 DEF StrayLands, StageInv
<1>4. CASE Delivered
  BY <1>4 DEF Delivered, Free, Return, StageInv, TypeOK
<1>5. CASE Refused \/ AnsweredOnTheWay \/ Unanswered
  BY <1>5, FailureStage DEF Refused, AnsweredOnTheWay, Unanswered
<1>6. CASE Resend
  BY <1>6 DEF Resend, Attempt, StageInv
<1>7. CASE Receive
  <2>1. PICK e \in queue :
           /\ queue' = queue \ {e}
           /\ IF Cardinality(buffer) + 1 >= MaxBatch
              THEN Deliver(buffer \union {e}, "select", FALSE)
              ELSE /\ buffer' = buffer \union {e}
                   /\ Return("select")
                   /\ UNCHANGED <<batchVars, dropped>>
    BY <1>7 DEF Receive
  <2>2. CASE Deliver(buffer \union {e}, "select", FALSE)
    BY <1>7, <2>2, DeliverStage DEF Receive, Resume
  <2>3. CASE Return("select") /\ UNCHANGED batchVars
    BY <1>7, <2>3 DEF Receive, Return, StageInv
  <2> QED BY <2>1, <2>2, <2>3
<1>8. CASE ReceiveNone
  BY <1>8, DeliverStage DEF ReceiveNone, Resume, StageInv
<1>9. CASE FlushTick
  BY <1>9, DeliverStage DEF FlushTick, Resume
<1>10. CASE CancelChanged
  BY <1>10 DEF CancelChanged, Return, StageInv
<1>11. CASE Drain
  <2>1. PICK b \in Filled :
           /\ queue' = queue \ b
           /\ IF b = {}
              THEN pc' = "exiting" /\ UNCHANGED <<buffer, batchVars, dropped>>
              ELSE Deliver(b, "draining", TRUE)
    BY <1>11 DEF Drain
  <2>2. CASE b = {}
    BY <1>11, <2>1, <2>2, FilledType DEF Drain, StageInv
  <2>3. CASE b # {}
    BY <1>11, <2>1, <2>3, DeliverStage DEF Drain, Resume
  <2> QED BY <2>2, <2>3
<1>12. CASE Exit
  BY <1>12 DEF Exit, StageInv
<1> QED BY <1>1, <1>2, <1>3, <1>4, <1>5, <1>6, <1>7, <1>8, <1>9, <1>10, <1>11, <1>12
        DEF Next, WorkerStep, AttemptEnds

-----------------------------------------------------------------------------
(* Every record is accounted for once.                                     *)

Held == queue \union buffer \union batch \union acked

AccountOf(e) ==
    /\ ~(e \in queue /\ e \in buffer \union batch \union acked)
    /\ ~(e \in buffer /\ e \in batch \union acked)
    /\ ~(e \in batch /\ e \in acked)
    /\ dropped[e] \in {0, 1}
    /\ dropped[e] = 1 => e \notin Held
    /\ e \in emitted <=> e \in Held \/ dropped[e] = 1 \/ (e \in late /\ pc = "stopped")

AccountInv ==
    /\ late \subseteq emitted
    /\ \A e \in Event : AccountOf(e)

LEMMA InitAccount == Init => AccountInv
BY DEF Init, AccountInv, AccountOf, Held

LEMMA DeliverAccount ==
    ASSUME TypeOK, StageInv, AccountInv, NEW b \in SUBSET Event, NEW to \in Resume,
           NEW last, Deliver(b, to, last), pc \in {"select", "draining"},
           buffer \subseteq b, b \subseteq buffer \union queue,
           queue' = queue \ b, UNCHANGED <<emitted, late, acked>>
    PROVE  AccountInv'
<1>1. batch = {} /\ buffer' = {}
  BY DeliverShape DEF StageInv
<1>2. CASE Count(b) /\ Return(to) /\ UNCHANGED batchVars
  <2>1. pc' # "stopped"
    BY <1>2 DEF Return, Resume
  <2> QED BY <1>1, <1>2, <2>1 DEF AccountInv, AccountOf, Held, Count, TypeOK
<1>3. CASE pc' = "sending" /\ batch' = b /\ UNCHANGED dropped
  BY <1>1, <1>3 DEF AccountInv, AccountOf, Held, TypeOK
<1> QED BY <1>2, <1>3, DeliverShape

LEMMA FailureAccount ==
    ASSUME TypeOK, StageInv, AccountInv, pc = "sending", NEW answered, NEW may,
           Failure(answered, may), UNCHANGED <<emitted, late, queue>>
    PROVE  AccountInv'
<1>1. CASE Count(batch) /\ Return(resume) /\ batch' = {}
  <2>1. pc' # "stopped"
    BY <1>1 DEF Return, TypeOK
  <2> QED BY <1>1, <2>1, FailureShape DEF AccountInv, AccountOf, Held, Count, TypeOK
<1>2. CASE pc' = "backoff" /\ UNCHANGED <<dropped, resume, batch>>
  BY <1>2, FailureShape DEF AccountInv, AccountOf, Held
<1> QED BY <1>1, <1>2, FailureShape

LEMMA NextAccount == TypeOK /\ StageInv /\ AccountInv /\ [Next]_vars => AccountInv'
<1>. SUFFICES ASSUME TypeOK, StageInv, AccountInv, [Next]_vars PROVE AccountInv'
  OBVIOUS
<1>1. ASSUME NEW e \in Event, Emit(e) PROVE AccountInv'
  BY <1>1 DEF Emit, IsNext, AccountInv, AccountOf, Held, TypeOK
<1>2. CASE Shutdown \/ HandlersGone \/ Rollout \/ Tick \/ UNCHANGED vars
  BY <1>2 DEF Shutdown, HandlersGone, Rollout, Tick, vars, AccountInv, AccountOf, Held
<1>3. ASSUME NEW s \in strays, StrayLands(s) PROVE AccountInv'
  BY <1>3 DEF StrayLands, AccountInv, AccountOf, Held
<1>4. CASE Delivered
  <2>1. pc # "stopped" /\ pc' # "stopped" /\ batch' = {} /\ acked' = acked \union batch
    BY <1>4 DEF Delivered, Return, Free, TypeOK
  <2> QED BY <1>4, <2>1 DEF Delivered, AccountInv, AccountOf, Held
<1>5. CASE Refused \/ AnsweredOnTheWay \/ Unanswered
  BY <1>5, FailureAccount DEF Refused, AnsweredOnTheWay, Unanswered
<1>6. CASE Resend
  BY <1>6 DEF Resend, Attempt, AccountInv, AccountOf, Held
<1>7. CASE Receive
  <2>1. PICK e \in queue :
           /\ queue' = queue \ {e}
           /\ IF Cardinality(buffer) + 1 >= MaxBatch
              THEN Deliver(buffer \union {e}, "select", FALSE)
              ELSE /\ buffer' = buffer \union {e}
                   /\ Return("select")
                   /\ UNCHANGED <<batchVars, dropped>>
    BY <1>7 DEF Receive
  <2>2. e \in Event /\ e \notin buffer
    BY DEF TypeOK, AccountInv, AccountOf
  <2>3. CASE Deliver(buffer \union {e}, "select", FALSE)
    <3>1. queue' = queue \ (buffer \union {e})
      BY <2>1 DEF TypeOK, AccountInv, AccountOf
    <3>2. /\ buffer \union {e} \in SUBSET Event /\ "select" \in Resume
          /\ buffer \union {e} \subseteq buffer \union queue
      BY <2>2 DEF TypeOK, Resume
    <3>3. pc \in {"select", "draining"} /\ UNCHANGED <<emitted, late, acked>>
      BY <1>7 DEF Receive
    <3> QED BY <2>3, <3>1, <3>2, <3>3, DeliverAccount
  <2>4. CASE buffer' = buffer \union {e} /\ Return("select") /\ UNCHANGED <<batchVars, dropped>>
    <3>1. pc # "stopped" /\ pc' # "stopped"
      BY <1>7, <2>4 DEF Receive, Return
    <3> QED BY <1>7, <2>1, <2>2, <2>4, <3>1 DEF Receive, AccountInv, AccountOf, Held
  <2> QED BY <2>1, <2>3, <2>4
<1>8. CASE ReceiveNone
  <2>1. CASE buffer = {}
    BY <1>8, <2>1 DEF ReceiveNone, AccountInv, AccountOf, Held
  <2>2. CASE buffer # {}
    BY <1>8, <2>2, DeliverAccount DEF ReceiveNone, Resume, TypeOK
  <2> QED BY <2>1, <2>2
<1>9. CASE FlushTick
  BY <1>9, FilledType, DeliverAccount DEF FlushTick, Resume
<1>10. CASE CancelChanged
  BY <1>10 DEF CancelChanged, Return, AccountInv, AccountOf, Held
<1>11. CASE Drain
  <2>1. PICK b \in Filled :
           /\ queue' = queue \ b
           /\ IF b = {}
              THEN pc' = "exiting" /\ UNCHANGED <<buffer, batchVars, dropped>>
              ELSE Deliver(b, "draining", TRUE)
    BY <1>11 DEF Drain
  <2>2. CASE b = {}
    BY <1>11, <2>1, <2>2 DEF Drain, AccountInv, AccountOf, Held
  <2>3. CASE b # {}
    BY <1>11, <2>1, <2>3, FilledType, DeliverAccount DEF Drain, Resume
  <2> QED BY <2>2, <2>3
<1>12. CASE Exit
  BY <1>12 DEF Exit, StageInv, AccountInv, AccountOf, Held
<1> QED BY <1>1, <1>2, <1>3, <1>4, <1>5, <1>6, <1>7, <1>8, <1>9, <1>10, <1>11, <1>12
        DEF Next, WorkerStep, AttemptEnds

LEMMA AccountInvariant == Spec => [](TypeOK /\ StageInv /\ AccountInv)
BY InitType, NextType, InitStage, NextStage, InitAccount, NextAccount, PTL DEF Spec

\* What holds a record, by name, is one thing or none.
LEMMA AccountsOfHeld ==
    ASSUME TypeOK, AccountInv, NEW e \in Event
    PROVE  Accounts(e) = dropped[e] + IF e \in Held THEN 1 ELSE 0
<1>. DEFINE holders == {s \in {<<"queue", queue>>, <<"buffer", buffer>>,
                                <<"batch", batch>>, <<"acked", acked>>} : e \in s[2]}
<1>1. CASE e \notin Held
  <2>1. holders = {}
    BY <1>1 DEF Held
  <2> QED BY <1>1, <2>1, FS_EmptySet DEF Accounts
<1>2. CASE e \in Held
  <2>1. \E h : holders = {h}
    <3>1. CASE e \in queue
      <4>1. holders = {<<"queue", queue>>}
        BY <3>1 DEF AccountInv, AccountOf
      <4> QED BY <4>1
    <3>2. CASE e \in buffer
      <4>1. holders = {<<"buffer", buffer>>}
        BY <3>2 DEF AccountInv, AccountOf
      <4> QED BY <4>1
    <3>3. CASE e \in batch
      <4>1. holders = {<<"batch", batch>>}
        BY <3>3 DEF AccountInv, AccountOf
      <4> QED BY <4>1
    <3>4. CASE e \in acked
      <4>1. holders = {<<"acked", acked>>}
        BY <3>4 DEF AccountInv, AccountOf
      <4> QED BY <4>1
    <3> QED BY <1>2, <3>1, <3>2, <3>3, <3>4 DEF Held
  <2>2. Cardinality(holders) = 1
    BY <2>1, FS_Singleton
  <2> QED BY <1>2, <2>2 DEF Accounts
<1> QED BY <1>1, <1>2

\* Each record that was emitted is held, delivered or counted as dropped, and
\* only once, but for one that was queued behind the worker's back as it left
\* (try_emit, run, drop_batch).
THEOREM LossesAreCounted == Spec => []LossIsCounted
<1>1. TypeOK /\ AccountInv => LossIsCounted
  <2>. SUFFICES ASSUME TypeOK, AccountInv, NEW e \in emitted
                PROVE  Accounts(e) = 1 \/ (Accounts(e) = 0 /\ e \in late /\ pc = "stopped")
    BY DEF LossIsCounted
  <2>1. e \in Event
    BY DEF TypeOK
  <2> QED BY <2>1, AccountsOfHeld DEF AccountInv, AccountOf
<1> QED BY <1>1, AccountInvariant, PTL

-----------------------------------------------------------------------------
(* A shutdown is noticed, and what is left to do after it only shrinks.    *)

\* Only the batch in hand has a last attempt, and no wait follows that.
NoticeInv == ShutdownIsNoticed /\ (final => pc = "sending")

LEMMA InitNotice == Init => NoticeInv
BY DEF Init, NoticeInv, ShutdownIsNoticed

LEMMA DeliverNotices ==
    ASSUME TypeOK, NoticeInv, NEW b, NEW to \in Resume, NEW last \in BOOLEAN,
           Deliver(b, to, last), UNCHANGED <<cancel, unseen>>,
           pc = "select" \/ (pc = "draining" /\ last)
    PROVE  NoticeInv'
<1>1. \/ Return(to) /\ UNCHANGED final
      \/ pc' = "sending" /\ final' = last
  BY DEF Deliver, Attempt
<1>2. ~final /\ (pc = "select" /\ cancel => unseen)
  BY DEF NoticeInv, ShutdownIsNoticed
<1>3. CASE Return(to) /\ UNCHANGED final
  BY <1>2, <1>3 DEF NoticeInv, ShutdownIsNoticed, Return, Resume
<1>4. CASE pc' = "sending" /\ final' = last
  BY <1>2, <1>4 DEF NoticeInv, ShutdownIsNoticed
<1> QED BY <1>1, <1>3, <1>4

LEMMA FailureNotices ==
    ASSUME TypeOK, NoticeInv, pc = "sending", NEW answered, NEW may,
           Failure(answered, may), UNCHANGED <<cancel, unseen>>
    PROVE  NoticeInv'
<1>1. \/ Return(resume) /\ final' = FALSE
      \/ pc' = "backoff" /\ ~final /\ UNCHANGED final
  BY DEF Failure, Free
<1>2. CASE Return(resume) /\ final' = FALSE
  BY <1>2 DEF NoticeInv, ShutdownIsNoticed, Return, TypeOK
<1>3. CASE pc' = "backoff" /\ ~final /\ UNCHANGED final
  BY <1>3 DEF NoticeInv, ShutdownIsNoticed
<1> QED BY <1>1, <1>2, <1>3

LEMMA NextNotice == TypeOK /\ NoticeInv /\ [Next]_vars => NoticeInv'
<1>. SUFFICES ASSUME TypeOK, NoticeInv, [Next]_vars PROVE NoticeInv'
  OBVIOUS
<1>1. ASSUME NEW e \in Event, Emit(e) PROVE NoticeInv'
  BY <1>1 DEF Emit, NoticeInv, ShutdownIsNoticed
<1>2. CASE Shutdown \/ HandlersGone \/ Rollout \/ Tick \/ UNCHANGED vars
  BY <1>2 DEF Shutdown, HandlersGone, Rollout, Tick, vars, NoticeInv, ShutdownIsNoticed
<1>3. ASSUME NEW s \in strays, StrayLands(s) PROVE NoticeInv'
  BY <1>3 DEF StrayLands, NoticeInv, ShutdownIsNoticed
<1>4. CASE Delivered
  BY <1>4 DEF Delivered, Free, Return, NoticeInv, ShutdownIsNoticed, TypeOK
<1>5. CASE Refused \/ AnsweredOnTheWay \/ Unanswered
  BY <1>5, FailureNotices DEF Refused, AnsweredOnTheWay, Unanswered
<1>6. CASE Resend
  BY <1>6 DEF Resend, Attempt, NoticeInv, ShutdownIsNoticed, TypeOK
<1>7. CASE Receive
  <2>1. PICK e \in queue :
           \/ Deliver(buffer \union {e}, "select", FALSE)
           \/ Return("select") /\ UNCHANGED batchVars
    BY <1>7 DEF Receive
  <2>2. CASE Deliver(buffer \union {e}, "select", FALSE)
    BY <1>7, <2>2, DeliverNotices DEF Receive, Resume
  <2>3. CASE Return("select") /\ UNCHANGED batchVars
    BY <1>7, <2>3 DEF Receive, Return, NoticeInv, ShutdownIsNoticed
  <2> QED BY <2>1, <2>2, <2>3
<1>8. CASE ReceiveNone
  <2>1. CASE buffer = {}
    BY <1>8, <2>1 DEF ReceiveNone, NoticeInv, ShutdownIsNoticed
  <2>2. CASE buffer # {}
    BY <1>8, <2>2, DeliverNotices DEF ReceiveNone, Resume
  <2> QED BY <2>1, <2>2
<1>9. CASE FlushTick
  BY <1>9, DeliverNotices DEF FlushTick, Resume
<1>10. CASE CancelChanged
  BY <1>10 DEF CancelChanged, Return, NoticeInv, ShutdownIsNoticed
<1>11. CASE Drain
  <2>1. PICK b \in Filled :
           IF b = {} THEN pc' = "exiting" /\ UNCHANGED batchVars
           ELSE Deliver(b, "draining", TRUE)
    BY <1>11 DEF Drain
  <2>2. CASE b = {}
    BY <1>11, <2>1, <2>2 DEF Drain, NoticeInv, ShutdownIsNoticed
  <2>3. CASE b # {}
    BY <1>11, <2>1, <2>3, DeliverNotices DEF Drain, Resume
  <2> QED BY <2>2, <2>3
<1>12. CASE Exit
  BY <1>12 DEF Exit, NoticeInv, ShutdownIsNoticed
<1> QED BY <1>1, <1>2, <1>3, <1>4, <1>5, <1>6, <1>7, <1>8, <1>9, <1>10, <1>11, <1>12
        DEF Next, WorkerStep, AttemptEnds

\* A shutdown is never missed: wherever the worker waits it is still to be
\* notified, and where it is not, the attempt on its way is the batch's last.
THEOREM ShutdownNoticed == Spec => []ShutdownIsNoticed
<1>1. NoticeInv => ShutdownIsNoticed
  BY DEF NoticeInv
<1> QED BY <1>1, InitType, NextType, InitNotice, NextNotice, PTL DEF Spec

\* Records leave what is ahead of the worker and do not come back.
LEMMA AheadCount ==
    ASSUME TypeOK, NEW A \in SUBSET Ahead
    PROVE  /\ Cardinality(A) \in Nat /\ Cardinality(Ahead) \in Nat
           /\ Cardinality(A) <= Cardinality(Ahead)
           /\ A # Ahead => Cardinality(A) + 1 <= Cardinality(Ahead)
<1>1. Ahead \subseteq Event /\ A \subseteq Event
  BY DEF Ahead, TypeOK
<1>2. IsFiniteSet(Ahead) /\ Cardinality(A) \in Nat /\ Cardinality(Ahead) \in Nat
  BY <1>1, EventSetsFinite
<1>3. Cardinality(A) <= Cardinality(Ahead) /\ (Cardinality(A) = Cardinality(Ahead) => A = Ahead)
  BY <1>2, FS_Subset
<1> QED BY <1>2, <1>3

LEMMA DeliverWindsDown ==
    ASSUME TypeOK, AccountInv, NoticeInv, cancel, NEW b \in SUBSET Event, b # {},
           NEW to \in Resume, NEW last \in BOOLEAN, Deliver(b, to, last),
           pc = "select" \/ (pc = "draining" /\ last),
           buffer \subseteq b, b \subseteq buffer \union queue,
           queue' = queue \ b, UNCHANGED emitted
    PROVE  StepsLeft' < StepsLeft
<1> DEFINE n == Cardinality(Ahead)
           m == Cardinality(Ahead')
<1>1. m \in Nat /\ n \in Nat /\ m + 1 <= n
  <2>1. Ahead' = (Event \ emitted) \union (queue \ b)
    BY DeliverShape DEF Ahead
  <2>2. PICK e : e \in b
    OBVIOUS
  <2>3. e \in Ahead /\ e \notin Ahead'
    BY <2>1, <2>2 DEF Ahead, AccountInv, AccountOf, Held
  <2>4. Ahead' \in SUBSET Ahead /\ Ahead' # Ahead
    BY <2>1, <2>3 DEF Ahead
  <2> QED BY <2>4, AheadCount
<1>2. StepsLeft = StepsFrom(pc, final, n) /\ StepsLeft' = StepsFrom(pc', final', m)
  BY DEF StepsLeft
<1>. HIDE DEF n, m
<1>3. StepsLeft = (IF pc = "select" THEN 4 * n + 3 ELSE 4 * n + 2)
  BY <1>2 DEF StepsFrom
<1>4. CASE Return(to)
  <2>1. pc' \in {"draining", "exiting"}
    BY <1>4 DEF Return, Resume
  <2>2. StepsLeft' = 1 \/ StepsLeft' = 4 * m + 2
    BY <1>2, <2>1 DEF StepsFrom
  <2> QED BY <1>1, <1>3, <2>2
<1>5. CASE pc' = "sending" /\ final' = last
  <2>1. StepsLeft' = 4 * m + (IF last THEN 3 ELSE 5)
    BY <1>2, <1>5 DEF StepsFrom
  <2> QED BY <1>1, <1>3, <2>1
<1> QED BY <1>4, <1>5 DEF Deliver, Attempt

\* Steps that take no record in hand: only the stage counts.
LEMMA StageWindsDown ==
    ASSUME TypeOK, Ahead' \subseteq Ahead,
           \/ pc' = "stopped" /\ pc # "stopped"
           \/ pc' = "exiting" /\ pc \notin {"exiting", "stopped"}
           \/ pc' = "draining" /\ pc \in {"select", "sending", "backoff"}
           \/ pc' = "sending" /\ final' /\ pc = "backoff"
           \/ pc' = "backoff" /\ pc = "sending" /\ ~final
    PROVE  StepsLeft' < StepsLeft
<1> DEFINE n == Cardinality(Ahead)
           m == Cardinality(Ahead')
<1>1. m \in Nat /\ n \in Nat /\ m <= n
  BY AheadCount
<1>2. StepsLeft = StepsFrom(pc, final, n) /\ StepsLeft' = StepsFrom(pc', final', m)
  BY DEF StepsLeft
<1>. HIDE DEF n, m
<1>3. pc \in Stage
  BY DEF TypeOK
<1> QED BY <1>1, <1>2, <1>3 DEF StepsFrom, Stage

LEMMA WorkerSteps ==
    ASSUME TypeOK, AccountInv, NoticeInv, cancel, WorkerStep \/ AttemptEnds
    PROVE  StepsLeft' < StepsLeft
<1>1. CASE Delivered
  <2>1. pc = "sending" /\ pc' \in {"draining", "exiting"} /\ UNCHANGED <<emitted, queue, buffer>>
    BY <1>1 DEF Delivered, Return, TypeOK
  <2> QED BY <2>1, StageWindsDown DEF Ahead
<1>2. CASE Refused \/ AnsweredOnTheWay \/ Unanswered
  <2>1. PICK answered, may : Failure(answered, may)
    BY <1>2 DEF Refused, AnsweredOnTheWay, Unanswered
  <2>2. pc = "sending" /\ UNCHANGED <<emitted, queue>>
    BY <1>2 DEF Refused, AnsweredOnTheWay, Unanswered
  <2>3. /\ UNCHANGED buffer
        /\ Return(resume) \/ (pc' = "backoff" /\ ~final)
    BY <2>1 DEF Failure
  <2>4. pc' \in {"draining", "exiting"} \/ (pc' = "backoff" /\ ~final)
    BY <2>3 DEF Return, TypeOK
  <2> QED BY <2>2, <2>3, <2>4, StageWindsDown DEF Ahead
<1>3. CASE Resend
  BY <1>3, StageWindsDown DEF Resend, Attempt, Ahead
<1>4. CASE Receive
  <2>1. PICK e \in queue :
           /\ queue' = queue \ {e}
           /\ IF Cardinality(buffer) + 1 >= MaxBatch
              THEN Deliver(buffer \union {e}, "select", FALSE)
              ELSE /\ buffer' = buffer \union {e}
                   /\ Return("select")
                   /\ UNCHANGED <<batchVars, dropped>>
    BY <1>4 DEF Receive
  <2>2. e \in Event /\ e \notin buffer
    BY DEF TypeOK, AccountInv, AccountOf
  <2>3. CASE Deliver(buffer \union {e}, "select", FALSE)
    <3>1. queue' = queue \ (buffer \union {e})
      BY <2>1 DEF TypeOK, AccountInv, AccountOf
    <3>2. /\ buffer \union {e} \in SUBSET Event /\ buffer \union {e} # {}
          /\ buffer \union {e} \subseteq buffer \union queue
      BY <2>2 DEF TypeOK
    <3>3. pc = "select" /\ UNCHANGED emitted /\ "select" \in Resume
      BY <1>4 DEF Receive, Resume
    <3> QED BY <2>3, <3>1, <3>2, <3>3, DeliverWindsDown
  <2>4. CASE buffer' = buffer \union {e} /\ Return("select")
    <3>1. pc = "select" /\ pc' = "draining" /\ UNCHANGED emitted
      BY <1>4, <2>4 DEF Receive, Return
    <3>2. Ahead' \subseteq Ahead
      BY <2>1, <2>4, <3>1 DEF Ahead
    <3> QED BY <3>1, <3>2, StageWindsDown
  <2> QED BY <2>1, <2>3, <2>4
<1>5. CASE ReceiveNone
  <2>1. CASE buffer = {}
    BY <1>5, <2>1, StageWindsDown DEF ReceiveNone, Ahead
  <2>2. CASE buffer # {}
    <3>1. /\ Deliver(buffer, "exiting", TRUE) /\ pc = "select" /\ "exiting" \in Resume
          /\ queue = {} /\ UNCHANGED <<queue, emitted>>
      BY <1>5, <2>2 DEF ReceiveNone, Resume
    <3>2. buffer \in SUBSET Event /\ queue' = queue \ buffer
      BY <3>1 DEF TypeOK
    <3> QED BY <2>2, <3>1, <3>2, DeliverWindsDown
  <2> QED BY <2>1, <2>2
<1>6. CASE FlushTick
  <2>1. PICK b \in Filled : queue' = queue \ b /\ Deliver(b, "select", FALSE)
    BY <1>6 DEF FlushTick
  <2>2. /\ b \in SUBSET Event /\ b # {}
        /\ buffer \subseteq b /\ b \subseteq buffer \union queue
    BY <1>6, FilledType DEF FlushTick
  <2>3. pc = "select" /\ UNCHANGED emitted /\ "select" \in Resume
    BY <1>6 DEF FlushTick, Resume
  <2> QED BY <2>1, <2>2, <2>3, DeliverWindsDown
<1>7. CASE CancelChanged
  BY <1>7, StageWindsDown DEF CancelChanged, Return, Ahead
<1>8. CASE Drain
  <2>1. PICK b \in Filled :
           /\ queue' = queue \ b
           /\ IF b = {}
              THEN pc' = "exiting" /\ UNCHANGED <<buffer, batchVars, dropped>>
              ELSE Deliver(b, "draining", TRUE)
    BY <1>8 DEF Drain
  <2>2. pc = "draining" /\ UNCHANGED emitted /\ "draining" \in Resume
    BY <1>8 DEF Drain, Resume
  <2>3. CASE b = {}
    BY <2>1, <2>2, <2>3, StageWindsDown DEF Ahead
  <2>4. CASE b # {}
    BY <2>1, <2>2, <2>4, FilledType, DeliverWindsDown
  <2> QED BY <2>3, <2>4
<1>9. CASE Exit
  BY <1>9, StageWindsDown DEF Exit, Ahead
<1> QED BY <1>1, <1>2, <1>3, <1>4, <1>5, <1>6, <1>7, <1>8, <1>9 DEF WorkerStep, AttemptEnds

\* The handlers and the control plane leave the worker where it is, and a
\* record they emit was ahead of it before.
LEMMA OtherSteps ==
    ASSUME TypeOK, UNCHANGED <<pc, buffer, final>>,
           \/ UNCHANGED <<emitted, queue>>
           \/ \E e \in Event : emitted' = emitted \union {e} /\ e \notin emitted
                               /\ (queue' = queue \union {e} \/ UNCHANGED queue)
    PROVE  StepsLeft' <= StepsLeft
<1> DEFINE n == Cardinality(Ahead)
           m == Cardinality(Ahead')
<1>1. Ahead' \subseteq Ahead
  BY DEF Ahead
<1>2. m \in Nat /\ n \in Nat /\ m <= n
  BY <1>1, AheadCount
<1>3. StepsLeft = StepsFrom(pc, final, n) /\ StepsLeft' = StepsFrom(pc, final, m)
  BY DEF StepsLeft
<1>. HIDE DEF n, m
<1>4. pc \in Stage
  BY DEF TypeOK
<1> QED BY <1>2, <1>3, <1>4 DEF StepsFrom, Stage

\* After a shutdown every step of the worker and every answer brings the end of
\* the worker nearer, and nothing else puts it off: neither what the handlers
\* still emit, nor the control plane.  What is left of ShutdownEnds is that the
\* worker runs and that attempts end.
THEOREM ShutdownWindsDown == Spec => WorkerWindsDown
<1> DEFINE Down == cancel =>
         /\ StepsLeft' <= StepsLeft
         /\ WorkerStep \/ AttemptEnds => StepsLeft' < StepsLeft
<1>1. ASSUME TypeOK, AccountInv, NoticeInv, TypeOK', [Next]_vars, cancel
      PROVE  /\ StepsLeft' <= StepsLeft
             /\ WorkerStep \/ AttemptEnds => StepsLeft' < StepsLeft
  <2>1. StepsLeft \in Int /\ StepsLeft' \in Int
    <3>1. ASSUME TypeOK PROVE StepsLeft \in Int
      <4>1. Cardinality(Ahead) \in Nat /\ pc \in Stage
        BY <3>1, AheadCount DEF TypeOK
      <4> QED BY <4>1 DEF StepsLeft, StepsFrom, Stage
    <3>2. TypeOK' => StepsLeft' \in Int
      <4>1. ASSUME TypeOK' PROVE Cardinality(Ahead') \in Nat /\ pc' \in Stage
        <5>1. Ahead' \subseteq Event /\ pc' \in Stage
          BY <4>1 DEF Ahead, TypeOK
        <5> QED BY <5>1, EventSetsFinite
      <4> QED BY <4>1 DEF StepsLeft, StepsFrom, Stage
    <3> QED BY <1>1, <3>1, <3>2
  <2>2. CASE WorkerStep \/ AttemptEnds
    BY <1>1, <2>1, <2>2, WorkerSteps
  <2>3. CASE ~(WorkerStep \/ AttemptEnds)
    <3>1. ASSUME NEW e \in Event, Emit(e) PROVE StepsLeft' <= StepsLeft
      BY <1>1, <3>1, OtherSteps DEF Emit, IsNext
    <3>2. ASSUME NEW s \in strays, StrayLands(s) PROVE StepsLeft' <= StepsLeft
      BY <1>1, <3>2, OtherSteps DEF StrayLands
    <3>3. ASSUME Shutdown \/ HandlersGone \/ Rollout \/ Tick \/ UNCHANGED vars
          PROVE  StepsLeft' <= StepsLeft
      <4>1. UNCHANGED <<pc, buffer, final, emitted, queue>>
        BY <3>3 DEF Shutdown, HandlersGone, Rollout, Tick, vars
      <4> QED BY <1>1, <4>1, OtherSteps
    <3> QED BY <1>1, <2>3, <3>1, <3>2, <3>3 DEF Next
  <2> QED BY <2>2, <2>3
<1>2. TypeOK /\ AccountInv /\ NoticeInv /\ TypeOK' /\ [Next]_vars => [Down]_vars
  BY <1>1
<1> QED BY <1>2, AccountInvariant, InitNotice, NextNotice, PTL DEF Spec, WorkerWindsDown
-----------------------------------------------------------------------------
(* No record is billed late.                                               *)

\* The age of the records that a post carries, while it is prepared, waited for
\* and carried out.
AgeInv ==
    /\ pc = "sending" =>
         wait <= Timeout /\ \A e \in batch : age[e] + wait <= RetryBudget + Timeout
    /\ pc = "sending" /\ left > 0 => \A e \in batch : age[e] + left <= RetryBudget
    /\ pc = "backoff" =>
         wait <= left /\ \A e \in batch : age[e] + left <= RetryBudget
    /\ \A s \in strays : \A e \in s.batch :
         age[e] + s.left <= RetryBudget + Timeout + MaxStray

LEMMA InitAge == Init => AgeInv
BY DEF Init, AgeInv

\* Nothing is posted for a batch whose oldest record has no time left.
LEMMA DeliverAge ==
    ASSUME TypeOK, AgeInv, NEW b \in SUBSET Event, NEW to \in Resume, NEW last,
           Deliver(b, to, last), pc \in {"select", "draining"},
           UNCHANGED <<age, strays>>
    PROVE  AgeInv'
<1>. PICK n \in 0 .. RetryBudget :
         /\ IsBudget(n, b)
         /\ IF n = 0
            THEN Count(b) /\ Return(to) /\ UNCHANGED batchVars
            ELSE /\ Attempt
                 /\ resume' = to /\ batch' = b /\ left' = n
                 /\ backoff' = InitialBackoff /\ refusals' = 0 /\ final' = last
                 /\ UNCHANGED dropped
  BY DEF Deliver
<1>1. CASE n = 0
  BY <1>1 DEF Return, Resume, AgeInv
<1>2. CASE n # 0
  <2>1. /\ pc' = "sending" /\ wait' = Timeout /\ batch' = b /\ left' = n
    BY <1>2 DEF Attempt
  <2>2. \A e \in b : age[e] + n <= RetryBudget
    <3>. SUFFICES ASSUME NEW e \in b PROVE age[e] + n <= RetryBudget
      OBVIOUS
    <3>1. age[e] \in Nat /\ RetryBudget \in Nat /\ n \in Nat
      BY UsageAssumption DEF UsageAssumption, TypeOK, AgeCap
    <3>2. n <= IF age[e] < RetryBudget THEN RetryBudget - age[e] ELSE 0
      BY DEF IsBudget, Remaining
    <3> QED BY <1>2, <3>1, <3>2
  <2>3. \A e \in b : age[e] + Timeout <= RetryBudget + Timeout
    BY <2>2, <1>2, UsageAssumption DEF UsageAssumption, TypeOK
  <2>4. Timeout <= Timeout
    BY UsageAssumption DEF UsageAssumption
  <2> QED BY <2>1, <2>2, <2>3, <2>4 DEF AgeInv
<1> QED BY <1>1, <1>2

LEMMA FailureAge ==
    ASSUME TypeOK, AgeInv, pc = "sending", NEW answered, NEW may,
           Failure(answered, may), Stray \/ UNCHANGED strays, UNCHANGED age
    PROVE  AgeInv'
<1>1. \A s \in strays' : \A e \in s.batch :
        age'[e] + s.left <= RetryBudget + Timeout + MaxStray
  <2>1. \A e \in batch : age[e] + MaxStray <= RetryBudget + Timeout + MaxStray
    BY UsageAssumption DEF UsageAssumption, AgeInv, TypeOK
  <2> QED BY <2>1 DEF AgeInv, Stray
<1>2. CASE Return(resume)
  BY <1>1, <1>2 DEF Return, TypeOK, AgeInv
<1>3. CASE ~Return(resume)
  <2>1. /\ pc' = "backoff" /\ wait' = Least(backoff, left) /\ left # 0
        /\ UNCHANGED <<batch, left>>
    BY <1>3 DEF Failure
  <2>2. left > 0 /\ wait' <= left
    BY <2>1, UsageAssumption DEF UsageAssumption, TypeOK, Least
  <2> QED BY <1>1, <2>1, <2>2 DEF AgeInv
<1> QED BY <1>2, <1>3

LEMMA TickAge == TypeOK /\ AgeInv /\ Tick => AgeInv'
<1>. SUFFICES ASSUME TypeOK, AgeInv, Tick PROVE AgeInv'
  OBVIOUS
<1>1. \A e \in Event : age'[e] <= age[e] + 1 /\ age'[e] \in Nat /\ age[e] \in Nat
  BY UsageAssumption DEF UsageAssumption, TypeOK, Tick, Least, AgeCap
<1>2. \A s \in strays' : \A e \in s.batch :
        age'[e] + s.left <= RetryBudget + Timeout + MaxStray
  <2>0. \A s \in strays' : \E r \in strays :
          r.left > 0 /\ s = [r EXCEPT !.left = @ - 1] /\ s.batch = r.batch
    BY DEF Tick, TypeOK
  <2>. SUFFICES ASSUME NEW r \in strays, r.left > 0, NEW e \in r.batch
                PROVE  age'[e] + [r EXCEPT !.left = @ - 1].left
                         <= RetryBudget + Timeout + MaxStray
    BY <2>0
  <2>1. /\ [r EXCEPT !.left = @ - 1].left = r.left - 1
        /\ r.left \in Nat /\ e \in Event
    BY UsageAssumption DEF UsageAssumption, TypeOK
  <2>2. age[e] + r.left <= RetryBudget + Timeout + MaxStray
    BY DEF AgeInv
  <2> QED BY <1>1, <2>1, <2>2, UsageAssumption DEF UsageAssumption
<1>3. CASE pc = "sending"
  <2>1. wait \in Nat /\ wait > 0 /\ wait' = wait - 1 /\ pc' = "sending" /\ batch' = batch
    BY <1>3 DEF Tick, Before, TypeOK
  <2>2. left' > 0 => left' = left - 1 /\ left \in Nat
    BY UsageAssumption DEF UsageAssumption, Tick, Before, TypeOK
  <2>3. \A e \in batch : e \in Event
    BY DEF TypeOK
  <2>4. wait' <= Timeout /\ \A e \in batch : age'[e] + wait' <= RetryBudget + Timeout
    <3>1. wait <= Timeout /\ \A e \in batch : age[e] + wait <= RetryBudget + Timeout
      BY <1>3 DEF AgeInv
    <3>5. ASSUME NEW e \in batch PROVE age'[e] + wait' <= RetryBudget + Timeout
      <4>1. age'[e] <= age[e] + 1 /\ age'[e] \in Nat /\ age[e] \in Nat
        BY <1>1, <2>3
      <4> QED BY <4>1, <2>1, <3>1, UsageAssumption DEF UsageAssumption
    <3> QED BY <2>1, <3>1, <3>5, UsageAssumption DEF UsageAssumption
  <2>5. left' > 0 => \A e \in batch : age'[e] + left' <= RetryBudget
    <3>1. left > 0 => \A e \in batch : age[e] + left <= RetryBudget
      BY <1>3 DEF AgeInv
    <3>2. left' > 0 => left' = left - 1 /\ left > 0 /\ left \in Nat
      BY <2>2
    <3>5. ASSUME NEW e \in batch PROVE left' > 0 => age'[e] + left' <= RetryBudget
      <4>1. age'[e] <= age[e] + 1 /\ age'[e] \in Nat /\ age[e] \in Nat
        BY <1>1, <2>3
      <4> QED BY <4>1, <3>1, <3>2, UsageAssumption DEF UsageAssumption
    <3> QED BY <3>5
  <2> QED BY <1>2, <2>1, <2>4, <2>5 DEF AgeInv
<1>4. CASE pc = "backoff"
  <2>1. wait \in Nat /\ wait > 0 /\ wait' = wait - 1 /\ pc' = "backoff" /\ batch' = batch
    BY <1>4 DEF Tick, Before, TypeOK
  <2>2. left \in Nat /\ left > 0 /\ left' = left - 1
    BY <1>4, <2>1, UsageAssumption DEF UsageAssumption, Tick, Before, TypeOK, AgeInv
  <2>3. \A e \in batch : e \in Event
    BY DEF TypeOK
  <2>4. wait' <= left' /\ \A e \in batch : age'[e] + left' <= RetryBudget
    <3>1. wait <= left /\ \A e \in batch : age[e] + left <= RetryBudget
      BY <1>4 DEF AgeInv
    <3>5. ASSUME NEW e \in batch PROVE age'[e] + left' <= RetryBudget
      <4>1. age'[e] <= age[e] + 1 /\ age'[e] \in Nat /\ age[e] \in Nat
        BY <1>1, <2>3
      <4> QED BY <4>1, <2>2, <3>1, UsageAssumption DEF UsageAssumption
    <3> QED BY <2>1, <2>2, <3>1, <3>5
  <2> QED BY <1>2, <2>1, <2>4 DEF AgeInv
<1>5. CASE pc \notin {"sending", "backoff"}
  BY <1>2, <1>5 DEF AgeInv, Tick
<1> QED BY <1>3, <1>4, <1>5

LEMMA NextAge == TypeOK /\ StageInv /\ AgeInv /\ [Next]_vars => AgeInv'
<1>. SUFFICES ASSUME TypeOK, StageInv, AgeInv, [Next]_vars PROVE AgeInv'
  OBVIOUS
<1>1. ASSUME NEW e \in Event, Emit(e) PROVE AgeInv'
  BY <1>1 DEF Emit, AgeInv
<1>2. CASE Shutdown \/ HandlersGone \/ Rollout \/ CancelChanged \/ Exit \/ UNCHANGED vars
  BY <1>2 DEF Shutdown, HandlersGone, Rollout, CancelChanged, Exit, Return, vars, AgeInv
<1>3. ASSUME NEW s \in strays, StrayLands(s) PROVE AgeInv'
  BY <1>3 DEF StrayLands, AgeInv
<1>4. CASE Delivered
  BY <1>4 DEF Delivered, Return, AgeInv, TypeOK
<1>5. CASE Refused \/ AnsweredOnTheWay \/ Unanswered
  BY <1>5, FailureAge DEF Refused, AnsweredOnTheWay, Unanswered
<1>6. CASE Resend
  <2>1. /\ pc = "backoff" /\ pc' = "sending" /\ wait' = Timeout
        /\ UNCHANGED <<age, batch, left, strays>>
    BY <1>6 DEF Resend, Attempt
  <2>2. \A e \in batch : age[e] \in Nat /\ age[e] + left <= RetryBudget
    BY <2>1, UsageAssumption DEF UsageAssumption, AgeInv, TypeOK, AgeCap
  <2>3. \A e \in batch : age[e] + Timeout <= RetryBudget + Timeout
    BY <2>2, UsageAssumption DEF UsageAssumption, TypeOK
  <2>4. Timeout <= Timeout
    BY UsageAssumption DEF UsageAssumption
  <2> QED BY <2>1, <2>2, <2>3, <2>4 DEF AgeInv
<1>7. CASE Receive
  <2>1. PICK e \in queue :
           /\ queue' = queue \ {e}
           /\ IF Cardinality(buffer) + 1 >= MaxBatch
              THEN Deliver(buffer \union {e}, "select", FALSE)
              ELSE /\ buffer' = buffer \union {e}
                   /\ Return("select")
                   /\ UNCHANGED <<batchVars, dropped>>
    BY <1>7 DEF Receive
  <2>2. CASE Deliver(buffer \union {e}, "select", FALSE)
    <3>1. buffer \union {e} \in SUBSET Event /\ "select" \in Resume
      BY DEF TypeOK, Resume
    <3>2. pc \in {"select", "draining"} /\ UNCHANGED <<age, strays>>
      BY <1>7 DEF Receive
    <3> QED BY <2>2, <3>1, <3>2, DeliverAge
  <2>3. CASE Return("select")
    BY <1>7, <2>3 DEF Receive, Return, AgeInv
  <2> QED BY <2>1, <2>2, <2>3
<1>8. CASE ReceiveNone
  <2>1. CASE buffer = {}
    BY <1>8, <2>1 DEF ReceiveNone, AgeInv
  <2>2. CASE buffer # {}
    BY <1>8, <2>2, DeliverAge DEF ReceiveNone, Resume, TypeOK
  <2> QED BY <2>1, <2>2
<1>9. CASE FlushTick
  BY <1>9, FilledType, DeliverAge DEF FlushTick, Resume
<1>10. CASE Drain
  <2>1. PICK b \in Filled :
           /\ queue' = queue \ b
           /\ IF b = {}
              THEN pc' = "exiting" /\ UNCHANGED <<buffer, batchVars, dropped>>
              ELSE Deliver(b, "draining", TRUE)
    BY <1>10 DEF Drain
  <2>2. CASE b = {}
    BY <1>10, <2>1, <2>2 DEF Drain, AgeInv
  <2>3. CASE b # {}
    BY <1>10, <2>1, <2>3, FilledType, DeliverAge DEF Drain, Resume
  <2> QED BY <2>2, <2>3
<1>11. CASE Tick
  BY <1>11, TickAge
<1> QED BY <1>1, <1>2, <1>3, <1>4, <1>5, <1>6, <1>7, <1>8, <1>9, <1>10, <1>11
        DEF Next, WorkerStep, AttemptEnds

InTime ==
    \A e \in Event :
       rows'[e] > rows[e] => age[e] <= RetryBudget + Timeout + MaxStray

LEMMA CommitInTime ==
    ASSUME TypeOK, NEW b, NEW dedup, Commit(b, dedup),
           \A e \in b : age[e] <= RetryBudget + Timeout + MaxStray
    PROVE  InTime
BY DEF Commit, InTime, TypeOK

LEMMA SameRows == TypeOK /\ UNCHANGED rows => InTime
BY DEF InTime, TypeOK

LEMMA NextInTime == TypeOK /\ AgeInv /\ [Next]_vars => InTime
<1>. SUFFICES ASSUME TypeOK, AgeInv, [Next]_vars PROVE InTime
  OBVIOUS
<1>1. ASSUME NEW s \in strays, StrayLands(s) PROVE InTime
  <2>1. \A e \in s.batch : age[e] <= RetryBudget + Timeout + MaxStray
    <3>. SUFFICES ASSUME NEW e \in s.batch
                  PROVE  age[e] <= RetryBudget + Timeout + MaxStray
      OBVIOUS
    <3>1. age[e] + s.left <= RetryBudget + Timeout + MaxStray
      BY DEF AgeInv
    <3>2. age[e] \in Nat /\ s.left \in Nat
      BY UsageAssumption DEF UsageAssumption, TypeOK, AgeCap
    <3> QED BY <3>1, <3>2, UsageAssumption DEF UsageAssumption
  <2> QED BY <1>1, <2>1, CommitInTime DEF StrayLands
<1>2. CASE Delivered \/ Refused
  <2>1. \A e \in batch : age[e] <= RetryBudget + Timeout + MaxStray
    <3>1. pc = "sending" /\ wait \in Nat
      BY <1>2 DEF Delivered, Refused, TypeOK
    <3>2. \A e \in batch : age[e] \in Nat /\ age[e] + wait <= RetryBudget + Timeout
      BY <3>1, UsageAssumption DEF UsageAssumption, AgeInv, TypeOK, AgeCap
    <3> QED BY <3>1, <3>2, UsageAssumption DEF UsageAssumption
  <2> QED BY <1>2, <2>1, CommitInTime, SameRows DEF Delivered, Refused
<1>3. CASE UNCHANGED rows
  BY <1>3, SameRows
<1>4. (\E s \in strays : StrayLands(s)) \/ Delivered \/ Refused \/ UNCHANGED rows
  BY DEF Next, WorkerStep, AttemptEnds, Emit, Shutdown, HandlersGone, Rollout, Tick,
         AnsweredOnTheWay, Unanswered, Resend, Receive, ReceiveNone, FlushTick,
         CancelChanged, Drain, Exit, vars
<1> QED BY <1>1, <1>2, <1>3, <1>4

\* A record is billed no later than its budget, the attempt that began within it
\* and what a stray request takes (remaining_budget, deliver), at whatever pace
\* the queue moves.
THEOREM BilledWithinBudget == Spec => BilledInTime
<1>1. Spec => []AgeInv
  BY AccountInvariant, InitAge, NextAge, PTL DEF Spec
<1>2. TypeOK /\ AgeInv /\ [Next]_vars => [InTime]_vars
  BY NextInTime
<1>3. Spec => [][InTime]_vars
  BY <1>1, <1>2, AccountInvariant, PTL DEF Spec
<1> QED BY <1>3 DEF InTime, BilledInTime
-----------------------------------------------------------------------------
(* No record is billed twice, but what the pods misled the worker about.   *)

\* The batches that may still be carried out.
Posted == {s.batch : s \in strays} \union {batch}

\* Record e has never been in a batch.
Fresh(e) ==
    /\ rows[e] = 0
    /\ \A s \in strays : e \notin s.batch
    /\ \A r \in recorded : e \notin r

\* Batches are disjoint, and a new record is in none.
BatchesApart ==
    /\ \A e \in Event : e \in queue \union buffer \/ e \notin emitted => Fresh(e)
    /\ \A i, j \in Posted \union recorded : \A e \in i : e \in j => i = j

\* What has been billed, and never by an old pod, is recognised by a new one.
NewPodsRecognise ==
    \A i \in Posted : \A e \in i : rows[e] > 0 /\ e \notin unkept => i \in recorded

\* A record that has not been posted again can be billed by one request at most,
\* and if one is still on its way no other has billed it.
PostedOnce ==
    /\ \A s \in strays : \A e \in s.batch : e \notin vouched =>
         /\ rows[e] = 0
         /\ \A t \in strays : e \in t.batch => s = t
         /\ e \in batch => pc # "sending"
    /\ pc = "sending" => \A e \in batch : e \notin vouched => rows[e] = 0

BillInv ==
    /\ BilledAgainIfMisled /\ BatchesApart /\ NewPodsRecognise /\ PostedOnce
    /\ pc = "backoff" => dedupSeen

LEMMA InitBill == Init => BillInv
BY DEF Init, BillInv, BilledAgainIfMisled, BatchesApart, NewPodsRecognise, PostedOnce,
       Posted, Fresh

\* No record on the way to a pod is in the queue or in the buffer.
LEMMA PostedNotFresh ==
    ASSUME TypeOK, AccountInv, BatchesApart, NEW i \in Posted, NEW e \in i
    PROVE  e \in Event /\ e \in emitted /\ e \notin queue \union buffer
BY DEF TypeOK, AccountInv, AccountOf, Held, BatchesApart, Fresh, Posted

\* Batch i is carried out, by a request that is the only one of the records in
\* it that have not been posted again.
LEMMA CommitBills ==
    ASSUME TypeOK, AccountInv, BillInv, NEW i \in Posted, NEW dedup \in BOOLEAN,
           Commit(i, dedup), vouched \subseteq vouched',
           \A e \in i : e \notin vouched => rows[e] = 0
    PROVE  /\ \A e \in Event : rows'[e] \in {rows[e], rows[e] + 1}
           /\ \A e \in Event : e \notin i => rows'[e] = rows[e]
           /\ recorded \subseteq recorded' /\ recorded' \subseteq recorded \union {i}
           /\ unkept \subseteq unkept'
           /\ \A e \in i : e \in unkept' \/ i \in recorded'
           /\ BilledAgainIfMisled'
<1>1. CASE dedup /\ i \in recorded
  <2>1. UNCHANGED <<rows, recorded, unkept>>
    BY <1>1 DEF Commit
  <2> QED BY <1>1, <2>1 DEF BillInv, BilledAgainIfMisled, Misled
<1>2. CASE ~(dedup /\ i \in recorded)
  <2>1. /\ rows' = [e \in Event |-> rows[e] + IF e \in i THEN 1 ELSE 0]
        /\ recorded' = IF dedup THEN recorded \union {i} ELSE recorded
        /\ unkept' = IF dedup THEN unkept ELSE unkept \union i
    BY <1>2 DEF Commit
  <2>2. \A e \in Event : rows[e] \in Nat
    BY DEF TypeOK
  <2>3. \A e \in i : e \in Event
    BY PostedNotFresh DEF BillInv
  <2>4. \A e \in i : rows[e] > 0 => e \in vouched' /\ e \in unkept'
    BY <1>2, <2>1, <2>2, <2>3 DEF BillInv, NewPodsRecognise
  <2>5. BilledAgainIfMisled'
    <3>. SUFFICES ASSUME NEW e \in Event, rows'[e] > 1
                  PROVE  e \in vouched' /\ e \in unkept'
      BY DEF BilledAgainIfMisled, Misled
    <3>1. CASE e \in i
      BY <2>1, <2>2, <2>4, <3>1
    <3>2. CASE e \notin i
      <4>1. rows[e] > 1
        BY <2>1, <2>2, <3>2
      <4> QED BY <2>1, <4>1 DEF BillInv, BilledAgainIfMisled, Misled
    <3> QED BY <3>1, <3>2
  <2>6. \A e \in i : e \in unkept' \/ i \in recorded'
    BY <2>1
  <2> QED BY <2>1, <2>2, <2>5, <2>6
<1> QED BY <1>1, <1>2

\* What a step may do to the posted batches: take some away.
LEMMA FewerPosted ==
    ASSUME TypeOK, BillInv, strays' \subseteq strays, batch' \in {batch, {}},
           UNCHANGED <<rows, recorded, unkept, emitted>>, vouched \subseteq vouched',
           queue' \union buffer' \subseteq queue \union buffer,
           pc' = "sending" => pc = "sending" \/ batch' \subseteq vouched' ,
           pc' = "backoff" => dedupSeen'
    PROVE  BillInv'
<1>1. Posted' \subseteq Posted \union {{}}
  BY DEF Posted
<1>2. BatchesApart'
  <2>1. \A e \in Event : Fresh(e) => Fresh(e)'
    BY DEF Fresh
  <2> QED BY <1>1, <2>1 DEF BillInv, BatchesApart
<1>3. NewPodsRecognise'
  BY <1>1 DEF BillInv, NewPodsRecognise
<1>4. PostedOnce'
  BY DEF BillInv, PostedOnce
<1>5. BilledAgainIfMisled'
  BY DEF BillInv, BilledAgainIfMisled, Misled
<1> QED BY <1>2, <1>3, <1>4, <1>5 DEF BillInv

\* A request that bills the records of batch i is not waited for any more.
LEMMA CommittedBill ==
    ASSUME TypeOK, AccountInv, BillInv, NEW i \in Posted, NEW dedup \in BOOLEAN,
           Commit(i, dedup), UNCHANGED <<queue, buffer, emitted, vouched>>,
           \A e \in i : e \notin vouched => rows[e] = 0,
           strays' \subseteq strays, batch' \in {batch, {}},
           \A s \in strays' : \A e \in s.batch : e \in i => e \in vouched,
           pc' = "sending" => pc = "sending" /\ \A e \in batch' : e \in i => e \in vouched,
           pc' = "backoff" => dedupSeen'
    PROVE  BillInv'
<1>1. /\ \A e \in Event : rows'[e] \in {rows[e], rows[e] + 1}
      /\ \A e \in Event : e \notin i => rows'[e] = rows[e]
      /\ recorded \subseteq recorded' /\ recorded' \subseteq recorded \union {i}
      /\ unkept \subseteq unkept'
      /\ \A e \in i : e \in unkept' \/ i \in recorded'
      /\ BilledAgainIfMisled'
  BY CommitBills
<1>2. Posted' \subseteq Posted \union {{}}
  BY DEF Posted
<1>3. Posted \subseteq SUBSET Event
  BY DEF Posted, TypeOK
<1>4. BatchesApart'
  <2>1. ASSUME NEW e \in Event, e \in queue \union buffer \/ e \notin emitted
        PROVE  Fresh(e)'
    <3>1. Fresh(e) /\ e \notin i
      BY <2>1, PostedNotFresh DEF BillInv, BatchesApart
    <3> QED BY <1>1, <3>1 DEF Fresh
  <2>2. Posted' \union recorded' \subseteq Posted \union recorded \union {{}}
    BY <1>1, <1>2
  <2>3. \A k, j \in Posted' \union recorded' : \A e \in k : e \in j => k = j
    BY <2>2 DEF BillInv, BatchesApart
  <2> QED BY <2>1, <2>3 DEF BatchesApart
<1>5. NewPodsRecognise'
  <2>. SUFFICES ASSUME NEW j \in Posted', NEW e \in j, rows'[e] > 0, e \notin unkept'
                PROVE  j \in recorded'
    BY DEF NewPodsRecognise
  <2>1. j \in Posted /\ e \in Event
    BY <1>2, <1>3
  <2>2. CASE e \in i
    <3>1. j = i
      BY <2>1, <2>2 DEF BillInv, BatchesApart
    <3> QED BY <1>1, <2>2, <3>1
  <2>3. CASE e \notin i
    <3>1. rows[e] > 0 /\ e \notin unkept
      BY <1>1, <2>1, <2>3
    <3> QED BY <1>1, <2>1, <3>1 DEF BillInv, NewPodsRecognise
  <2> QED BY <2>2, <2>3
<1>6. PostedOnce'
  <2>1. ASSUME NEW s \in strays', NEW e \in s.batch, e \notin vouched
        PROVE  /\ rows'[e] = 0
               /\ \A t \in strays' : e \in t.batch => s = t
               /\ e \in batch' => pc' # "sending"
    <3>1. s \in strays /\ e \in Event /\ e \notin i
      BY <2>1 DEF TypeOK
    <3> QED BY <1>1, <2>1, <3>1 DEF BillInv, PostedOnce
  <2>2. ASSUME pc' = "sending", NEW e \in batch', e \notin vouched
        PROVE  rows'[e] = 0
    <3>1. e \in batch /\ e \in Event /\ e \notin i
      BY <2>2 DEF TypeOK
    <3> QED BY <1>1, <2>2, <3>1 DEF BillInv, PostedOnce
  <2> QED BY <2>1, <2>2 DEF PostedOnce
<1> QED BY <1>1, <1>4, <1>5, <1>6 DEF BillInv

LEMMA StrayLandsBill ==
    ASSUME TypeOK, AccountInv, BillInv, NEW s \in strays, StrayLands(s)
    PROVE  BillInv'
<1>1. PICK dedup \in BOOLEAN : Commit(s.batch, dedup)
  BY FleetType DEF StrayLands
<1>2. s.batch \in Posted
  BY DEF Posted
<1>3. /\ strays' = strays \ {s}
      /\ UNCHANGED <<queue, buffer, batch, emitted, vouched, dedupSeen, pc>>
  BY DEF StrayLands
<1>4. \A e \in s.batch : e \notin vouched =>
         /\ rows[e] = 0
         /\ e \in batch => pc # "sending"
         /\ \A t \in strays' : e \notin t.batch
  BY <1>3 DEF BillInv, PostedOnce
<1>5. pc = "backoff" => dedupSeen
  BY DEF BillInv
<1>6. \A t \in strays' : \A e \in t.batch : e \in s.batch => e \in vouched
  BY <1>4
<1>7. pc' = "sending" => pc = "sending" /\ \A e \in batch' : e \in s.batch => e \in vouched
  BY <1>3, <1>4
<1>8. /\ UNCHANGED <<queue, buffer, emitted, vouched>> /\ strays' \subseteq strays
      /\ batch' \in {batch, {}} /\ (pc' = "backoff" => dedupSeen')
  BY <1>3, <1>5
<1>9. \A e \in s.batch : e \notin vouched => rows[e] = 0
  BY <1>4
<1> QED BY <1>1, <1>2, <1>6, <1>7, <1>8, <1>9, CommittedBill

\* The batch in hand has been carried out, and is given up or kept to be posted
\* again.
LEMMA AttemptBill ==
    ASSUME TypeOK, AccountInv, BillInv, pc = "sending", NEW dedup \in BOOLEAN,
           Commit(batch, dedup),
           UNCHANGED <<strays, queue, buffer, emitted, vouched>>,
           batch' \in {batch, {}}, pc' # "sending", pc' = "backoff" => dedupSeen'
    PROVE  BillInv'
<1>1. batch \in Posted
  BY DEF Posted
<1>2. \A e \in batch : e \notin vouched => rows[e] = 0
  BY DEF BillInv, PostedOnce
<1>3. \A s \in strays : \A e \in s.batch : e \in batch => e \in vouched
  BY DEF BillInv, PostedOnce
<1> QED BY <1>1, <1>2, <1>3, CommittedBill

\* The batch in hand has not been carried out, but may be later.
LEMMA StrayBill ==
    ASSUME TypeOK, AccountInv, BillInv, pc = "sending", Stray \/ UNCHANGED strays,
           UNCHANGED <<rows, recorded, unkept, queue, buffer, emitted, vouched>>,
           batch' \in {batch, {}}, pc' # "sending", pc' = "backoff" => dedupSeen'
    PROVE  BillInv'
<1>. DEFINE gone == [batch |-> batch, left |-> MaxStray, last |-> final]
<1>1. Posted' \subseteq Posted \union {{}}
  BY DEF Stray, Posted
<1>2. \A s \in strays' : s \in strays \/ (s = gone /\ s.batch = batch)
  BY DEF Stray
<1>3. BatchesApart'
  <2>1. ASSUME NEW e \in Event, e \in queue \union buffer \/ e \notin emitted
        PROVE  Fresh(e)'
    <3>1. Fresh(e) /\ e \notin batch
      BY <2>1, PostedNotFresh DEF BillInv, BatchesApart, Posted
    <3> QED BY <1>2, <3>1 DEF Fresh
  <2> QED BY <1>1, <2>1 DEF BillInv, BatchesApart
<1>4. NewPodsRecognise'
  BY <1>1 DEF BillInv, NewPodsRecognise
<1>5. PostedOnce'
  <2>. SUFFICES ASSUME NEW s \in strays', NEW e \in s.batch, e \notin vouched
                PROVE  rows[e] = 0 /\ \A t \in strays' : e \in t.batch => s = t
    BY DEF PostedOnce
  <2>1. CASE e \in batch
    <3>1. rows[e] = 0 /\ \A t \in strays : e \notin t.batch
      BY <2>1 DEF BillInv, PostedOnce
    <3> QED BY <1>2, <3>1
  <2>2. CASE e \notin batch
    <3>1. s \in strays /\ \A t \in strays' : e \in t.batch => t \in strays
      BY <1>2, <2>2
    <3> QED BY <3>1 DEF BillInv, PostedOnce
  <2> QED BY <2>1, <2>2
<1>6. BilledAgainIfMisled'
  BY DEF BillInv, BilledAgainIfMisled, Misled
<1> QED BY <1>3, <1>4, <1>5, <1>6 DEF BillInv

LEMMA EmitBill ==
    ASSUME TypeOK, BillInv, NEW e \in Event, Emit(e) PROVE BillInv'
<1>1. /\ UNCHANGED <<rows, recorded, unkept, strays, batch, vouched, dedupSeen, pc, buffer>>
      /\ e \notin emitted /\ emitted' = emitted \union {e}
      /\ queue' \subseteq queue \union {e}
  BY DEF Emit, IsNext
<1>2. Posted' = Posted
  BY <1>1 DEF Posted
<1>3. \A d \in Event : d \in queue' \union buffer' \/ d \notin emitted' => Fresh(d)'
  BY <1>1 DEF BillInv, BatchesApart, Fresh
<1>4. BatchesApart' /\ NewPodsRecognise'
  BY <1>1, <1>2, <1>3 DEF BillInv, BatchesApart, NewPodsRecognise
<1>5. PostedOnce' /\ BilledAgainIfMisled'
  BY <1>1 DEF BillInv, PostedOnce, BilledAgainIfMisled, Misled
<1> QED BY <1>1, <1>4, <1>5 DEF BillInv

\* A new batch is made of records that have never been in one.
LEMMA DeliverBill ==
    ASSUME TypeOK, StageInv, BillInv, NEW b, NEW to \in Resume, NEW last,
           Deliver(b, to, last), pc \in {"select", "draining"},
           buffer \subseteq b, b \subseteq buffer \union queue,
           queue' = queue \ b,
           UNCHANGED <<rows, recorded, unkept, strays, emitted, vouched>>
    PROVE  BillInv'
<1>1. batch = {} /\ buffer' = {}
  BY DeliverShape DEF StageInv
<1>2. CASE Return(to) /\ UNCHANGED batchVars
  BY <1>1, <1>2, FewerPosted DEF Return, Resume, BillInv
<1>3. CASE pc' = "sending" /\ batch' = b
  <2>1. \A e \in b : Fresh(e)
    BY DEF BillInv, BatchesApart, TypeOK
  <2>2. Posted' \subseteq Posted \union {b}
    BY <1>3 DEF Posted
  <2>3. \A i \in Posted \union recorded : \A e \in i : e \notin b
    BY <1>1, <2>1 DEF Fresh, Posted
  <2>4. \A e \in Event : Fresh(e) => Fresh(e)'
    BY DEF Fresh
  <2>5. \A i, j \in Posted' \union recorded' : \A e \in i : e \in j => i = j
    BY <2>2, <2>3 DEF BillInv, BatchesApart
  <2>6. NewPodsRecognise'
    BY <2>1, <2>2 DEF BillInv, NewPodsRecognise, Fresh
  <2>7. \A s \in strays : \A e \in s.batch : e \notin b
    BY <2>1 DEF Fresh
  <2>8. BatchesApart'
    BY <1>1, <2>4, <2>5 DEF BillInv, BatchesApart
  <2>9. PostedOnce'
    BY <1>1, <1>3, <2>1, <2>7 DEF BillInv, PostedOnce, Fresh
  <2>10. BilledAgainIfMisled'
    BY DEF BillInv, BilledAgainIfMisled, Misled
  <2> QED BY <1>3, <2>6, <2>8, <2>9, <2>10 DEF BillInv
<1> QED BY <1>2, <1>3, DeliverShape

LEMMA TickBill == TypeOK /\ BillInv /\ Tick => BillInv'
<1>. SUFFICES ASSUME TypeOK, BillInv, Tick PROVE BillInv'
  OBVIOUS
<1>1. /\ UNCHANGED <<rows, recorded, unkept, emitted, queue, buffer, batch, pc, dedupSeen, vouched>>
      /\ strays' = {[s EXCEPT !.left = @ - 1] : s \in {r \in strays : r.left > 0}}
  BY DEF Tick
<1>2. \A s \in strays' : \E r \in strays : s = [r EXCEPT !.left = @ - 1] /\ s.batch = r.batch
  BY <1>1 DEF TypeOK
<1>3. Posted' \subseteq Posted
  BY <1>1, <1>2 DEF Posted
<1>4. \A e \in Event : Fresh(e) => Fresh(e)'
  BY <1>1, <1>2 DEF Fresh
<1>5. BatchesApart' /\ NewPodsRecognise'
  BY <1>1, <1>3, <1>4 DEF BillInv, BatchesApart, NewPodsRecognise
<1>6. PostedOnce'
  BY <1>1, <1>2 DEF BillInv, PostedOnce
<1>7. BilledAgainIfMisled'
  BY <1>1 DEF BillInv, BilledAgainIfMisled, Misled
<1> QED BY <1>1, <1>5, <1>6, <1>7 DEF BillInv

\* A batch waits for its next attempt only while the last answer allows it.
LEMMA FailureWaits ==
    ASSUME TypeOK, pc = "sending", NEW answered, NEW may, Failure(answered, may)
    PROVE  /\ batch' \in {batch, {}} /\ pc' # "sending"
           /\ pc' = "backoff" => may
           /\ UNCHANGED <<vouched, buffer>>
<1>1. batch' \in {batch, {}}
  BY FailureShape
<1>2. pc' # "sending" /\ (pc' = "backoff" => may)
  BY DEF Failure, Return, TypeOK
<1> QED BY <1>1, <1>2 DEF Failure

LEMMA RefusedBill == TypeOK /\ AccountInv /\ BillInv /\ Refused => BillInv'
<1>. SUFFICES ASSUME TypeOK, AccountInv, BillInv, Refused PROVE BillInv'
  OBVIOUS
<1>1. PICK dedup \in fleet, retryable \in BOOLEAN, wrote \in RefusedWrites :
         /\ IF wrote THEN Commit(batch, dedup) ELSE UNCHANGED billVars
         /\ dedupSeen' = dedup
         /\ Failure(TRUE, dedup /\ retryable)
  BY DEF Refused
<1>2. pc = "sending" /\ UNCHANGED <<strays, queue, emitted>>
  BY DEF Refused
<1>3. /\ batch' \in {batch, {}} /\ pc' # "sending"
      /\ pc' = "backoff" => dedup /\ retryable
      /\ UNCHANGED <<vouched, buffer>>
  BY <1>1, <1>2, FailureWaits
<1>4. dedup \in BOOLEAN /\ (pc' = "backoff" => dedupSeen')
  BY <1>1, <1>3, FleetType
<1>5. CASE Commit(batch, dedup)
  BY <1>2, <1>3, <1>4, <1>5, AttemptBill
<1>6. CASE UNCHANGED <<rows, recorded, unkept>>
  BY <1>2, <1>3, <1>4, <1>6, FewerPosted
<1> QED BY <1>1, <1>5, <1>6

LEMMA UnansweredBill ==
    ASSUME TypeOK, AccountInv, BillInv, AnsweredOnTheWay \/ Unanswered
    PROVE  BillInv'
<1>1. /\ pc = "sending"
      /\ Stray \/ UNCHANGED strays
      /\ UNCHANGED <<rows, recorded, unkept, queue, emitted, vouched>>
  BY DEF AnsweredOnTheWay, Unanswered, Failure
<1>2. PICK answered \in BOOLEAN, may \in BOOLEAN :
         Failure(answered, may) /\ (may => dedupSeen')
  BY DEF AnsweredOnTheWay, Unanswered, TypeOK
<1>3. /\ batch' \in {batch, {}} /\ pc' # "sending"
      /\ pc' = "backoff" => may
      /\ UNCHANGED <<vouched, buffer>>
  BY <1>1, <1>2, FailureWaits
<1> QED BY <1>1, <1>2, <1>3, StrayBill

LEMMA NextBill == TypeOK /\ StageInv /\ AccountInv /\ BillInv /\ [Next]_vars => BillInv'
<1>. SUFFICES ASSUME TypeOK, StageInv, AccountInv, BillInv, [Next]_vars PROVE BillInv'
  OBVIOUS
<1>0. pc = "backoff" => dedupSeen
  BY DEF BillInv
<1>1. CASE Shutdown \/ HandlersGone \/ CancelChanged \/ Exit \/ Rollout \/ UNCHANGED vars
  BY <1>0, <1>1, FewerPosted
     DEF Shutdown, HandlersGone, CancelChanged, Exit, Return, Rollout, vars
<1>2. CASE Delivered
  <2>1. PICK dedup \in fleet : Commit(batch, dedup) /\ dedupSeen' = dedup
    BY <1>2 DEF Delivered
  <2>2. dedup \in BOOLEAN
    BY <2>1, FleetType
  <2>3. /\ pc = "sending" /\ batch' = {} /\ pc' \notin {"backoff", "sending"}
        /\ UNCHANGED <<strays, queue, buffer, emitted, vouched>>
    BY <1>2 DEF Delivered, Free, Return, TypeOK
  <2> QED BY <2>1, <2>2, <2>3, AttemptBill
<1>3. CASE Resend
  <2>1. vouched' = vouched \union batch /\ UNCHANGED batch /\ pc' = "sending"
    BY <1>0, <1>3 DEF Resend, Attempt
  <2> QED BY <1>3, <2>1, FewerPosted DEF Resend
<1>4. CASE Receive
  <2>1. PICK e \in queue :
           /\ queue' = queue \ {e}
           /\ IF Cardinality(buffer) + 1 >= MaxBatch
              THEN Deliver(buffer \union {e}, "select", FALSE)
              ELSE /\ buffer' = buffer \union {e}
                   /\ Return("select")
                   /\ UNCHANGED <<batchVars, dropped>>
    BY <1>4 DEF Receive
  <2>2. UNCHANGED <<rows, recorded, unkept, strays, emitted, vouched, dedupSeen>> /\ pc = "select"
    BY <1>4 DEF Receive
  <2>3. CASE Deliver(buffer \union {e}, "select", FALSE)
    <3>1. queue' = queue \ (buffer \union {e})
      BY <2>1 DEF TypeOK, AccountInv, AccountOf
    <3>2. "select" \in Resume /\ buffer \union {e} \subseteq buffer \union queue
      BY DEF Resume
    <3> QED BY <2>2, <2>3, <3>1, <3>2, DeliverBill
  <2>4. CASE buffer' = buffer \union {e} /\ Return("select") /\ UNCHANGED <<batchVars, dropped>>
    BY <2>1, <2>2, <2>4, FewerPosted DEF Return
  <2> QED BY <2>1, <2>3, <2>4
<1>5. CASE ReceiveNone
  <2>1. CASE buffer = {}
    BY <1>5, <2>1, FewerPosted DEF ReceiveNone
  <2>2. CASE buffer # {}
    BY <1>5, <2>2, DeliverBill DEF ReceiveNone, Resume
  <2> QED BY <2>1, <2>2
<1>6. CASE FlushTick
  BY <1>6, FilledType, DeliverBill DEF FlushTick, Resume
<1>7. CASE Drain
  <2>1. PICK b \in Filled :
           /\ queue' = queue \ b
           /\ IF b = {}
              THEN pc' = "exiting" /\ UNCHANGED <<buffer, batchVars, dropped>>
              ELSE Deliver(b, "draining", TRUE)
    BY <1>7 DEF Drain
  <2>2. CASE b = {}
    BY <1>7, <2>1, <2>2, FewerPosted DEF Drain
  <2>3. CASE b # {}
    BY <1>7, <2>1, <2>3, FilledType, DeliverBill DEF Drain, Resume
  <2> QED BY <2>2, <2>3
<1> QED BY <1>1, <1>2, <1>3, <1>4, <1>5, <1>6, <1>7, EmitBill, StrayLandsBill,
           TickBill, RefusedBill, UnansweredBill
        DEF Next, WorkerStep, AttemptEnds

\* Whatever the pods of the control plane are and whoever replaces them, upgrades
\* one by one and rollbacks included, nothing is billed twice but records that
\* were posted again on the word of a pod that recognises them and were billed by
\* one that does not (SenderState::may_resend).
THEOREM BilledOnceUnlessMisled == Spec => []BilledAgainIfMisled
<1>1. BillInv => BilledAgainIfMisled
  BY DEF BillInv
<1>2. Spec => []BillInv
  BY AccountInvariant, InitBill, NextBill, PTL DEF Spec
<1> QED BY <1>1, <1>2, PTL
=============================================================================
