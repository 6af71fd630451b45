--------------------------- MODULE UsageDelivery ---------------------------
(***************************************************************************)
(* The delivery of usage records from the gateway to the control plane     *)
(* (crates/sibyl-gateway-obs: usage.rs; crates/sibyl-gateway-server:       *)
(* telemetry.rs).                                                          *)
(*                                                                         *)
(* A request handler puts a record, without ever waiting, in a bounded     *)
(* queue.  One worker takes the records out, batches them and posts one    *)
(* batch at a time.  A batch whose post failed is posted again, under the  *)
(* same id, while what the control plane has answered says that it         *)
(* de-duplicates batches; it is given up when its oldest record is too     *)
(* old, when the control plane has refused it too often, or when the       *)
(* gateway shuts down.  What is given up is counted.                       *)
(*                                                                         *)
(* The control plane is several pods behind one address.  A new pod        *)
(* commits the id of a batch with its rows, recognises a batch committed   *)
(* before, and says so in a header of each of its responses; an old pod    *)
(* does none of this.  A request may be answered, refused, answered by a   *)
(* proxy on the way, or not answered at all, and a request that nobody     *)
(* waits for any more may still be carried out.                            *)
(***************************************************************************)
EXTENDS Integers, FiniteSets

CONSTANTS
    Event,          \* the usage records, by the order they are emitted in
    MaxBatch,       \* MAX_BATCH
    QueueCapacity,  \* QUEUE_CAPACITY
    RetryBudget,    \* RETRY_BUDGET
    InitialBackoff, \* RETRY_INITIAL_BACKOFF
    MaxBackoff,     \* RETRY_MAX_BACKOFF
    MaxAnswered,    \* MAX_ANSWERED_FAILURES
    Timeout,        \* the timeout of the HTTP client
    MaxStray,       \* how long a request nobody waits for may still be carried out
    RefusedWrites,  \* whether a pod that answers with an error may have committed
    Fleets,         \* the fleets of control-plane pods there may be at first
    Rollouts        \* the pairs of fleets of which the second may replace the first

\* A fleet is the set of its kinds of pods: whether they de-duplicate.
Old == {FALSE}
New == {TRUE}
Mixed == {FALSE, TRUE}
Fleet == {Old, New, Mixed}

ASSUME UsageAssumption ==
    /\ Event \subseteq Nat /\ IsFiniteSet(Event)
    /\ MaxBatch \in Nat \ {0} /\ QueueCapacity \in Nat \ {0}
    /\ RetryBudget \in Nat \ {0} /\ MaxAnswered \in Nat \ {0}
    /\ InitialBackoff \in Nat \ {0} /\ MaxBackoff \in Nat \ {0}
    /\ InitialBackoff <= MaxBackoff
    /\ Timeout \in Nat \ {0} /\ MaxStray \in Nat
    /\ RefusedWrites \subseteq BOOLEAN
    /\ Fleets \subseteq Fleet /\ Rollouts \subseteq Fleet \X Fleet

VARIABLES
    fleet,      \* the pods of the control plane
    rows,       \* for each record, how many times it has been billed
    recorded,   \* the ids of batches new pods have committed
    unkept,     \* history: the records old pods have billed
    strays,     \* the requests on their way that nobody waits for
    age,        \* the time since the occurred_at of each record that may be billed
    emitted,    \* the records that were emitted
    senders,    \* some handler may still emit
    queue,      \* the records in the channel
    dropped,    \* for each record, what it added to the counter of drops
    late,       \* history: emitted after the worker's last look at the channel
    pc,         \* where the worker is
    resume,     \* where it goes once the batch in hand is settled
    buffer,     \* run: buffer
    batch,      \* deliver: events, whose set stands for the batch's id
    left,       \* deliver: the time to the deadline
    wait,       \* deliver: the time to the next attempt, or that this one took
    backoff,    \* deliver: backoff
    refusals,   \* deliver: answered_failures
    final,      \* deliver: last_attempt
    dedupSeen,  \* SenderState.dedup_seen
    acked,      \* history: the records the worker believes delivered
    vouched,    \* history: posted again when the last answer was a new pod's
    cancel,     \* the value of the shutdown watch
    unseen      \* its last change has not been reported to the worker

billVars == <<rows, recorded, unkept>>
cpVars == <<fleet, billVars, strays>>
emitVars == <<emitted, senders, dropped, late>>
batchVars == <<resume, batch, left, wait, backoff, refusals, final>>
stopVars == <<cancel, unseen>>
ackVars == <<dedupSeen, acked, vouched>>
vars == <<cpVars, age, emitVars, queue, pc, buffer, batchVars, ackVars, stopVars>>

Stage == {"select", "sending", "backoff", "draining", "exiting", "stopped"}

Least(a, b) == IF a < b THEN a ELSE b
Before(n) == IF n > 0 THEN n - 1 ELSE 0

\* The age beyond which nothing tells two ages apart.
AgeCap == RetryBudget + Timeout + MaxStray + 1

-----------------------------------------------------------------------------
(* The control plane.                                                      *)

\* A pod, which de-duplicates or not, carries out the request of batch b.
Commit(b, dedup) ==
    IF dedup /\ b \in recorded
    THEN UNCHANGED billVars
    ELSE /\ rows' = [e \in Event |-> rows[e] + IF e \in b THEN 1 ELSE 0]
         /\ recorded' = IF dedup THEN recorded \union {b} ELSE recorded
         /\ unkept' = IF dedup THEN unkept ELSE unkept \union b

\* The request of the batch in hand is no longer waited for.  A batch has two
\* such requests of the same instant only if a shutdown cuts the wait between
\* them short and makes the second the last.
Stray ==
    strays' = strays \union
                {[batch |-> batch, left |-> MaxStray, last |-> final]}

StrayLands(s) ==
    /\ \E dedup \in fleet : Commit(s.batch, dedup)
    /\ strays' = strays \ {s}
    /\ UNCHANGED <<fleet, age, emitVars, queue, pc, buffer, batchVars, ackVars,
                   stopVars>>

Rollout ==
    /\ \E f \in Fleet : <<fleet, f>> \in Rollouts /\ fleet' = f
    /\ UNCHANGED <<billVars, strays, age, emitVars, queue, pc, buffer, batchVars,
                   ackVars, stopVars>>

-----------------------------------------------------------------------------
(* The handlers.                                                           *)

\* Records are numbered in the order they are emitted.
IsNext(e) == e \notin emitted /\ \A d \in Event : d < e => d \in emitted

\* Slip: a record the full queue refuses is not counted.
EmitUncounted(e) ==
    /\ senders
    /\ IsNext(e)
    /\ emitted' = emitted \union {e}
    /\ queue' = IF pc # "stopped" /\ Cardinality(queue) < QueueCapacity
                THEN queue \union {e} ELSE queue
    /\ late' = IF pc = "exiting" THEN late \union {e} ELSE late
    /\ UNCHANGED <<cpVars, age, senders, dropped, pc, buffer, batchVars, ackVars,
                   stopVars>>

\* try_emit: a full or closed queue costs the record, and counts it.
Emit(e) ==
    /\ senders
    /\ IsNext(e)
    /\ emitted' = emitted \union {e}
    /\ IF pc # "stopped" /\ Cardinality(queue) < QueueCapacity
       THEN /\ queue' = queue \union {e}
            /\ late' = IF pc = "exiting" THEN late \union {e} ELSE late
            /\ UNCHANGED dropped
       ELSE /\ dropped' = [dropped EXCEPT ![e] = @ + 1]
            /\ UNCHANGED <<queue, late>>
    /\ UNCHANGED <<cpVars, age, senders, pc, buffer, batchVars, ackVars, stopVars>>

\* The shutdown coordinator flips the watch once no request is in flight;
\* the listeners close after that, and with them go the handlers.
Shutdown ==
    /\ ~cancel
    /\ cancel' = TRUE /\ unseen' = TRUE
    /\ UNCHANGED <<cpVars, age, emitVars, queue, pc, buffer, batchVars, ackVars>>

HandlersGone ==
    /\ cancel /\ senders
    /\ senders' = FALSE
    /\ UNCHANGED <<cpVars, age, emitted, dropped, late, queue, pc, buffer,
                   batchVars, ackVars, stopVars>>

-----------------------------------------------------------------------------
(* Delivering one batch.                                                   *)

\* Slip: only the notification itself is taken for a shutdown.
ReturnTo(to) == pc' = to

\* Back in the loop of run, the shutdown is looked for whichever branch ran.
Return(to) == pc' = IF to = "select" /\ cancel THEN "draining" ELSE to

\* Records that are given up are counted, each once.
Count(b) == dropped' = [e \in Event |-> dropped[e] + IF e \in b THEN 1 ELSE 0]

\* remaining_budget: what the oldest record of the batch has left.
Remaining(e) == IF age[e] < RetryBudget THEN RetryBudget - age[e] ELSE 0

\* Slip: the budget is that of the first attempt.
BudgetOfAttempt(n, b) == n = RetryBudget

IsBudget(n, b) ==
    /\ \E e \in b : n = Remaining(e)
    /\ \A e \in b : n <= Remaining(e)

\* The worker has no batch in hand.
Free ==
    /\ resume' = "select" /\ batch' = {}
    /\ left' = 0 /\ wait' = 0 /\ backoff' = 0 /\ refusals' = 0
    /\ final' = FALSE

Attempt == pc' = "sending" /\ wait' = Timeout

\* flush and the start of deliver, which goes on with "to".
Deliver(b, to, last) ==
    /\ buffer' = {}
    /\ \E n \in 0 .. RetryBudget :
         /\ IsBudget(n, b)
         /\ IF n = 0
            THEN Count(b) /\ Return(to) /\ UNCHANGED batchVars
            ELSE /\ Attempt
                 /\ resume' = to /\ batch' = b /\ left' = n
                 /\ backoff' = InitialBackoff /\ refusals' = 0 /\ final' = last
                 /\ UNCHANGED dropped

\* Slip: a batch is not given up for its age.
FailureAtAnyAge(answered, may) ==
    LET refused == refusals + IF answered THEN 1 ELSE 0 IN
    /\ UNCHANGED <<acked, vouched, buffer>>
    /\ IF ~may \/ final \/ refused >= MaxAnswered
       THEN Count(batch) /\ Return(resume) /\ Free
       ELSE /\ pc' = "backoff"
            /\ wait' = Least(backoff, left)
            /\ refusals' = refused
            /\ UNCHANGED <<dropped, resume, batch, left, backoff, final>>

\* An attempt failed: give the batch up, or wait before the next attempt.
Failure(answered, may) ==
    LET refused == refusals + IF answered THEN 1 ELSE 0 IN
    /\ UNCHANGED <<acked, vouched, buffer>>
    /\ IF ~may \/ final \/ refused >= MaxAnswered \/ left = 0
       THEN Count(batch) /\ Return(resume) /\ Free
       ELSE /\ pc' = "backoff"
            /\ wait' = Least(backoff, left)
            /\ refusals' = refused
            /\ UNCHANGED <<dropped, resume, batch, left, backoff, final>>

Delivered ==
    /\ pc = "sending"
    /\ \E dedup \in fleet : Commit(batch, dedup) /\ dedupSeen' = dedup
    /\ acked' = acked \union batch
    /\ Return(resume) /\ Free
    /\ UNCHANGED <<fleet, strays, age, emitVars, queue, buffer, vouched, stopVars>>

\* A pod answers with an error, before or after it committed the batch.
Refused ==
    /\ pc = "sending"
    /\ \E dedup \in fleet, retryable \in BOOLEAN, wrote \in RefusedWrites :
         /\ IF wrote THEN Commit(batch, dedup) ELSE UNCHANGED billVars
         /\ dedupSeen' = dedup
         /\ Failure(TRUE, dedup /\ retryable)
    /\ UNCHANGED <<fleet, strays, age, emitted, senders, late, queue, stopVars>>

\* A proxy in front of the pods answers, without the header; the request may
\* still reach a pod.
AnsweredOnTheWay ==
    /\ pc = "sending"
    /\ Stray \/ UNCHANGED strays
    /\ dedupSeen' = FALSE
    /\ Failure(TRUE, FALSE)
    /\ UNCHANGED <<fleet, billVars, age, emitted, senders, late, queue, stopVars>>

\* Slip: what is not answered is posted again.
UnansweredResent ==
    /\ pc = "sending"
    /\ Stray \/ UNCHANGED strays
    /\ Failure(FALSE, TRUE)
    /\ UNCHANGED <<fleet, billVars, dedupSeen, age, emitted, senders, late, queue,
                   stopVars>>

\* The connection fails, or the client's timeout expires.
Unanswered ==
    /\ pc = "sending"
    /\ Stray \/ UNCHANGED strays
    /\ Failure(FALSE, dedupSeen)
    /\ UNCHANGED <<fleet, billVars, dedupSeen, age, emitted, senders, late, queue,
                   stopVars>>

\* The wait is over, or the shutdown cuts it short; then this attempt is the
\* last.
Resend ==
    /\ pc = "backoff"
    /\ \/ wait = 0 /\ UNCHANGED unseen
       \/ unseen /\ unseen' = FALSE
    /\ Attempt
    /\ final' = (final \/ cancel)
    /\ backoff' = Least(2 * backoff, MaxBackoff)
    /\ vouched' = IF dedupSeen THEN vouched \union batch ELSE vouched
    /\ UNCHANGED <<cpVars, age, emitVars, queue, buffer, resume, batch, left,
                   refusals, dedupSeen, acked, cancel>>

-----------------------------------------------------------------------------
(* The loop of the worker.                                                 *)

\* fill_ready_batch: what the buffer may be once it has been filled.
Filled ==
    {buffer \union more : more \in
        {s \in SUBSET queue :
            Cardinality(s) = Least(Cardinality(queue), MaxBatch - Cardinality(buffer))}}

LoopFrame == UNCHANGED <<cpVars, age, emitted, senders, late, ackVars, cancel>>

Receive ==
    /\ pc = "select"
    /\ \E e \in queue :
         /\ queue' = queue \ {e}
         /\ IF Cardinality(buffer) + 1 >= MaxBatch
            THEN Deliver(buffer \union {e}, "select", FALSE)
            ELSE /\ buffer' = buffer \union {e}
                 /\ Return("select")
                 /\ UNCHANGED <<batchVars, dropped>>
    /\ UNCHANGED unseen /\ LoopFrame

\* The channel is empty and has no sender left.
ReceiveNone ==
    /\ pc = "select"
    /\ ~senders /\ queue = {}
    /\ IF buffer = {}
       THEN pc' = "exiting" /\ UNCHANGED <<buffer, batchVars, dropped>>
       ELSE Deliver(buffer, "exiting", TRUE)
    /\ UNCHANGED <<queue, unseen>> /\ LoopFrame

FlushTick ==
    /\ pc = "select"
    /\ buffer # {}
    /\ \E b \in Filled : queue' = queue \ b /\ Deliver(b, "select", FALSE)
    /\ UNCHANGED unseen /\ LoopFrame

CancelChanged ==
    /\ pc = "select"
    /\ unseen
    /\ unseen' = FALSE
    /\ Return("select")
    /\ UNCHANGED <<queue, buffer, batchVars, dropped>> /\ LoopFrame

\* The final drain: what is still queued is posted once, batch by batch.
Drain ==
    /\ pc = "draining"
    /\ \E b \in Filled :
         /\ queue' = queue \ b
         /\ IF b = {}
            THEN pc' = "exiting" /\ UNCHANGED <<buffer, batchVars, dropped>>
            ELSE Deliver(b, "draining", TRUE)
    /\ UNCHANGED unseen /\ LoopFrame

\* run returns, and the channel is closed.
Exit ==
    /\ pc = "exiting"
    /\ pc' = "stopped"
    /\ queue' = {}
    /\ UNCHANGED <<buffer, batchVars, dropped, unseen>> /\ LoopFrame

\* The records that may still be billed: of no other does the age matter.
Billable ==
    queue \union buffer \union batch \union UNION {s.batch : s \in strays}

\* Time passes, but past no timer that is due.
Tick ==
    /\ pc \in {"sending", "backoff"} => wait > 0
    /\ age' = [e \in Event |-> IF e \in Billable THEN Least(age[e] + 1, AgeCap)
                               ELSE 0]
    /\ left' = Before(left) /\ wait' = Before(wait)
    /\ strays' = {[s EXCEPT !.left = @ - 1] : s \in {r \in strays : r.left > 0}}
    /\ UNCHANGED <<fleet, billVars, emitVars, queue, pc, buffer, resume, batch,
                   backoff, refusals, final, ackVars, stopVars>>

-----------------------------------------------------------------------------
\* Without a client (build_client failed) the worker only returns.
Init ==
    /\ fleet \in Fleets
    /\ rows = [e \in Event |-> 0] /\ recorded = {} /\ unkept = {} /\ strays = {}
    /\ age = [e \in Event |-> 0]
    /\ emitted = {} /\ senders = TRUE
    /\ dropped = [e \in Event |-> 0] /\ late = {}
    /\ queue = {} /\ buffer = {}
    /\ pc \in {"select", "exiting"}
    /\ resume = "select" /\ batch = {}
    /\ left = 0 /\ wait = 0 /\ backoff = 0 /\ refusals = 0 /\ final = FALSE
    /\ dedupSeen = FALSE /\ acked = {} /\ vouched = {}
    /\ cancel = FALSE /\ unseen = FALSE

AttemptEnds == Delivered \/ Refused \/ AnsweredOnTheWay \/ Unanswered

WorkerStep ==
    \/ Receive \/ ReceiveNone \/ FlushTick \/ CancelChanged
    \/ Resend \/ Drain \/ Exit

Next ==
    \/ \E e \in Event : Emit(e)
    \/ Shutdown
    \/ HandlersGone
    \/ WorkerStep
    \/ AttemptEnds
    \/ \E s \in strays : StrayLands(s)
    \/ Rollout
    \/ Tick

Spec == Init /\ [][Next]_vars

\* The worker is scheduled, the client's timeout ends every attempt, and time
\* goes on.
FairSpec ==
    /\ Spec
    /\ WF_vars(WorkerStep)
    /\ WF_vars(AttemptEnds)
    /\ WF_vars(Tick)

-----------------------------------------------------------------------------
(* Correctness.                                                            *)

\* The queue, the buffer and the batch in hand never exceed their limits, and
\* the worker's timers and counters stay within theirs.
TypeOK ==
    /\ fleet \in Fleet
    /\ rows \in [Event -> Nat] /\ recorded \subseteq SUBSET Event
    /\ unkept \subseteq Event /\ vouched \subseteq Event
    /\ strays \subseteq [batch : SUBSET Event, left : 0 .. MaxStray, last : BOOLEAN]
    /\ age \in [Event -> 0 .. AgeCap]
    /\ emitted \subseteq Event /\ senders \in BOOLEAN
    /\ dropped \in [Event -> Nat] /\ late \subseteq Event
    /\ queue \subseteq Event /\ buffer \subseteq Event /\ batch \subseteq Event
    /\ Cardinality(queue) <= QueueCapacity
    /\ Cardinality(buffer) < MaxBatch /\ Cardinality(batch) <= MaxBatch
    /\ pc \in Stage /\ resume \in {"select", "draining", "exiting"}
    /\ left \in 0 .. RetryBudget /\ wait \in Nat
    /\ backoff \in 0 .. MaxBackoff /\ refusals \in 0 .. MaxAnswered - 1
    /\ final \in BOOLEAN /\ dedupSeen \in BOOLEAN
    /\ acked \subseteq Event
    /\ cancel \in BOOLEAN /\ unseen \in BOOLEAN

\* How many times record e is accounted for: held, delivered or counted lost.
Accounts(e) ==
    dropped[e] + Cardinality({s \in {<<"queue", queue>>, <<"buffer", buffer>>,
                                     <<"batch", batch>>, <<"acked", acked>>} :
                                e \in s[2]})

\* A record that was emitted is held, delivered or counted as dropped, and only
\* once ("emitted == delivered + dropped" of try_emit), through overflows,
\* batches given up and shutdowns; except for a record that was put in the
\* queue between the worker's last look at it and its closing.
LossIsCounted ==
    \A e \in emitted :
        Accounts(e) = 1 \/ (Accounts(e) = 0 /\ e \in late /\ pc = "stopped")

\* What the worker takes for delivered has been billed, and nothing is billed
\* twice: not by a batch posted again after it was committed and its answer
\* lost, nor by the stray request of an attempt that was given up.
BilledOnce == \A e \in Event : rows[e] <= 1 /\ (e \in acked => rows[e] >= 1)

\* The records about which the pods have misled the worker: it posted them again
\* on the word of a pod that recognises them, and one that does not billed them.
Misled == vouched \intersect unkept

\* Whatever the pods are and whoever replaces them, nothing is billed twice but
\* what they misled the worker about.
BilledAgainIfMisled == \A e \in Event : rows[e] > 1 => e \in Misled

\* What has become of a record.
FateOf(e) ==
    IF e \notin emitted THEN "none"
    ELSE IF dropped[e] > 0 THEN "dropped"
    ELSE IF e \in acked THEN "delivered"
    ELSE IF pc = "stopped" THEN "lost"
    ELSE "held"

Fates == [e \in Event |-> FateOf(e)]

\* How often one batch can be posted: the first time, once for each step of the
\* backoff on its way to the longest, once for each longest backoff the budget
\* has room for, and a last time when the budget or a shutdown cuts a backoff
\* short.
MostAttempts == 2 + (MaxBackoff - InitialBackoff) + RetryBudget \div MaxBackoff

\* The delivery settles and bills records as UsageLedger says: each at most
\* once, and one the pods misled the worker about no more often than its batch
\* can be posted.
Ledger == INSTANCE UsageLedger WITH fate <- Fates, misled <- Misled,
                                    Copies <- MostAttempts

KeepsLedger == Ledger!Spec

\* A record is billed no more often than its batch can be posted.
RowsAreBounded == \A e \in Event : rows[e] <= MostAttempts

\* No record is billed when the control plane may have sealed its hour: a row
\* lands while the record is no older than the budget, the time of the attempt
\* that began within it, and what a stray request takes.
BilledInTime ==
    [][\A e \in Event :
         rows'[e] > rows[e] => age[e] <= RetryBudget + Timeout + MaxStray]_vars

\* Whatever the control plane answers or does not answer, no batch holds the
\* records behind it for ever: each ends up delivered, counted, or late.
EventsSettle ==
    <>[](\A e \in emitted : e \in acked \/ dropped[e] > 0 \/ e \in late)

\* Wherever the worker can wait, it is still to be told of a shutdown, although
\* each of its two waits may consume the notification: the backoff of a batch
\* that has an attempt left, and the select.
ShutdownIsNoticed ==
    /\ cancel /\ pc \in {"select", "backoff"} => unseen
    /\ cancel /\ ~unseen /\ pc = "sending" => final

\* The records the worker has not yet seen the end of, nor taken in hand.
Ahead == (Event \ emitted) \union queue \union buffer

\* How many steps a worker that has to stop may still take, from a stage, with
\* or without an attempt left, and with n records ahead of it.
StepsFrom(stage, last, n) ==
    CASE stage = "stopped" -> 0
      [] stage = "exiting" -> 1
      [] stage = "draining" -> 4 * n + 2
      [] stage = "select" -> 4 * n + 3
      [] stage = "sending" -> 4 * n + (IF last THEN 3 ELSE 5)
      [] stage = "backoff" -> 4 * n + 4

StepsLeft == StepsFrom(pc, final, Cardinality(Ahead))

\* After a shutdown each step of the worker brings its end nearer, whatever the
\* handlers still emit and the control plane answers: nothing makes it longer.
WorkerWindsDown ==
    [][cancel =>
         /\ StepsLeft' <= StepsLeft
         /\ WorkerStep \/ AttemptEnds => StepsLeft' < StepsLeft]_vars

\* A shutdown ends: the worker finds out about it even if an attempt to deliver
\* has consumed the notification, and waits for no batch that keeps failing.
ShutdownEnds == cancel ~> (pc = "stopped")
=============================================================================
