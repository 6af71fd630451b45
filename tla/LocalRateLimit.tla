--------------------------- MODULE LocalRateLimit ---------------------------
(***************************************************************************)
(* The gateway's in-process rate limiter (crates/sibyl-gateway-ratelimit:  *)
(* limiter.rs, window.rs, store/local.rs) and the life of a request that   *)
(* goes through it (crates/sibyl-gateway-proxy: quota.rs, chat.rs).        *)
(*                                                                         *)
(* A request reserves the limits that apply to it one layer after the      *)
(* other (its API key, the model, the policies).  A layer that refuses it  *)
(* drops the layers reserved before.  Once all are reserved the request is *)
(* served; then it is committed (its tokens are counted and its slots      *)
(* returned, layer by layer), or dropped, or turned into a stream that     *)
(* holds the slots until it ends, is billed, and lets them go.             *)
(*                                                                         *)
(* Requests run in parallel on many threads.  Each operation on one layer  *)
(* is atomic under the mutex of the layer's key, but the clock it goes by  *)
(* was read before the mutex was taken.                                    *)
(***************************************************************************)
EXTENDS Integers, Sequences, FiniteSets

CONSTANTS
    Request,      \* the requests
    Key,          \* the keys limits are counted under
    Layers,       \* for each request, its layers' keys in the order reserved
    TokenDims,    \* the dimensions that count tokens, in the order checked
    RequestDims,  \* the dimensions that count requests, in the order checked
    PeekDims,     \* the dimensions the response headers report
    Window,       \* the length of each dimension's window
    Limit,        \* for each key and dimension, the limit
    Concurrency,  \* for each key, the concurrency limit
    Unlimited,    \* no limit
    MaxTokens,    \* bound: tokens of one response
    MaxTime,      \* bound: the clock
    MaxLag        \* bound: seconds from reading the clock to taking the mutex

RangeOf(s) == {s[i] : i \in DOMAIN s}

TokenDim == RangeOf(TokenDims)
RequestDim == RangeOf(RequestDims)
Dim == TokenDim \union RequestDim

ASSUME RateLimitAssumption ==
    /\ IsFiniteSet(Request)
    /\ TokenDims \in Seq(TokenDim) /\ RequestDims \in Seq(RequestDim)
    /\ TokenDim \intersect RequestDim = {}
    /\ PeekDims \subseteq Dim
    /\ Layers \in [Request -> Seq(Key)]
    /\ \A r \in Request :
         /\ Len(Layers[r]) > 0
         /\ \A i, j \in DOMAIN Layers[r] : Layers[r][i] = Layers[r][j] => i = j
    /\ Window \in [Dim -> Nat \ {0}]
    /\ Unlimited \notin Nat
    /\ Limit \in [Key -> [Dim -> Nat \union {Unlimited}]]
    /\ Concurrency \in [Key -> Nat \union {Unlimited}]
    /\ MaxTokens \in Nat /\ MaxTime \in Nat /\ MaxLag \in Nat

VARIABLES
    clock,     \* the wall clock, in seconds
    inFlight,  \* KeyState.in_flight
    window,    \* the bucket each counter is in: window_start / window_secs
    count,     \* the count of each counter
    pc,        \* where each request is
    first,     \* a request holds the reservations of its layers
    last,      \*   first .. last
    billed,    \* the layers a stream that has ended has been billed to
    tokens,    \* the tokens of the response
    (* history, which no action reads *)
    spent,     \* what was counted in each window of each counter
    wiped      \* what a stale reading has wiped of it

counters == <<inFlight, window, count, wiped>>
vars == <<clock, inFlight, window, count, pc, first, last, billed, tokens, spent, wiped>>

Stage == {"reserving", "serving", "committing", "streaming", "billing",
          "dropping", "done"}

Bucket(d, now) == now \div Window[d]

Buckets == {Bucket(d, now) : d \in Dim, now \in 0 .. MaxTime}

\* What a thread that takes a mutex now may have read from the clock.
Readings == {now \in 0 .. clock : clock - now <= MaxLag}

Limited(k, d) == Limit[k][d] # Unlimited

-----------------------------------------------------------------------------
(* The counters of one key.                                                *)

\* roll_if_stale: what the counter of d holds when it is used at "now".
Rolled(k, d, now) == IF window[k][d] = Bucket(d, now) THEN count[k][d] ELSE 0

\* A reading older than a window wipes what that window has counted, and what
\* the window it goes back to had.
Wipe(k, ds, now) ==
    wiped' = [wiped EXCEPT ![k] =
                [d \in Dim |-> [b \in Buckets |->
                    IF /\ d \in ds
                       /\ Bucket(d, now) < window[k][d]
                       /\ b \in Bucket(d, now) .. window[k][d]
                    THEN spent[k][d][b] ELSE @[d][b]]]]

\* The counters of the dimensions ds of k are used at "now": each is rolled,
\* forwards or backwards, and those of the dimensions gaining gain n.
Use(k, ds, now, gaining, n) ==
    /\ Wipe(k, ds, now)
    /\ window' = [window EXCEPT ![k] =
                    [d \in Dim |-> IF d \in ds THEN Bucket(d, now) ELSE @[d]]]
    /\ count' = [count EXCEPT ![k] =
                    [d \in Dim |->
                        IF d \notin ds THEN @[d]
                        ELSE IF d \in gaining THEN Rolled(k, d, now) + n
                        ELSE Rolled(k, d, now)]]

\* The history of the counters, which forgets no window.
Record(k, gaining, now, n) ==
    spent' = [spent EXCEPT ![k] =
                [d \in Dim |-> [b \in Buckets |->
                    @[d][b] + (IF d \in gaining /\ b = Bucket(d, now) THEN n ELSE 0)]]]

\* add: a counter that is not checked gains tokens.
AddTokens(k, now, n) ==
    /\ Use(k, TokenDim, now, TokenDim, n)
    /\ Record(k, TokenDim, now, n)

\* Slip: a count that has landed on the limit is still admissible (#950).
FullPastLimit(k, d, now) == Limited(k, d) /\ Rolled(k, d, now) > Limit[k][d]

\* Slip: token limits are left to the commit.
FullRequestsOnly(k, d, now) ==
    Limited(k, d) /\ d \in RequestDim /\ Rolled(k, d, now) >= Limit[k][d]

\* Slip: the counter is compared before it is rolled.
FullUnrolled(k, d, now) == Limited(k, d) /\ count[k][d] >= Limit[k][d]

\* is_exceeded, and check_and_increment of one more request.
Full(k, d, now) == Limited(k, d) /\ Rolled(k, d, now) >= Limit[k][d]

Checks == TokenDims \o RequestDims

\* The limited dimensions of k among the first n that are checked.
Checked(k, n) == {Checks[i] : i \in {j \in 1 .. n : Limited(k, Checks[j])}}

\* Slip: one slot too many.
AtCapacityPastLimit(k) == Concurrency[k] # Unlimited /\ inFlight[k] > Concurrency[k]

AtCapacity(k) == Concurrency[k] # Unlimited /\ inFlight[k] >= Concurrency[k]

Saturating(n) == IF n > 0 THEN n - 1 ELSE 0

TakeSlot(k) == inFlight' = [inFlight EXCEPT ![k] = @ + 1]
ReturnSlot(k) == inFlight' = [inFlight EXCEPT ![k] = Saturating(@)]

-----------------------------------------------------------------------------
(* Reserving the layers of a request.                                      *)

\* Slip: the layers reserved before the one that refuses are forgotten.
TurnAwayForgetting(r) == pc' = [pc EXCEPT ![r] = "done"]

\* A refused request drops the layers it has.
TurnAway(r) ==
    pc' = [pc EXCEPT ![r] = IF last[r] = 0 THEN "done" ELSE "dropping"]

\* Slip: the refused request stays counted in the windows checked before.
RefuseWindowKeepingCounts(r, k, now) ==
    /\ ~AtCapacity(k)
    /\ \E n \in DOMAIN Checks :
         /\ Full(k, Checks[n], now)
         /\ \A i \in 1 .. n - 1 : ~Full(k, Checks[i], now)
         /\ Use(k, Checked(k, n), now, Checked(k, n - 1) \ TokenDim, 1)
    /\ TurnAway(r)
    /\ UNCHANGED <<clock, inFlight, first, last, billed, tokens, spent>>

\* Slip: what was counted is taken back from the refusing window too.
RefuseWindowOverRollback(r, k, now) ==
    /\ ~AtCapacity(k)
    /\ \E n \in DOMAIN Checks :
         /\ Full(k, Checks[n], now)
         /\ \A i \in 1 .. n - 1 : ~Full(k, Checks[i], now)
         /\ Use(k, Checked(k, n), now, {Checks[n]}, -1)
    /\ TurnAway(r)
    /\ UNCHANGED <<clock, inFlight, first, last, billed, tokens, spent>>

\* acquire refuses for want of a slot: nothing is counted.
RefuseSlot(r, k) ==
    /\ AtCapacity(k)
    /\ TurnAway(r)
    /\ UNCHANGED <<clock, counters, first, last, billed, tokens, spent>>

\* acquire refuses at the first full window: the windows checked so far have
\* been rolled, and what was counted in them is taken back.
RefuseWindow(r, k, now) ==
    /\ ~AtCapacity(k)
    /\ \E n \in DOMAIN Checks :
         /\ Full(k, Checks[n], now)
         /\ \A i \in 1 .. n - 1 : ~Full(k, Checks[i], now)
         /\ Use(k, Checked(k, n), now, {}, 0)
    /\ TurnAway(r)
    /\ UNCHANGED <<clock, inFlight, first, last, billed, tokens, spent>>

\* The dimensions of k that count its requests.
Counting(k) == {d \in RequestDim : Limited(k, d)}

\* acquire admits.
Admit(r, k, now) ==
    /\ ~AtCapacity(k)
    /\ \A d \in Dim : ~Full(k, d, now)
    /\ Use(k, {d \in Dim : Limited(k, d)}, now, Counting(k), 1)
    /\ Record(k, Counting(k), now, 1)
    /\ TakeSlot(k)
    /\ last' = [last EXCEPT ![r] = @ + 1]
    /\ pc' = [pc EXCEPT ![r] = IF last[r] + 1 = Len(Layers[r]) THEN "serving" ELSE @]
    /\ UNCHANGED <<clock, first, billed, tokens>>

\* reserve_layers reserves the next layer.
Reserve(r) ==
    /\ pc[r] = "reserving"
    /\ LET k == Layers[r][last[r] + 1]
       IN  \/ RefuseSlot(r, k)
           \/ \E now \in Readings : RefuseWindow(r, k, now) \/ Admit(r, k, now)

-----------------------------------------------------------------------------
(* Serving it and letting go of the layers.                                *)

\* The response is complete and its tokens, if any, are known.
Finish(r) ==
    /\ pc[r] = "serving"
    /\ tokens' \in {[tokens EXCEPT ![r] = n] : n \in 0 .. MaxTokens}
    /\ pc' = [pc EXCEPT ![r] = "committing"]
    /\ UNCHANGED <<clock, counters, first, last, billed, spent>>

\* The request fails, or the client goes: the reservations are dropped.
Cancel(r) ==
    /\ pc[r] = "serving"
    /\ pc' = [pc EXCEPT ![r] = "dropping"]
    /\ UNCHANGED <<clock, counters, first, last, billed, tokens, spent>>

\* Slip: the slots are returned when the handler returns (#450).
StartStreamReleasing(r) ==
    /\ pc[r] = "serving"
    /\ pc' = [pc EXCEPT ![r] = "streaming"]
    /\ inFlight' = [k \in Key |-> IF k \in RangeOf(Layers[r])
                                  THEN Saturating(inFlight[k]) ELSE inFlight[k]]
    /\ UNCHANGED <<clock, window, count, first, last, billed, tokens, spent, wiped>>

\* into_stream_hold: the handler returns, and the stream keeps the slots.
StartStream(r) ==
    /\ pc[r] = "serving"
    /\ pc' = [pc EXCEPT ![r] = "streaming"]
    /\ UNCHANGED <<clock, counters, first, last, billed, tokens, spent>>

\* The stream ends or is cancelled; add_tokens_post_stream does nothing for a
\* response of no tokens.
EndStream(r) ==
    /\ pc[r] = "streaming"
    /\ \E n \in 0 .. MaxTokens :
         /\ tokens' = [tokens EXCEPT ![r] = n]
         /\ pc' = [pc EXCEPT ![r] = IF n = 0 THEN "dropping" ELSE "billing"]
    /\ UNCHANGED <<clock, counters, first, last, billed, spent>>

\* add_tokens for one layer of a stream; after the last, its guard is dropped.
BillLayer(r) ==
    /\ pc[r] = "billing"
    /\ \E now \in Readings : AddTokens(Layers[r][billed[r] + 1], now, tokens[r])
    /\ billed' = [billed EXCEPT ![r] = @ + 1]
    /\ pc' = [pc EXCEPT ![r] = IF billed[r] + 1 = last[r] THEN "dropping" ELSE @]
    /\ UNCHANGED <<clock, inFlight, first, last, tokens>>

\* The first layer still held is let go, and after the last the request ends.
LetGo(r) ==
    /\ first' = [first EXCEPT ![r] = @ + 1]
    /\ pc' = [pc EXCEPT ![r] = IF first[r] = last[r] THEN "done" ELSE @]

\* commit of one layer.
CommitLayer(r) ==
    /\ pc[r] = "committing"
    /\ LET k == Layers[r][first[r]]
       IN  /\ \E now \in Readings : AddTokens(k, now, tokens[r])
           /\ ReturnSlot(k)
    /\ LetGo(r)
    /\ UNCHANGED <<clock, last, billed, tokens>>

\* release of one layer, of a dropped reservation or of a stream's guard.
DropLayer(r) ==
    /\ pc[r] = "dropping"
    /\ ReturnSlot(Layers[r][first[r]])
    /\ LetGo(r)
    /\ UNCHANGED <<clock, window, count, last, billed, tokens, spent, wiped>>

\* peek, for the headers of some response, rolls the windows it reports.
Peek(k) ==
    /\ \E now \in Readings : Use(k, PeekDims, now, {}, 0)
    /\ UNCHANGED <<clock, inFlight, pc, first, last, billed, tokens, spent>>

Tick ==
    /\ clock < MaxTime
    /\ clock' = clock + 1
    /\ UNCHANGED <<counters, pc, first, last, billed, tokens, spent>>

-----------------------------------------------------------------------------
Init ==
    /\ clock = 0
    /\ inFlight = [k \in Key |-> 0]
    /\ window = [k \in Key |-> [d \in Dim |-> 0]]
    /\ count = [k \in Key |-> [d \in Dim |-> 0]]
    /\ pc = [r \in Request |-> "reserving"]
    /\ first = [r \in Request |-> 1]
    /\ last = [r \in Request |-> 0]
    /\ billed = [r \in Request |-> 0]
    /\ tokens = [r \in Request |-> 0]
    /\ spent = [k \in Key |-> [d \in Dim |-> [b \in Buckets |-> 0]]]
    /\ wiped = [k \in Key |-> [d \in Dim |-> [b \in Buckets |-> 0]]]

RequestStep(r) ==
    \/ Reserve(r)
    \/ Finish(r)
    \/ Cancel(r)
    \/ StartStream(r)
    \/ EndStream(r)
    \/ BillLayer(r)
    \/ CommitLayer(r)
    \/ DropLayer(r)

Next ==
    \/ \E r \in Request : RequestStep(r)
    \/ \E k \in Key : Peek(k)
    \/ Tick

Spec == Init /\ [][Next]_vars

\* Threads are scheduled, and a response or a stream ends or is cancelled.
FairSpec == Spec /\ \A r \in Request : WF_vars(RequestStep(r))

-----------------------------------------------------------------------------
(* Correctness.                                                            *)

\* Every variable has its type, and a request that is at some stage has the
\* layers of that stage before it.
TypeOK ==
    /\ clock \in 0 .. MaxTime
    /\ inFlight \in [Key -> Nat]
    /\ window \in [Key -> [Dim -> Nat]]
    /\ count \in [Key -> [Dim -> Nat]]
    /\ pc \in [Request -> Stage]
    /\ first \in [Request -> Nat \ {0}]
    /\ last \in [Request -> Nat]
    /\ billed \in [Request -> Nat]
    /\ tokens \in [Request -> 0 .. MaxTokens]
    /\ spent \in [Key -> [Dim -> [Buckets -> Nat]]]
    /\ wiped \in [Key -> [Dim -> [Buckets -> Nat]]]
    /\ \A r \in Request :
         /\ last[r] <= Len(Layers[r])
         /\ pc[r] = "reserving" => last[r] < Len(Layers[r])
         /\ pc[r] \in {"reserving", "serving", "streaming", "billing"} => first[r] = 1
         /\ pc[r] \in {"serving", "streaming", "billing", "committing", "dropping"} =>
                first[r] <= last[r]
         /\ pc[r] \in {"reserving", "serving", "streaming", "committing"} => billed[r] = 0
         /\ pc[r] = "billing" => billed[r] < last[r]
         /\ pc[r] = "done" => first[r] = last[r] + 1

\* Request r holds a reservation, or the stream's guard, of key k.
Holds(r, k) == \E i \in first[r] .. last[r] : Layers[r][i] = k

Holders(k) == {r \in Request : Holds(r, k)}

\* in_flight counts the requests that hold the key, streams included, through
\* every refusal, commit, drop and cancellation: no slot leaks and none is
\* returned twice (#450).
HoldsAreCounted == \A k \in Key : inFlight[k] = Cardinality(Holders(k))

\* No more requests hold a key than its concurrency limit allows.
WithinConcurrency ==
    \A k \in Key : Concurrency[k] # Unlimited => Cardinality(Holders(k)) <= Concurrency[k]

\* No window of a key ever admits more requests than its limit, whatever the
\* clock readings it is counted by.
RequestsPerWindow ==
    \A k \in Key, d \in RequestDim, b \in Buckets :
        Limited(k, d) => spent[k][d][b] <= Limit[k][d]

\* What a window still counts of what was spent in it.
Standing(k, d, b) == spent[k][d][b] - wiped[k][d][b]

\* No window of a key admits more requests than its limit, or than its limit
\* again from the moment a stale reading has wiped it: across the windows'
\* boundaries, refusals and rollbacks, nothing else is forgotten.
LimitPerWipe ==
    \A k \in Key, d \in RequestDim, b \in Buckets :
        Limited(k, d) => Standing(k, d, b) <= Limit[k][d]

\* Token limits are paid after the response, but the overshoot is bounded:
\* once the limit is reached only the requests already inside can add to the
\* window, each the tokens of one response (#950); again from the moment a
\* stale reading has wiped it.
OvershootIsBounded ==
    \A k \in Key, d \in TokenDim, b \in Buckets :
        Limited(k, d) /\ Limit[k][d] > 0 /\ Concurrency[k] # Unlimited =>
            Standing(k, d, b) < Limit[k][d] + Concurrency[k] * MaxTokens

\* What a counter decides by, and reports in the response headers, is exactly
\* what the running window has admitted or billed, less what stale readings
\* have wiped of it: a refused request has been taken back from every counter
\* checked before the one that refused it.
CountsAreAdmitted ==
    \A k \in Key, d \in Dim :
        Rolled(k, d, clock) = Standing(k, d, Bucket(d, clock))

\* A request is turned away by a key only if the key is held by as many as it
\* allows or some window has really been used up, the one in which the clock
\* was read: a refusal by another dimension or of another request has cost this
\* key nothing, and a counter rolled back by a stale reading forgets what was
\* counted but never makes anything up.
RefusedForCause ==
    [][\A r \in Request :
         pc[r] = "reserving" /\ pc'[r] \in {"dropping", "done"} =>
            LET k == Layers[r][last[r] + 1]
            IN  \/ Concurrency[k] # Unlimited /\ Cardinality(Holders(k)) >= Concurrency[k]
                \/ \E d \in Dim, now \in Readings :
                     Limited(k, d) /\ spent[k][d][Bucket(d, now)] >= Limit[k][d]]_vars

\* Whatever a thread may still have read from the clock is in the running
\* window of d.
Settled(d) == clock >= MaxLag /\ Bucket(d, clock - MaxLag) = Bucket(d, clock)

\* What the counter of d has forgotten of the running window.
Forgotten(k, d) == spent[k][d][Bucket(d, clock)] - Rolled(k, d, clock)

\* Stale readings wipe a counter only while some thread may still hold a
\* reading of the window before: from then to its end the window forgets
\* nothing, and admits at most its limit more.
ForgetsOnlyEarly ==
    [][\A k \in Key, d \in Dim :
         Settled(d) /\ Bucket(d, clock)' = Bucket(d, clock) =>
            Forgotten(k, d)' = Forgotten(k, d)]_vars

\* No counter of requests is ever beyond its limit, nor beyond what its window
\* has admitted, however stale the reading it was last used by.
CountersWithinLimits ==
    \A k \in Key, d \in Dim :
        /\ d \in RequestDim /\ Limited(k, d) => count[k][d] <= Limit[k][d]
        /\ window[k][d] \in Buckets => count[k][d] <= spent[k][d][window[k][d]]

\* The limiter admits and bills as AdmissionPolicy says.
Policy == INSTANCE AdmissionPolicy WITH inside <- [k \in Key |-> Holders(k)]

KeepsPolicy == Policy!Spec

\* How many steps a request may still take: to reserve its layers, to be served,
\* to stream and be billed, and to let its layers go.
Remaining(r) ==
    CASE pc[r] = "reserving" -> 3 * Len(Layers[r]) - last[r] + 2
      [] pc[r] = "serving" -> 2 * last[r] + 2
      [] pc[r] = "streaming" -> 2 * last[r] + 1
      [] pc[r] = "billing" -> 2 * last[r] - billed[r]
      [] OTHER -> last[r] + 1 - first[r]

\* A request is moved only towards its end, by whatever refuses, cancels,
\* commits, streams or bills it: no path brings it back to a layer it has let
\* go of or bills one twice.
WindsDown ==
    [][\A r \in Request :
         <<pc[r], first[r], last[r], billed[r]>>' = <<pc[r], first[r], last[r], billed[r]>>
            \/ Remaining(r)' < Remaining(r)]_vars

\* Once every request is at its end, no slot is taken.
ReturnedWhenDone ==
    (\A r \in Request : Remaining(r) = 0) => \A k \in Key : inFlight[k] = 0

\* Every slot is returned in the end, whatever became of the requests.
SlotsReturn == <>[](\A k \in Key : inFlight[k] = 0)
=============================================================================
