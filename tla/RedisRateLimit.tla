--------------------------- MODULE RedisRateLimit ---------------------------
(***************************************************************************)
(* The rate limiter's shared store (crates/sibyl-gateway-ratelimit:        *)
(* store/redis.rs) as the reservations of limiter.rs use it, for one key.  *)
(*                                                                         *)
(* Several replicas count in one Redis, by scripts that Redis runs one at  *)
(* a time: two windows, of requests and of tokens, and a sorted set of the *)
(* requests in flight, whose members expire.  A call that fails falls back *)
(* to the counters of the replica's own LocalStore, and its command may    *)
(* have run, may never run, or may run when nobody waits for it any more.  *)
(* Nothing remembers which store admitted a request: it is given back to   *)
(* whichever store answers when it ends.                                   *)
(***************************************************************************)
EXTENDS Integers, FiniteSets

CONSTANTS
    Replica,       \* the gateways
    Request,       \* the requests, each a reservation with its own member id
    Home,          \* the replica each request comes to
    Redis,         \* the shared store
    RequestLimit,  \* requests of one window
    TokenLimit,    \* tokens of one window
    Concurrency,   \* the concurrency limit
    Window,        \* the length of a window
    ConcTtl,       \* conc_ttl: how long a member counts
    Cost,          \* the tokens each request's response takes
    MaxFaults      \* bound: failed calls, lost releases and crashes

ASSUME RedisRateLimitAssumption ==
    /\ IsFiniteSet(Request)
    /\ Home \in [Request -> Replica]
    /\ Redis \notin Replica
    /\ RequestLimit \in Nat /\ TokenLimit \in Nat /\ Concurrency \in Nat
    /\ Window \in Nat \ {0} /\ ConcTtl \in Nat \ {0}
    /\ Cost \in [Request -> Nat] /\ MaxFaults \in Nat

Store == Replica \union {Redis}

VARIABLES
    requests,  \* the request counter of each store's running window
    tokens,    \* its token counter
    member,    \* the sorted set <prefix>:conc
    age,       \* for how long each request has been in it, up to ConcTtl
    inFlight,  \* KeyState.in_flight of each replica's LocalStore
    wire,      \* the commands Redis has still to run
    reply,     \* what Redis answered to the call a request awaits
    pc,        \* where each request is
    left,      \* what is left of the running window
    degraded,  \* history: the requests that hold a slot of their LocalStore
    paid,      \* history: the requests whose tokens some store has counted
    astray,    \* history: requests a call of which failed or was abandoned
    faults     \* the number of faults so far

windows == <<requests, tokens>>
redisVars == <<member, age, wire>>
slots == <<inFlight, degraded>>
requestVars == <<reply, pc>>
history == <<paid, astray, faults>>
vars == <<windows, redisVars, slots, requestVars, left, history>>

Operation == {"acquire", "commit", "release", "add_tokens"}

Stage == {"new", "acquiring", "holding", "committing", "answered", "done"}

Send(cmds) == wire' = wire \union cmds

\* Something goes wrong with the calls of the requests rs.
Fault(rs) ==
    /\ faults < MaxFaults
    /\ faults' = faults + 1
    /\ astray' = astray \union rs

\* A command that got no answer has run, will run late, or never runs.
Unanswered(op, r) == wire' \in {wire, wire \ {<<op, r>>}}

-----------------------------------------------------------------------------
(* The counters: the scripts and LocalStore do the same arithmetic.        *)

\* Neither window is used up.
HasRoom(s) == tokens[s] < TokenLimit /\ requests[s] < RequestLimit

CountRequest(s) == requests' = [requests EXCEPT ![s] = @ + 1]

\* The tokens of r are counted in the stores ss.
CountTokens(r, ss) ==
    /\ tokens' = [s \in Store |-> IF s \in ss THEN tokens[s] + Cost[r] ELSE tokens[s]]
    /\ paid' = paid \union {r}

Saturating(n) == IF n > 0 THEN n - 1 ELSE 0

\* The local store gives back one slot, whoever took it.
ReturnLocalSlot(r) ==
    /\ inFlight' = [inFlight EXCEPT ![Home[r]] = Saturating(@)]
    /\ degraded' = degraded \ {r}

\* LocalStore::acquire, when a call to Redis has failed.
FallBack(r) ==
    \/ /\ inFlight[Home[r]] < Concurrency /\ HasRoom(Home[r])
       /\ CountRequest(Home[r])
       /\ inFlight' = [inFlight EXCEPT ![Home[r]] = @ + 1]
       /\ pc' = [pc EXCEPT ![r] = "holding"]
       /\ degraded' = degraded \union {r}
    \/ /\ inFlight[Home[r]] >= Concurrency \/ ~HasRoom(Home[r])
       /\ pc' = [pc EXCEPT ![r] = "done"]
       /\ UNCHANGED <<requests, slots>>

-----------------------------------------------------------------------------
(* What Redis does.                                                        *)

\* Slip: members are pruned a second too early.
PrunedEarly == {r \in member : age[r] + 1 < ConcTtl}

\* ZREMRANGEBYSCORE: the members that still count.
Pruned == {r \in member : age[r] < ConcTtl}

\* The caller of a command learns of its result, if it still waits for it.
Answer(r, stage, what) ==
    reply' = [reply EXCEPT ![r] = IF pc[r] = stage /\ @ = "none" THEN what ELSE @]

\* ACQUIRE_LUA.
AcquireRuns(r) ==
    /\ <<"acquire", r>> \in wire
    /\ wire' = wire \ {<<"acquire", r>>}
    /\ \/ /\ Cardinality(Pruned) < Concurrency /\ HasRoom(Redis)
          /\ CountRequest(Redis)
          /\ member' = Pruned \union {r}
          /\ age' = [age EXCEPT ![r] = 0]
          /\ Answer(r, "acquiring", "admitted")
       \/ /\ Cardinality(Pruned) >= Concurrency \/ ~HasRoom(Redis)
          /\ member' = Pruned
          /\ Answer(r, "acquiring", "refused")
          /\ UNCHANGED <<requests, age>>
    /\ UNCHANGED <<tokens, slots, pc, left, history>>

\* COMMIT_LUA.
CommitRuns(r) ==
    /\ <<"commit", r>> \in wire
    /\ wire' = wire \ {<<"commit", r>>}
    /\ CountTokens(r, {Redis})
    /\ member' = member \ {r}
    /\ Answer(r, "committing", "committed")
    /\ UNCHANGED <<requests, age, slots, pc, left, astray, faults>>

\* The ZREM of a release, which nobody awaits.
ReleaseRuns(r) ==
    /\ <<"release", r>> \in wire
    /\ wire' = wire \ {<<"release", r>>}
    /\ member' = member \ {r}
    /\ UNCHANGED <<windows, age, slots, requestVars, left, history>>

\* ADD_TOKENS_LUA, which nobody awaits.
AddTokensRuns(r) ==
    /\ <<"add_tokens", r>> \in wire
    /\ wire' = wire \ {<<"add_tokens", r>>}
    /\ CountTokens(r, {Redis})
    /\ UNCHANGED <<requests, member, age, slots, requestVars, left, astray, faults>>

\* PEEK_LUA, for the response headers of some request.
PeekRuns ==
    /\ member' = Pruned
    /\ UNCHANGED <<windows, age, wire, slots, requestVars, left, history>>

\* A detached task fails, and nothing tries again.
DetachedFails(r) ==
    /\ \E op \in {"release", "add_tokens"} :
         /\ <<op, r>> \in wire
         /\ wire' = wire \ {<<op, r>>}
    /\ Fault({r})
    /\ UNCHANGED <<windows, member, age, slots, requestVars, left, paid>>

-----------------------------------------------------------------------------
(* acquire.                                                                *)

Acquire(r) ==
    /\ pc[r] = "new"
    /\ pc' = [pc EXCEPT ![r] = "acquiring"]
    /\ Send({<<"acquire", r>>})
    /\ UNCHANGED <<windows, member, age, slots, reply, left, history>>

\* The script's answer: a reservation or a refusal.
Acquired(r) ==
    /\ pc[r] = "acquiring" /\ reply[r] # "none"
    /\ \/ /\ reply[r] = "admitted"
          /\ pc' = [pc EXCEPT ![r] = "holding"]
       \/ /\ reply[r] = "refused"
          /\ pc' = [pc EXCEPT ![r] = "done"]
    /\ reply' = [reply EXCEPT ![r] = "none"]
    /\ UNCHANGED <<windows, redisVars, slots, left, history>>

\* No connection, an open breaker, an error or no answer in time: the replica
\* counts by itself.
AcquireFails(r) ==
    /\ \/ pc[r] = "new" /\ UNCHANGED wire
       \/ pc[r] = "acquiring" /\ Unanswered("acquire", r)
    /\ Fault({r})
    /\ FallBack(r)
    /\ reply' = [reply EXCEPT ![r] = "none"]
    /\ UNCHANGED <<tokens, member, age, left, paid>>

\* The client goes while acquire waits: there is no Reservation to drop yet.
AbandonAcquire(r) ==
    /\ pc[r] = "acquiring"
    /\ Unanswered("acquire", r)
    /\ pc' = [pc EXCEPT ![r] = "done"]
    /\ reply' = [reply EXCEPT ![r] = "none"]
    /\ astray' = astray \union {r}
    /\ UNCHANGED <<windows, member, age, slots, left, paid, faults>>

-----------------------------------------------------------------------------
(* commit.                                                                 *)

\* The response is complete.
Commit(r) ==
    /\ pc[r] = "holding"
    /\ pc' = [pc EXCEPT ![r] = "committing"]
    /\ Send({<<"commit", r>>})
    /\ UNCHANGED <<windows, member, age, slots, reply, left, history>>

\* Slip: a commit that Redis took leaves the local slot alone.
CommittedInRedisOnly(r) ==
    /\ pc[r] = "committing" /\ reply[r] # "none"
    /\ degraded' = degraded \ {r}
    /\ pc' = [pc EXCEPT ![r] = "answered"]
    /\ reply' = [reply EXCEPT ![r] = "none"]
    /\ UNCHANGED <<windows, redisVars, inFlight, left, history>>

\* Redis took the commit; a slot of the local store is returned in case the
\* request held one.
Committed(r) ==
    /\ pc[r] = "committing" /\ reply[r] # "none"
    /\ ReturnLocalSlot(r)
    /\ pc' = [pc EXCEPT ![r] = "answered"]
    /\ reply' = [reply EXCEPT ![r] = "none"]
    /\ UNCHANGED <<windows, redisVars, left, history>>

\* Slip: a commit that failed is taken for a release.
CommitFailsReleasing(r) ==
    /\ pc[r] = "committing"
    /\ Unanswered("commit", r)
    /\ Fault({r})
    /\ ReturnLocalSlot(r)
    /\ pc' = [pc EXCEPT ![r] = "answered"]
    /\ reply' = [reply EXCEPT ![r] = "none"]
    /\ UNCHANGED <<windows, member, age, left, paid>>

\* It failed, or its answer was lost: LocalStore::commit.
CommitFails(r) ==
    /\ pc[r] = "committing"
    /\ Unanswered("commit", r)
    /\ Fault({r})
    /\ CountTokens(r, {Home[r]})
    /\ ReturnLocalSlot(r)
    /\ pc' = [pc EXCEPT ![r] = "answered"]
    /\ reply' = [reply EXCEPT ![r] = "none"]
    /\ UNCHANGED <<requests, member, age, left>>

-----------------------------------------------------------------------------
(* release and add_tokens: the local store first, then a detached task.    *)

\* The stream ends: add_tokens, which does nothing for a response of no tokens,
\* and the stream's guard is dropped.
EndStream(r) ==
    /\ pc[r] = "holding"
    /\ pc' = [pc EXCEPT ![r] = "done"]
    /\ CountTokens(r, {Home[r]})
    /\ ReturnLocalSlot(r)
    /\ Send({<<"release", r>>} \union (IF Cost[r] = 0 THEN {} ELSE {<<"add_tokens", r>>}))
    /\ UNCHANGED <<requests, member, age, reply, left, astray, faults>>

\* Slip: a dropped reservation is given back to the local store only.
DropLocally(r) ==
    /\ pc[r] \in {"holding", "committing"}
    /\ ReturnLocalSlot(r)
    /\ pc' = [pc EXCEPT ![r] = "done"]
    /\ reply' = [reply EXCEPT ![r] = "none"]
    /\ UNCHANGED <<windows, redisVars, left, history>>

\* The reservation is dropped: the request failed, or its client went, while
\* the commit waited perhaps.
Drop(r) ==
    /\ pc[r] \in {"holding", "committing"}
    /\ ReturnLocalSlot(r)
    /\ Send({<<"release", r>>})
    /\ pc' = [pc EXCEPT ![r] = "done"]
    /\ reply' = [reply EXCEPT ![r] = "none"]
    /\ UNCHANGED <<windows, member, age, left, history>>

-----------------------------------------------------------------------------
(* The world.                                                              *)

\* Replica h crashes and restarts: its requests and counters are gone, and so
\* are some of the commands it had to send.
Crash(h) ==
    LET lost == {r \in Request : Home[r] = h /\ pc[r] # "new"}
    IN  /\ Fault(lost)
        /\ pc' = [r \in Request |-> IF r \in lost /\ pc[r] # "answered" THEN "done" ELSE pc[r]]
        /\ reply' = [r \in Request |-> IF r \in lost THEN "none" ELSE reply[r]]
        /\ requests' = [requests EXCEPT ![h] = 0]
        /\ tokens' = [tokens EXCEPT ![h] = 0]
        /\ inFlight' = [inFlight EXCEPT ![h] = 0]
        /\ degraded' = degraded \ lost
        /\ wire' \in {wire \ cmds : cmds \in SUBSET {c \in wire : c[2] \in lost}}
        /\ UNCHANGED <<member, age, left, paid>>

\* Slip: the key of the set never expires.
TickKeepingSet ==
    /\ left' = IF left = 1 THEN Window ELSE left - 1
    /\ requests' = IF left = 1 THEN [s \in Store |-> 0] ELSE requests
    /\ tokens' = IF left = 1 THEN [s \in Store |-> 0] ELSE tokens
    /\ age' = [r \in Request |-> IF age[r] < ConcTtl THEN age[r] + 1 ELSE ConcTtl]
    /\ UNCHANGED <<member, wire, slots, requestVars, history>>

\* A second passes.  A window that begins has counters of its own, and the
\* key of the sorted set expires ConcTtl after the last member was added.
Tick ==
    /\ left' = IF left = 1 THEN Window ELSE left - 1
    /\ requests' = IF left = 1 THEN [s \in Store |-> 0] ELSE requests
    /\ tokens' = IF left = 1 THEN [s \in Store |-> 0] ELSE tokens
    /\ age' = [r \in Request |-> IF age[r] < ConcTtl THEN age[r] + 1 ELSE ConcTtl]
    /\ member' = IF \A r \in Request : age'[r] = ConcTtl THEN {} ELSE member
    /\ UNCHANGED <<wire, slots, requestVars, history>>

-----------------------------------------------------------------------------
Init ==
    /\ requests = [s \in Store |-> 0]
    /\ tokens = [s \in Store |-> 0]
    /\ member = {}
    /\ age = [r \in Request |-> ConcTtl]
    /\ inFlight = [h \in Replica |-> 0]
    /\ degraded = {}
    /\ wire = {}
    /\ reply = [r \in Request |-> "none"]
    /\ pc = [r \in Request |-> "new"]
    /\ left \in 1 .. Window
    /\ paid = {}
    /\ astray = {}
    /\ faults = 0

RedisRuns(r) == AcquireRuns(r) \/ CommitRuns(r) \/ ReleaseRuns(r) \/ AddTokensRuns(r)

Hears(r) == Acquired(r) \/ Committed(r)

Ends(r) == Commit(r) \/ EndStream(r) \/ Drop(r)

Fails(r) == AcquireFails(r) \/ AbandonAcquire(r) \/ CommitFails(r) \/ DetachedFails(r)

Next ==
    \/ \E r \in Request :
         \/ Acquire(r) \/ RedisRuns(r) \/ Hears(r) \/ Ends(r) \/ Fails(r)
    \/ PeekRuns
    \/ \E h \in Replica : Crash(h)
    \/ Tick

Spec == Init /\ [][Next]_vars

\* Redis runs what it is sent, replies arrive, responses end, time passes.
FairSpec ==
    /\ Spec
    /\ \A r \in Request : WF_vars(RedisRuns(r)) /\ WF_vars(Hears(r)) /\ WF_vars(Ends(r))
    /\ WF_vars(Tick)

-----------------------------------------------------------------------------
(* Correctness.                                                            *)

\* Every variable has its type, and a command is on its way only from a
\* request that has sent it.
TypeOK ==
    /\ requests \in [Store -> Nat]
    /\ tokens \in [Store -> Nat]
    /\ member \subseteq Request
    /\ age \in [Request -> 0 .. ConcTtl]
    /\ inFlight \in [Replica -> Nat]
    /\ wire \subseteq Operation \X Request
    /\ reply \in [Request -> {"none", "admitted", "refused", "committed"}]
    /\ pc \in [Request -> Stage]
    /\ degraded \subseteq Request
    /\ left \in 1 .. Window
    /\ paid \subseteq Request
    /\ astray \subseteq Request
    /\ faults \in 0 .. MaxFaults
    /\ \A r \in Request :
         /\ reply[r] \in {"admitted", "refused"} => pc[r] = "acquiring"
         /\ reply[r] = "committed" => pc[r] = "committing"
         /\ <<"commit", r>> \in wire => pc[r] \in {"committing", "answered", "done"}
         /\ <<"release", r>> \in wire => pc[r] = "done"

\* The requests in service that Redis admitted less than conc_ttl ago.
ServedByRedis == {r \in Request : /\ pc[r] = "holding"
                                 /\ r \notin degraded
                                 /\ age[r] < ConcTtl}

\* Across all replicas, the requests in service that Redis admitted less than
\* conc_ttl ago are no more than the concurrency limit: no late command, lost
\* reply, cancelled request or crash makes Redis forget one of them (#798).
ClusterConcurrency == Cardinality(ServedByRedis) <= Concurrency

\* The local stores fail open: a replica's in_flight never exceeds the
\* requests it has admitted by itself and not yet given back, so requests that
\* began in an outage and were committed after it leave nothing behind that
\* would refuse others in the next outage.
NeverFailsClosed ==
    \A h \in Replica : inFlight[h] <= Cardinality({r \in degraded : Home[r] = h})

\* A member in Redis is a request that is waiting, in service or being given
\* back; only a failed call, a crash or a client that goes while acquire waits
\* leaves one behind for conc_ttl to reclaim.
NoSilentLeak ==
    \A r \in member :
        \/ pc[r] \in {"acquiring", "holding", "committing"}
        \/ \E op \in {"commit", "release"} : <<op, r>> \in wire
        \/ r \in astray

\* The tokens of a response whose commit has returned are counted in Redis or
\* in the replica, whether the commit failed, its answer was lost, or not.
TokensAreCounted ==
    \A r \in Request : pc[r] = "answered" => r \in paid

\* Once every request is over and Redis has run what it was sent, the local
\* stores have no slot taken, and what is left in Redis is of calls that went
\* wrong, in a set whose key still expires.
QuietStoreIsClean ==
    (\A r \in Request : pc[r] \in {"new", "answered", "done"}) /\ wire = {} =>
        /\ \A h \in Replica : inFlight[h] = 0
        /\ member \subseteq astray
        /\ member # {} => \E r \in Request : age[r] < ConcTtl

\* How many more times something can happen to request r, or to a command of it.
StepsBefore(stage) ==
    CASE stage = "new" -> 7
      [] stage = "acquiring" -> 5
      [] stage = "holding" -> 4
      [] stage = "committing" -> 2
      [] OTHER -> 0

OnItsWay(op, r) == IF <<op, r>> \in wire THEN 1 ELSE 0

Remaining(r) ==
    StepsBefore(pc[r]) + OnItsWay("acquire", r) + OnItsWay("commit", r)
        + OnItsWay("release", r) + OnItsWay("add_tokens", r)

\* No request is tried again and no command sent again: each thing that happens
\* to a request or in its name brings both to their end, and nothing else puts
\* it off, whatever fails, crashes or comes late.
RequestsWindDown ==
    [][\A r \in Request :
         /\ Remaining(r)' <= Remaining(r)
         /\ Acquire(r) \/ RedisRuns(r) \/ Hears(r) \/ Ends(r) \/ Fails(r)
                => Remaining(r)' < Remaining(r)]_vars

\* Every slot returns in the end, in Redis and in each replica, through failed
\* and late commands, cancelled requests and crashes.
SlotsReturn == <>[](member = {} /\ \A h \in Replica : inFlight[h] = 0)
=============================================================================
