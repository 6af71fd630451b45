---------------------------- MODULE RedisBreaker ----------------------------
(***************************************************************************)
(* The circuit breaker that the Redis connections of one subsystem share   *)
(* (crates/sibyl-gateway-redis: lib.rs: Guard, Breaker, probe_until_closed *)
(* and probe_ping).                                                        *)
(*                                                                         *)
(* A command that fails to reach Redis opens the breaker: for a while      *)
(* commands fail at once instead of waiting for the timeout.  The failure  *)
(* also starts a background task, the prober, which sleeps for the         *)
(* window, sends one PING, and closes the breaker if it is answered.       *)
(* Without a prober, one caller is let through when the window expires.    *)
(*                                                                         *)
(* Every operation on the breaker's state holds its mutex; a command or a  *)
(* probe awaits Redis between two of them.  The breaker compares instants  *)
(* with now: the model keeps what is left of each, and time passes for all *)
(* of them at once.                                                        *)
(***************************************************************************)
EXTENDS Integers, FiniteSets

CONSTANTS
    Command,      \* the commands that may be in flight at once
    Window,       \* BREAKER_WINDOW
    Budget,       \* timeout: what one command may take
    ProbeBudget,  \* probe_budget: what one probe may take
    MaxOpenings,  \* bound: how often a command fails to reach Redis
    MaxFaults     \* bound: cancelled commands and probers that stop

ASSUME BreakerAssumption ==
    /\ IsFiniteSet(Command) /\ Command \intersect Nat = {}
    /\ Window \in Nat \ {0} /\ Budget \in Nat \ {0} /\ ProbeBudget \in Nat \ {0}
    /\ MaxOpenings \in Nat /\ MaxFaults \in Nat

Claim == 1 .. MaxOpenings
Nobody == 0

\* open_until: None, or what is left until it has passed.
Closed == -1

VARIABLES
    openFor,     \* BreakerState.open_until
    generation,  \* BreakerState.generation
    prober,      \* BreakerState.prober: the claim, or Nobody
    claims,      \* BreakerState.claims
    registered,  \* Guard.prober holds a connection
    up,          \* Redis answers
    pc,          \* where each command is
    seen,        \* the generation a command or a probe has read
    left,        \* what is left of its budget, or of a prober's sleep
    task,        \* where each prober is, by its claim
    through,     \* history: the commands in flight that an expired window let through
    outdated,    \* history: those in flight when the last failure was recorded
    faults       \* the number of faults so far

breakerVars == <<openFor, generation, prober, claims>>
runVars == <<pc, seen, left, task>>
vars == <<breakerVars, runVars, registered, up, through, outdated, faults>>

\* Both commands and probes are requests to Redis.
Requests == Command \union Claim

Running(c) == pc[c] = "running"
Probing(p) == task[p] = "probing"
InFlight == {c \in Command : Running(c)} \union {p \in Claim : Probing(p)}

-----------------------------------------------------------------------------
(* Commands.                                                               *)

\* Slip: the window is not armed again behind the caller let through.
AdmitUnarmed(c) ==
    /\ pc[c] = "idle"
    /\ openFor <= 0
    /\ IF openFor = Closed
       THEN UNCHANGED <<openFor, prober, through>>
       ELSE /\ prober' = Nobody
            /\ openFor' = openFor
            /\ through' = through \union {c}
    /\ pc' = [pc EXCEPT ![c] = "running"]
    /\ seen' = [seen EXCEPT ![c] = generation]
    /\ left' = [left EXCEPT ![c] = Budget]
    /\ UNCHANGED <<generation, claims, task, registered, up, outdated, faults>>

\* Slip: a window that has expired is the prober's to end.
AdmitUnlessClaimed(c) ==
    /\ pc[c] = "idle"
    /\ openFor <= 0
    /\ IF openFor = Closed
       THEN UNCHANGED <<openFor, prober, through>>
       ELSE /\ prober = Nobody /\ prober' = Nobody
            /\ openFor' = Window
            /\ through' = through \union {c}
    /\ pc' = [pc EXCEPT ![c] = "running"]
    /\ seen' = [seen EXCEPT ![c] = generation]
    /\ left' = [left EXCEPT ![c] = Budget]
    /\ UNCHANGED <<generation, claims, task, registered, up, outdated, faults>>

\* admit: a command arrives and is not short-circuited.
Admit(c) ==
    /\ pc[c] = "idle"
    /\ openFor <= 0
    /\ IF openFor = Closed
       THEN UNCHANGED <<openFor, prober, through>>
       ELSE /\ prober' = Nobody
            /\ openFor' = Window
            /\ through' = through \union {c}
    /\ pc' = [pc EXCEPT ![c] = "running"]
    /\ seen' = [seen EXCEPT ![c] = generation]
    /\ left' = [left EXCEPT ![c] = Budget]
    /\ UNCHANGED <<generation, claims, task, registered, up, outdated, faults>>

\* Command c is over.
Over(c) ==
    /\ pc' = [pc EXCEPT ![c] = "idle"]
    /\ seen' = [seen EXCEPT ![c] = 0] /\ left' = [left EXCEPT ![c] = 0]
    /\ through' = through \ {c} /\ outdated' = outdated \ {c}

\* Slip: any success closes the breaker.
SucceedAnyway(c) ==
    /\ Running(c) /\ up
    /\ openFor' = Closed
    /\ Over(c)
    /\ UNCHANGED <<generation, prober, claims, task, registered, up, faults>>

\* close_unless_reopened
Succeed(c) ==
    /\ Running(c) /\ up
    /\ openFor' = IF seen[c] = generation THEN Closed ELSE openFor
    /\ Over(c)
    /\ UNCHANGED <<generation, prober, claims, task, registered, up, faults>>

\* Redis answers with an error of its own.
ServerError(c) ==
    /\ Running(c) /\ up
    /\ Over(c)
    /\ UNCHANGED <<breakerVars, task, registered, up, faults>>

\* The caller goes away and the command's future is dropped.
CallerGone(c) ==
    /\ Running(c)
    /\ faults < MaxFaults /\ faults' = faults + 1
    /\ Over(c)
    /\ UNCHANGED <<breakerVars, task, registered, up>>

\* trip, first half: the command timed out or lost its connection: open.
Fail(c) ==
    /\ Running(c)
    /\ generation < MaxOpenings
    /\ openFor' = Window
    /\ generation' = generation + 1
    /\ pc' = [pc EXCEPT ![c] = "tripping"]
    /\ seen' = [seen EXCEPT ![c] = 0] /\ left' = [left EXCEPT ![c] = 0]
    /\ through' = through \ {c}
    /\ outdated' = InFlight \ {c}
    /\ UNCHANGED <<prober, claims, task, registered, up, faults>>

\* Slip: every failure starts a prober.
TripAnyway(c) ==
    /\ pc[c] = "tripping"
    /\ pc' = [pc EXCEPT ![c] = "idle"]
    /\ IF registered
       THEN /\ claims' = claims + 1
            /\ prober' = claims + 1
            /\ task' = [task EXCEPT ![claims + 1] = "starting"]
       ELSE UNCHANGED <<claims, prober, task>>
    /\ UNCHANGED <<openFor, generation, seen, left, registered, up, through,
                   outdated, faults>>

\* trip, second half: claim_prober, and the prober is spawned.
Trip(c) ==
    /\ pc[c] = "tripping"
    /\ pc' = [pc EXCEPT ![c] = "idle"]
    /\ IF registered /\ prober = Nobody
       THEN /\ claims' = claims + 1
            /\ prober' = claims + 1
            /\ task' = [task EXCEPT ![claims + 1] = "starting"]
       ELSE UNCHANGED <<claims, prober, task>>
    /\ UNCHANGED <<openFor, generation, seen, left, registered, up, through,
                   outdated, faults>>

\* The first connection of the subsystem has been opened.
Register ==
    /\ ~registered
    /\ registered' = TRUE
    /\ UNCHANGED <<breakerVars, runVars, up, through, outdated, faults>>

-----------------------------------------------------------------------------
(* The prober.                                                             *)

ProberEnds(p) ==
    /\ task' = [task EXCEPT ![p] = "ended"]
    /\ seen' = [seen EXCEPT ![p] = 0] /\ left' = [left EXCEPT ![p] = 0]

\* hold_off at the head of the loop: the prober claims its sleep and the
\* probe, or ends if the claim is no longer its own.
HoldOff(p) ==
    IF prober = p
    THEN /\ openFor' = Window + ProbeBudget
         /\ task' = [task EXCEPT ![p] = "sleeping"]
         /\ seen' = [seen EXCEPT ![p] = 0] /\ left' = [left EXCEPT ![p] = Window]
    ELSE ProberEnds(p) /\ UNCHANGED openFor

Start(p) ==
    /\ task[p] = "starting"
    /\ HoldOff(p)
    /\ UNCHANGED <<generation, prober, claims, pc, registered, up, through,
                   outdated, faults>>

\* The sleep is over: the generation is read and the PING sent.
Ping(p) ==
    /\ task[p] = "sleeping" /\ left[p] = 0
    /\ task' = [task EXCEPT ![p] = "probing"]
    /\ seen' = [seen EXCEPT ![p] = generation]
    /\ left' = [left EXCEPT ![p] = ProbeBudget]
    /\ UNCHANGED <<breakerVars, pc, registered, up, through, outdated, faults>>

\* close_from_prober, or another round.
Pong(p) ==
    /\ Probing(p) /\ up
    /\ IF prober = p /\ seen[p] = generation
       THEN openFor' = Closed /\ prober' = Nobody /\ ProberEnds(p)
       ELSE HoldOff(p) /\ UNCHANGED prober
    /\ outdated' = outdated \ {p}
    /\ UNCHANGED <<generation, claims, pc, registered, up, through, faults>>

NoPong(p) ==
    /\ Probing(p) /\ ~up
    /\ HoldOff(p)
    /\ outdated' = outdated \ {p}
    /\ UNCHANGED <<generation, prober, claims, pc, registered, up, through, faults>>

\* The task of a prober is dropped.
ProberStops(p) ==
    /\ task[p] \in {"starting", "sleeping", "probing"}
    /\ faults < MaxFaults /\ faults' = faults + 1
    /\ ProberEnds(p)
    /\ outdated' = outdated \ {p}
    /\ UNCHANGED <<breakerVars, pc, registered, up, through>>

-----------------------------------------------------------------------------
\* Redis goes away or comes back.
Flip ==
    /\ up' = ~up
    /\ UNCHANGED <<breakerVars, runVars, registered, through, outdated, faults>>

\* Time passes, but past no timer that is due and no task that is to run.
Tick ==
    /\ \A c \in Command : pc[c] # "tripping" /\ (Running(c) => left[c] > 0)
    /\ \A p \in Claim :
         task[p] # "starting" /\ (task[p] \in {"sleeping", "probing"} => left[p] > 0)
    /\ left' = [r \in Requests |-> IF left[r] > 0 THEN left[r] - 1 ELSE 0]
    /\ openFor' = IF openFor > 0 THEN openFor - 1 ELSE openFor
    /\ UNCHANGED <<generation, prober, claims, pc, seen, task, registered, up,
                   through, outdated, faults>>

Init ==
    /\ openFor = Closed /\ generation = 0 /\ prober = Nobody /\ claims = 0
    /\ registered \in BOOLEAN /\ up \in BOOLEAN
    /\ pc = [c \in Command |-> "idle"]
    /\ task = [p \in Claim |-> "none"]
    /\ seen = [r \in Requests |-> 0] /\ left = [r \in Requests |-> 0]
    /\ through = {} /\ outdated = {}
    /\ faults = 0

ProberStep == \E p \in Claim : Start(p) \/ Ping(p) \/ Pong(p) \/ NoPong(p)

Next ==
    \/ \E c \in Command :
         Admit(c) \/ Succeed(c) \/ ServerError(c) \/ CallerGone(c) \/ Fail(c) \/ Trip(c)
    \/ Register
    \/ ProberStep
    \/ \E p \in Claim : ProberStops(p)
    \/ Flip
    \/ Tick

Spec == Init /\ [][Next]_vars

\* Callers keep coming, an answer is received, tasks run and time passes.  The
\* fairness of Succeed is strong: an available Redis does not refuse or lose
\* every command for ever (errors of its own do not close the breaker).
FairSpec ==
    /\ Spec
    /\ WF_vars(\E c \in Command : Admit(c))
    /\ \A c \in Command : SF_vars(Succeed(c)) /\ WF_vars(Trip(c))
    /\ WF_vars(ProberStep)
    /\ WF_vars(Tick)

-----------------------------------------------------------------------------
(* Correctness.                                                            *)

\* The breaker's deadline is never beyond a window and a probe, and each claim
\* of the prober's role has a failure of its own.
TypeOK ==
    /\ openFor \in Closed .. Window + ProbeBudget
    /\ generation \in 0 .. MaxOpenings
    /\ claims \in 0 .. generation
    /\ prober \in 0 .. claims
    /\ registered \in BOOLEAN /\ up \in BOOLEAN
    /\ pc \in [Command -> {"idle", "running", "tripping"}]
    /\ task \in [Claim -> {"none", "starting", "sleeping", "probing", "ended"}]
    /\ \A p \in Claim : task[p] # "none" <=> p <= claims
    /\ seen \in [Requests -> 0 .. generation]
    /\ left \in [Requests -> Nat]
    /\ through \subseteq {c \in Command : Running(c)}
    /\ outdated \subseteq InFlight
    /\ faults \in 0 .. MaxFaults

\* The breaker is closed only by the success of a command or of a probe that
\* was sent after the last failure was recorded: the late success of one that
\* was already in flight does not send the callers back into the timeout.
ClosesOnFreshEvidence ==
    [][openFor # Closed /\ openFor' = Closed =>
         \/ \E c \in Command : Running(c) /\ pc'[c] = "idle" /\ c \notin outdated
         \/ \E p \in Claim : Probing(p) /\ task'[p] = "ended" /\ p \notin outdated]_vars

\* However a claim changes hands, at most one PING is on its way, as long as a
\* probe takes less than a window; if it may take more, at most one for each
\* window it has begun.
OnePing == Cardinality({p \in Claim : Probing(p)}) <= 1 + ProbeBudget \div Window

\* While the breaker is open, Redis is tried at the expense of no more than one
\* caller at a time, as long as the timeout of a command is below the window; if
\* it is not, of one for each window the timeout spans.
OneCallerPays == Cardinality(through) <= 1 + Budget \div Window

\* Neither a prober that stops nor a caller that goes away latches the breaker
\* open: if Redis stays up, it closes.
Recovers == <>[]up => <>[](openFor = Closed)

\* "Business commands keep short-circuiting until it closes, so none of them
\* is ever the half-open probe": no caller is let through while the prober in
\* charge sleeps or waits for its PING (at the very instant the PING times out,
\* a caller may be quicker than the prober).
NoCallerIsTheProbe ==
    [][\A c \in Command :
         c \in through' \ through /\ prober # Nobody /\ left[prober] > 0
            => task[prober] \notin {"sleeping", "probing"}]_vars
=============================================================================
