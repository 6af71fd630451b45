------------------------ MODULE RedisBreaker_proofs ------------------------
(***************************************************************************)
(* Proofs about RedisBreaker for any number of concurrent commands, of     *)
(* failures and of faults, any window and any budgets.                     *)
(***************************************************************************)
EXTENDS RedisBreaker, FiniteSetTheorems, TLAPS

USE DEF breakerVars, runVars

Tripping == {c \in Command : pc[c] = "tripping"}

\* Each claim is the work of a failure, and a failure makes one at most.
ClaimsHaveFailures == claims + Cardinality(Tripping) <= generation

TypeInv == TypeOK /\ ClaimsHaveFailures

\* The quotient, as the integer it is.
LEMMA Quotient ==
    ASSUME NEW x \in Nat, NEW w \in Nat, w > 0
    PROVE  \E q \in Nat : q = x \div w /\ q * w <= x /\ x < (q + 1) * w
<1>. DEFINE q == x \div w
<1>1. q \in Nat
  OBVIOUS
<1>2. q * w <= x
  OBVIOUS
<1>3. x < (q + 1) * w
  OBVIOUS
<1> QED BY <1>1, <1>2, <1>3

\* A quotient is below another if its multiple is below the next multiple.
LEMMA Below ==
    ASSUME NEW q \in Nat, NEW r \in Nat, NEW w \in Nat, w > 0, q * w < (r + 1) * w
    PROVE  q <= r
<1>1. ASSUME q >= r + 1 PROVE FALSE
  <2>1. PICK d \in Nat : q = r + 1 + d
    <3>1. q - (r + 1) \in Nat /\ q = r + 1 + (q - (r + 1))
      BY <1>1
    <3> QED BY <3>1
  <2>2. q * w = (r + 1) * w + d * w /\ d * w \in Nat
    BY <2>1
  <2> QED BY <2>2
<1> QED BY <1>1


LEMMA DivRange ==
    ASSUME NEW w \in Nat, w > 0, NEW n \in Nat, NEW x \in 0 .. n
    PROVE  x \div w \in 0 .. n \div w
<1>1. PICK q \in Nat : q = x \div w /\ q * w <= x
  BY Quotient
<1>2. PICK r \in Nat : r = n \div w /\ n < (r + 1) * w
  BY Quotient
<1>3. q * w \in Nat /\ (r + 1) * w \in Nat
  OBVIOUS
<1>4. q <= r
  BY <1>1, <1>2, <1>3, Below
<1> QED BY <1>1, <1>2, <1>4

\* What is a window apart falls into different windows.
LEMMA DivApart ==
    ASSUME NEW w \in Nat, w > 0, NEW x \in Nat, NEW y \in Nat, x + w <= y
    PROVE  x \div w # y \div w
<1>1. PICK q \in Nat : q = x \div w /\ q * w <= x
  BY Quotient
<1>2. PICK r \in Nat : r = y \div w /\ y < (r + 1) * w
  BY Quotient
<1>3. q * w \in Nat /\ (r + 1) * w \in Nat /\ (q + 1) * w = q * w + w
  OBVIOUS
<1>4. (q + 1) * w < (r + 1) * w
  BY <1>1, <1>2, <1>3
<1>5. q + 1 <= r
  BY <1>4, Below
<1> QED BY <1>1, <1>2, <1>5

\* Numbers up to n that are a window apart from one another: how many there are.
LEMMA WindowsApart ==
    ASSUME NEW S, NEW n \in Nat, NEW w \in Nat, w > 0, NEW h \in [S -> 0 .. n],
           \A x, y \in S : x # y => h[x] + w <= h[y] \/ h[y] + w <= h[x]
    PROVE  Cardinality(S) <= 1 + n \div w
<1>. DEFINE T == 0 .. n \div w
            f == [x \in S |-> h[x] \div w]
<1>1. f \in [S -> T]
  <2>1. ASSUME NEW x \in S PROVE h[x] \div w \in T
    <3>1. h[x] \in 0 .. n
      OBVIOUS
    <3> QED BY <3>1, DivRange
  <2> QED BY <2>1
<1>2. \A x, y \in S : f[x] = f[y] => x = y
  <2>. SUFFICES ASSUME NEW x \in S, NEW y \in S, x # y PROVE h[x] \div w # h[y] \div w
    OBVIOUS
  <2>1. h[x] \in Nat /\ h[y] \in Nat
    OBVIOUS
  <2>2. CASE h[x] + w <= h[y]
    BY <2>1, <2>2, DivApart
  <2>3. CASE h[y] + w <= h[x]
    BY <2>1, <2>3, DivApart
  <2> QED BY <2>2, <2>3
<1>3. f \in Injection(S, T)
  BY <1>1, <1>2 DEF Injection, IsInjective
<1>4. PICK q \in Nat : q = n \div w
  BY Quotient
<1>5. IsFiniteSet(0 .. q) /\ Cardinality(0 .. q) = q + 1
  BY FS_Interval
<1>6. Cardinality(S) <= Cardinality(T)
  BY <1>3, <1>4, <1>5, FS_Injection
<1> QED BY <1>4, <1>5, <1>6

-----------------------------------------------------------------------------
(* Type correctness.                                                       *)

LEMMA TrippingFinite == IsFiniteSet(Tripping) /\ Cardinality(Tripping) \in Nat
<1>1. IsFiniteSet(Command) /\ Tripping \subseteq Command
  BY BreakerAssumption DEF BreakerAssumption, Tripping
<1> QED BY <1>1, FS_Subset, FS_CardinalityType

LEMMA SameTripping ==
    ASSUME ClaimsHaveFailures, Tripping' = Tripping,
           UNCHANGED <<claims, generation>>
    PROVE  ClaimsHaveFailures'
BY DEF ClaimsHaveFailures

LEMMA InitType == Init => TypeInv
<1>. SUFFICES ASSUME Init PROVE TypeInv
  OBVIOUS
<1>1. Tripping = {}
  BY DEF Init, Tripping
<1>2. ClaimsHaveFailures
  BY <1>1, FS_EmptySet DEF Init, ClaimsHaveFailures
<1>3. TypeOK
  BY BreakerAssumption
     DEF BreakerAssumption, Init, TypeOK, Closed, Claim, Nobody, Requests, Running, InFlight
<1> QED BY <1>2, <1>3 DEF TypeInv

\* What both kinds of requests are.
LEMMA KindsDiffer ==
    /\ Command \intersect Claim = {}
    /\ Command \subseteq Requests /\ Claim \subseteq Requests
BY BreakerAssumption DEF BreakerAssumption, Claim, Requests

LEMMA AdmitType == ASSUME TypeInv, NEW c \in Command, Admit(c) PROVE TypeInv'
<1>1. Tripping' = Tripping
  BY DEF TypeInv, TypeOK, Admit, Tripping
<1>2. TypeOK'
  BY KindsDiffer, BreakerAssumption
     DEF BreakerAssumption, TypeInv, TypeOK, Admit, Closed, Nobody, Running, Probing, InFlight
<1> QED BY <1>1, <1>2, SameTripping DEF TypeInv, Admit

LEMMA OverType ==
    ASSUME TypeInv, NEW c \in Command, Running(c), Over(c)
    PROVE  /\ Tripping' = Tripping
           /\ pc' \in [Command -> {"idle", "running", "tripping"}]
           /\ seen' \in [Requests -> 0 .. generation]
           /\ left' \in [Requests -> Nat]
           /\ through' \subseteq {d \in Command : Running(d)'}
           /\ task' = task => outdated' \subseteq InFlight'
<1>1. Tripping' = Tripping
  BY DEF TypeInv, TypeOK, Over, Running, Tripping
<1>2. /\ pc' \in [Command -> {"idle", "running", "tripping"}]
      /\ seen' \in [Requests -> 0 .. generation]
      /\ left' \in [Requests -> Nat]
      /\ through' \subseteq {d \in Command : Running(d)'}
  BY BreakerAssumption, KindsDiffer
     DEF BreakerAssumption, TypeInv, TypeOK, Over, Running
<1>3. task' = task => outdated' \subseteq InFlight'
  BY KindsDiffer DEF TypeInv, TypeOK, Over, Running, Probing, InFlight
<1> QED BY <1>1, <1>2, <1>3

LEMMA SucceedType == ASSUME TypeInv, NEW c \in Command, Succeed(c) PROVE TypeInv'
<1>1. openFor' \in Closed .. Window + ProbeBudget
  BY BreakerAssumption DEF BreakerAssumption, TypeInv, TypeOK, Succeed, Closed
<1> QED BY <1>1, OverType, SameTripping DEF Succeed, TypeInv, TypeOK

LEMMA ServerErrorType == ASSUME TypeInv, NEW c \in Command, ServerError(c) PROVE TypeInv'
BY OverType, SameTripping DEF ServerError, TypeInv, TypeOK

LEMMA CallerGoneType == ASSUME TypeInv, NEW c \in Command, CallerGone(c) PROVE TypeInv'
<1>1. faults' \in 0 .. MaxFaults
  BY BreakerAssumption DEF BreakerAssumption, TypeInv, TypeOK, CallerGone
<1> QED BY <1>1, OverType, SameTripping DEF CallerGone, TypeInv, TypeOK

LEMMA FailType == ASSUME TypeInv, NEW c \in Command, Fail(c) PROVE TypeInv'
<1>1. Tripping' = Tripping \union {c} /\ c \notin Tripping
  BY DEF TypeInv, TypeOK, Fail, Running, Tripping
<1>2. Cardinality(Tripping') = Cardinality(Tripping) + 1
  BY <1>1, TrippingFinite, FS_AddElement
<1>3. ClaimsHaveFailures'
  BY <1>2, TrippingFinite DEF TypeInv, TypeOK, Fail, ClaimsHaveFailures
<1>4. /\ openFor' \in Closed .. Window + ProbeBudget
      /\ generation' \in 0 .. MaxOpenings /\ claims' \in 0 .. generation'
  BY BreakerAssumption DEF BreakerAssumption, TypeInv, TypeOK, Fail, Closed
<1>5. /\ seen' \in [Requests -> 0 .. generation']
      /\ left' \in [Requests -> Nat]
  <2>1. generation' \in Nat /\ 0 .. generation \subseteq 0 .. generation'
    BY DEF TypeInv, TypeOK, Fail
  <2>2. \A r \in Requests : seen'[r] \in 0 .. generation'
    BY <2>1, KindsDiffer DEF TypeInv, TypeOK, Fail
  <2>3. \A r \in Requests : left'[r] \in Nat
    BY KindsDiffer, BreakerAssumption DEF BreakerAssumption, TypeInv, TypeOK, Fail
  <2> QED BY <2>2, <2>3 DEF TypeInv, TypeOK, Fail
<1>6. /\ pc' \in [Command -> {"idle", "running", "tripping"}]
      /\ through' \subseteq {d \in Command : Running(d)'}
      /\ outdated' \subseteq InFlight'
  BY KindsDiffer DEF TypeInv, TypeOK, Fail, Running, Probing, InFlight
<1> QED BY <1>3, <1>4, <1>5, <1>6 DEF TypeInv, TypeOK, Fail

LEMMA TripType == ASSUME TypeInv, NEW c \in Command, Trip(c) PROVE TypeInv'
<1>1. Tripping' = Tripping \ {c} /\ c \in Tripping
  BY DEF TypeInv, TypeOK, Trip, Tripping
<1>2. Cardinality(Tripping') = Cardinality(Tripping) - 1
  BY <1>1, TrippingFinite, FS_RemoveElement
<1>3. ClaimsHaveFailures' /\ claims' \in 0 .. generation'
  BY <1>2, TrippingFinite, <1>1, FS_EmptySet
     DEF TypeInv, TypeOK, Trip, ClaimsHaveFailures
<1>4. /\ prober' \in 0 .. claims'
      /\ task' \in [Claim -> {"none", "starting", "sleeping", "probing", "ended"}]
      /\ \A p \in Claim : task'[p] # "none" <=> p <= claims'
      /\ \A p \in Claim : Probing(p) => Probing(p)'
  <2>1. CASE registered /\ prober = Nobody
    <3>1. claims' = claims + 1 /\ claims + 1 \in Claim
      BY <2>1, <1>3, BreakerAssumption
         DEF BreakerAssumption, TypeInv, TypeOK, Trip, Claim
    <3>2. task' = [task EXCEPT ![claims + 1] = "starting"] /\ prober' = claims + 1
      BY <2>1 DEF Trip
    <3>3. task[claims + 1] = "none"
      BY <3>1 DEF TypeInv, TypeOK
    <3>4. \A p \in Claim : p <= claims + 1 <=> p <= claims \/ p = claims + 1
      BY DEF TypeInv, TypeOK, Claim
    <3> QED BY <3>1, <3>2, <3>3, <3>4 DEF TypeInv, TypeOK, Probing
  <2>2. CASE ~(registered /\ prober = Nobody)
    BY <2>2 DEF TypeInv, TypeOK, Trip, Probing
  <2> QED BY <2>1, <2>2
<1>5. /\ pc' \in [Command -> {"idle", "running", "tripping"}]
      /\ through' \subseteq {d \in Command : Running(d)'}
  BY DEF TypeInv, TypeOK, Trip, Running
<1>6. outdated' \subseteq InFlight'
  BY <1>4 DEF TypeInv, TypeOK, Trip, Running, InFlight
<1> QED BY <1>3, <1>4, <1>5, <1>6 DEF TypeInv, TypeOK, Trip

LEMMA RegisterType == TypeInv /\ Register => TypeInv'
BY DEF TypeInv, TypeOK, Register, ClaimsHaveFailures, Tripping, Running, Probing, InFlight

\* What a prober leaves behind that ends or goes into another round.
LEMMA ProberEndsType ==
    ASSUME TypeInv, NEW p \in Claim, task[p] # "none", ProberEnds(p)
    PROVE  /\ task' \in [Claim -> {"none", "starting", "sleeping", "probing", "ended"}]
           /\ \A q \in Claim : task'[q] # "none" <=> q <= claims
           /\ seen' \in [Requests -> 0 .. generation]
           /\ left' \in [Requests -> Nat]
           /\ \A q \in Claim \ {p} : task'[q] = task[q]
BY KindsDiffer, BreakerAssumption
   DEF BreakerAssumption, TypeInv, TypeOK, ProberEnds

LEMMA HoldOffType ==
    ASSUME TypeInv, NEW p \in Claim, task[p] # "none", HoldOff(p)
    PROVE  /\ task' \in [Claim -> {"none", "starting", "sleeping", "probing", "ended"}]
           /\ \A q \in Claim : task'[q] # "none" <=> q <= claims
           /\ seen' \in [Requests -> 0 .. generation]
           /\ left' \in [Requests -> Nat]
           /\ \A q \in Claim \ {p} : task'[q] = task[q]
           /\ openFor' \in Closed .. Window + ProbeBudget
<1>1. CASE prober = p
  BY <1>1, KindsDiffer, BreakerAssumption
     DEF BreakerAssumption, TypeInv, TypeOK, HoldOff, Closed
<1>2. CASE prober # p
  BY <1>2, ProberEndsType DEF HoldOff, TypeInv, TypeOK
<1> QED BY <1>1, <1>2

LEMMA ProberOutdated ==
    ASSUME TypeInv, NEW p \in Claim, UNCHANGED pc,
           \A q \in Claim \ {p} : task'[q] = task[q],
           outdated' = outdated \ {p} \/ (UNCHANGED outdated /\ p \notin outdated)
    PROVE  /\ outdated' \subseteq InFlight'
           /\ Tripping' = Tripping
           /\ UNCHANGED through => through' \subseteq {d \in Command : Running(d)'}
BY KindsDiffer DEF TypeInv, TypeOK, Running, Probing, InFlight, Tripping

LEMMA StartType == ASSUME TypeInv, NEW p \in Claim, Start(p) PROVE TypeInv'
<1>1. p \notin outdated
  BY KindsDiffer DEF TypeInv, TypeOK, Start, InFlight, Probing
<1> QED BY <1>1, HoldOffType, ProberOutdated, SameTripping
        DEF Start, TypeInv, TypeOK

LEMMA PingType == ASSUME TypeInv, NEW p \in Claim, Ping(p) PROVE TypeInv'
<1>1. p \notin outdated
  BY KindsDiffer DEF TypeInv, TypeOK, Ping, InFlight, Probing
<1>2. /\ task' \in [Claim -> {"none", "starting", "sleeping", "probing", "ended"}]
      /\ \A q \in Claim : task'[q] # "none" <=> q <= claims
      /\ seen' \in [Requests -> 0 .. generation]
      /\ left' \in [Requests -> Nat]
      /\ \A q \in Claim \ {p} : task'[q] = task[q]
  BY KindsDiffer, BreakerAssumption DEF BreakerAssumption, TypeInv, TypeOK, Ping
<1> QED BY <1>1, <1>2, ProberOutdated, SameTripping DEF Ping, TypeInv, TypeOK

LEMMA PongType == ASSUME TypeInv, NEW p \in Claim, Pong(p) PROVE TypeInv'
<1>1. task[p] # "none"
  BY DEF Pong, Probing
<1>2. Closed \in Closed .. Window + ProbeBudget /\ Nobody \in 0 .. claims
  BY BreakerAssumption DEF BreakerAssumption, TypeInv, TypeOK, Closed, Nobody
<1> QED BY <1>1, <1>2, HoldOffType, ProberEndsType, ProberOutdated, SameTripping
        DEF Pong, TypeInv, TypeOK

LEMMA NoPongType == ASSUME TypeInv, NEW p \in Claim, NoPong(p) PROVE TypeInv'
<1>1. task[p] # "none"
  BY DEF NoPong, Probing
<1> QED BY <1>1, HoldOffType, ProberOutdated, SameTripping
        DEF NoPong, TypeInv, TypeOK

LEMMA ProberStopsType == ASSUME TypeInv, NEW p \in Claim, ProberStops(p) PROVE TypeInv'
<1>1. task[p] # "none"
  BY DEF ProberStops
<1>2. faults' \in 0 .. MaxFaults
  BY BreakerAssumption DEF BreakerAssumption, TypeInv, TypeOK, ProberStops
<1> QED BY <1>1, <1>2, ProberEndsType, ProberOutdated, SameTripping
        DEF ProberStops, TypeInv, TypeOK

LEMMA FlipType == TypeInv /\ Flip => TypeInv'
BY DEF TypeInv, TypeOK, Flip, ClaimsHaveFailures, Tripping, Running, Probing, InFlight

LEMMA TickType == TypeInv /\ Tick => TypeInv'
<1>. SUFFICES ASSUME TypeInv, Tick PROVE TypeInv'
  OBVIOUS
<1>1. left' \in [Requests -> Nat] /\ openFor' \in Closed .. Window + ProbeBudget
  BY BreakerAssumption DEF BreakerAssumption, TypeInv, TypeOK, Tick, Closed
<1> QED BY <1>1 DEF TypeInv, TypeOK, Tick, ClaimsHaveFailures, Tripping, Running,
                    Probing, InFlight

LEMMA StutterType == TypeInv /\ UNCHANGED vars => TypeInv'
BY DEF TypeInv, TypeOK, vars, ClaimsHaveFailures, Tripping, Running, Probing, InFlight

LEMMA NextType == TypeInv /\ [Next]_vars => TypeInv'
<1>. SUFFICES ASSUME TypeInv, [Next]_vars PROVE TypeInv'
  OBVIOUS
<1> QED BY AdmitType, SucceedType, ServerErrorType, CallerGoneType, FailType,
           TripType, RegisterType, StartType, PingType, PongType, NoPongType,
           ProberStopsType, FlipType, TickType, StutterType DEF Next, ProberStep

LEMMA TypeInvariant == Spec => []TypeInv
BY InitType, NextType, PTL DEF Spec

\* Every state is made of values of the right kind; in particular no prober is
\* started without a failure of its own, and none that is not counted.
THEOREM TypeCorrect == Spec => []TypeOK
<1>1. TypeInv => TypeOK
  BY DEF TypeInv
<1> QED BY <1>1, TypeInvariant, PTL
-----------------------------------------------------------------------------
(* What closes the breaker.                                                *)

\* A request that was in flight when the last failure was recorded has read an
\* earlier generation.
OutdatedIsSeen == \A r \in outdated : seen[r] < generation

LEMMA InitOutdated == Init => OutdatedIsSeen
BY DEF Init, OutdatedIsSeen

LEMMA NextOutdated == TypeInv /\ OutdatedIsSeen /\ [Next]_vars => OutdatedIsSeen'
<1>. SUFFICES ASSUME TypeInv, OutdatedIsSeen, [Next]_vars PROVE OutdatedIsSeen'
  OBVIOUS
<1>. USE KindsDiffer DEF TypeInv, TypeOK, OutdatedIsSeen, InFlight, Running, Probing
<1>1. ASSUME NEW c \in Command, Admit(c) PROVE OutdatedIsSeen'
  BY <1>1 DEF Admit
<1>2. ASSUME NEW c \in Command, Over(c), UNCHANGED generation PROVE OutdatedIsSeen'
  BY <1>2 DEF Over
<1>3. ASSUME NEW c \in Command, Fail(c) PROVE OutdatedIsSeen'
  BY <1>3 DEF Fail
<1>4. ASSUME NEW c \in Command, Trip(c) PROVE OutdatedIsSeen'
  BY <1>4 DEF Trip
<1>5. ASSUME NEW p \in Claim, HoldOff(p) \/ ProberEnds(p),
             outdated' = outdated \ {p}, UNCHANGED generation
      PROVE  OutdatedIsSeen'
  BY <1>5 DEF HoldOff, ProberEnds
<1>6. ASSUME NEW p \in Claim, Start(p) PROVE OutdatedIsSeen'
  BY <1>6 DEF Start, HoldOff, ProberEnds
<1>7. ASSUME NEW p \in Claim, Ping(p) PROVE OutdatedIsSeen'
  BY <1>7 DEF Ping
<1>8. CASE Register \/ Flip \/ Tick \/ UNCHANGED vars
  BY <1>8 DEF Register, Flip, Tick, vars
<1> QED BY <1>1, <1>2, <1>3, <1>4, <1>5, <1>6, <1>7, <1>8
        DEF Next, ProberStep, Succeed, ServerError, CallerGone, Pong, NoPong, ProberStops

\* The step that closes an open breaker is a success that is not outdated.
ClosesFresh ==
    openFor # Closed /\ openFor' = Closed =>
       \/ \E c \in Command : Running(c) /\ pc'[c] = "idle" /\ c \notin outdated
       \/ \E p \in Claim : Probing(p) /\ task'[p] = "ended" /\ p \notin outdated

LEMMA NextCloses == TypeInv /\ OutdatedIsSeen /\ [Next]_vars => ClosesFresh
<1>. SUFFICES ASSUME TypeInv, OutdatedIsSeen, [Next]_vars PROVE ClosesFresh
  OBVIOUS
<1>. USE BreakerAssumption
     DEF BreakerAssumption, TypeInv, TypeOK, OutdatedIsSeen, ClosesFresh, Closed
<1>1. ASSUME NEW c \in Command, Admit(c) PROVE ClosesFresh
  BY <1>1 DEF Admit
<1>2. ASSUME NEW c \in Command, Succeed(c) PROVE ClosesFresh
  BY <1>2 DEF Succeed, Over
<1>3. ASSUME NEW c \in Command, ServerError(c) \/ CallerGone(c) \/ Fail(c) \/ Trip(c)
      PROVE  ClosesFresh
  BY <1>3 DEF ServerError, CallerGone, Fail, Trip
<1>4. ASSUME NEW p \in Claim, HoldOff(p) PROVE ClosesFresh
  BY <1>4 DEF HoldOff
<1>5. ASSUME NEW p \in Claim, Pong(p) PROVE ClosesFresh
  <2>1. CASE prober = p /\ seen[p] = generation
    BY <1>5, <2>1 DEF Pong, ProberEnds
  <2>2. CASE ~(prober = p /\ seen[p] = generation)
    BY <1>4, <1>5, <2>2 DEF Pong
  <2> QED BY <2>1, <2>2
<1>6. ASSUME NEW p \in Claim, Ping(p) \/ ProberStops(p) PROVE ClosesFresh
  BY <1>6 DEF Ping, ProberStops
<1>7. CASE Register \/ Flip \/ UNCHANGED vars
  BY <1>7 DEF Register, Flip, vars
<1>8. CASE Tick
  BY <1>8 DEF Tick
<1> QED BY <1>1, <1>2, <1>3, <1>4, <1>5, <1>6, <1>7, <1>8
        DEF Next, ProberStep, Start, NoPong

\* An open breaker is closed only by a command or a probe that was sent after
\* the last failure was recorded (close_unless_reopened, close_from_prober).
THEOREM ClosesOnEvidence == Spec => ClosesOnFreshEvidence
<1>1. TypeInv /\ OutdatedIsSeen /\ [Next]_vars => [ClosesFresh]_vars
  BY NextCloses
<1>2. Spec => []OutdatedIsSeen
  BY TypeInvariant, InitOutdated, NextOutdated, PTL DEF Spec
<1>3. Spec => [][ClosesFresh]_vars
  BY <1>1, <1>2, TypeInvariant, PTL DEF Spec
<1> QED BY <1>3 DEF ClosesFresh, ClosesOnFreshEvidence

-----------------------------------------------------------------------------
(* Who pays for an open breaker.                                           *)

\* Callers are let through a window apart: each arms the window behind it, and
\* the deadline is never moved to less than a window ahead.
CallerInv ==
    /\ \A c \in Command : Running(c) => left[c] <= Budget
    /\ \A c \in through : openFor = Closed \/ left[c] + Window <= openFor + Budget
    /\ \A c, d \in through :
         c # d => left[c] + Window <= left[d] \/ left[d] + Window <= left[c]

LEMMA InitCaller == Init => CallerInv
BY DEF Init, CallerInv, Running

LEMMA NextCaller == TypeInv /\ CallerInv /\ [Next]_vars => CallerInv'
<1>. SUFFICES ASSUME TypeInv, CallerInv, [Next]_vars PROVE CallerInv'
  OBVIOUS
<1>. USE KindsDiffer, BreakerAssumption
     DEF BreakerAssumption, TypeInv, TypeOK, CallerInv, Running, Closed
<1>1. ASSUME NEW c \in Command, Admit(c) PROVE CallerInv'
  <2>1. CASE openFor = Closed
    BY <1>1, <2>1 DEF Admit
  <2>2. CASE openFor = 0
    <3>1. \A d \in through : d # c /\ left[d] + Window <= Budget
      BY <1>1, <2>2 DEF Admit
    <3> QED BY <1>1, <2>2, <3>1 DEF Admit
  <2> QED BY <1>1, <2>1, <2>2 DEF Admit
<1>2. ASSUME NEW c \in Command, Succeed(c) PROVE CallerInv'
  BY <1>2 DEF Succeed, Over
<1>3. ASSUME NEW c \in Command, Over(c), UNCHANGED openFor PROVE CallerInv'
  BY <1>3 DEF Over
<1>4. ASSUME NEW c \in Command, Fail(c) PROVE CallerInv'
  BY <1>4 DEF Fail
<1>5. ASSUME NEW c \in Command, Trip(c) PROVE CallerInv'
  BY <1>5 DEF Trip
<1>6. ASSUME NEW p \in Claim, HoldOff(p), UNCHANGED <<pc, through>>
      PROVE  CallerInv'
  BY <1>6 DEF HoldOff, ProberEnds
<1>7. ASSUME NEW p \in Claim, ProberEnds(p), UNCHANGED <<pc, through>>,
             openFor' \in {openFor, Closed}
      PROVE  CallerInv'
  BY <1>7 DEF ProberEnds
<1>8. ASSUME NEW p \in Claim, Ping(p) PROVE CallerInv'
  BY <1>8 DEF Ping
<1>9. CASE Register \/ Flip \/ UNCHANGED vars
  BY <1>9 DEF Register, Flip, vars
<1>10. CASE Tick
  BY <1>10 DEF Tick
<1> QED BY <1>1, <1>2, <1>3, <1>4, <1>5, <1>6, <1>7, <1>8, <1>9, <1>10
        DEF Next, ProberStep, ServerError, CallerGone, Start, Pong, NoPong, ProberStops

\* An outage costs the budget of one caller at a time, or of one for each window
\* a long timeout spans, whoever fails, goes away or stops (Breaker::admit arms
\* the window behind the caller it lets through).
THEOREM CallersPayInTurn == Spec => []OneCallerPays
<1>1. TypeInv /\ CallerInv => OneCallerPays
  <2>. SUFFICES ASSUME TypeInv, CallerInv PROVE OneCallerPays
    OBVIOUS
  <2>. DEFINE h == [c \in through |-> left[c]]
  <2>1. Budget \in Nat /\ Window \in Nat /\ Window > 0
    BY BreakerAssumption DEF BreakerAssumption
  <2>2. h \in [through -> 0 .. Budget]
    BY KindsDiffer, <2>1 DEF TypeInv, TypeOK, CallerInv
  <2>3. \A c, d \in through : c # d => h[c] + Window <= h[d] \/ h[d] + Window <= h[c]
    BY DEF CallerInv
  <2>. HIDE DEF h
  <2>4. Cardinality(through) <= 1 + Budget \div Window
    BY <2>1, <2>2, <2>3, WindowsApart
  <2> QED BY <2>4 DEF OneCallerPays
<1>2. Spec => []CallerInv
  BY TypeInvariant, InitCaller, NextCaller, PTL DEF Spec
<1> QED BY <1>1, <1>2, TypeInvariant, PTL
-----------------------------------------------------------------------------
(* One PING at a time.                                                     *)

Active(p) == task[p] \in {"sleeping", "probing"}

\* How long prober p goes on at most, if its probe does not start another round.
Rem(p) == left[p] + IF task[p] = "sleeping" THEN ProbeBudget ELSE 0

\* The claim is held by the newest prober.  One that lost it did so when the
\* deadline had passed, and has no more than a probe before it; whoever claims
\* after it sleeps for a whole window first.
ProberInv ==
    /\ \A p \in Claim : Probing(p) => left[p] <= ProbeBudget
    /\ \A p \in Claim : task[p] = "sleeping" => left[p] <= Window
    /\ (\E c \in Command : pc[c] = "tripping") => openFor # 0
    /\ \A p \in Claim : task[p] = "starting" => prober = p /\ openFor # 0
    /\ prober # Nobody => prober = claims
    /\ \A p \in Claim :
         Active(p) =>
           IF prober = p
           THEN openFor = Closed \/ Rem(p) <= openFor + ProbeBudget
           ELSE Rem(p) <= ProbeBudget
    /\ \A p, q \in Claim :
         Active(p) /\ Active(q) /\ p < q => Rem(p) + Window <= Rem(q)

LEMMA InitProber == Init => ProberInv
BY DEF Init, ProberInv, Probing, Active, Nobody

\* Nothing that a prober is judged by has changed.
LEMMA SameProbers ==
    ASSUME TypeInv, ProberInv, UNCHANGED <<prober, claims, task>>,
           \A p \in Claim : left'[p] = left[p],
           \A c \in Command : pc'[c] = "tripping" => pc[c] = "tripping",
           UNCHANGED openFor \/ openFor' = Closed
    PROVE  ProberInv'
<1>. \A p \in Claim : (Active(p) <=> Active(p)') /\ Rem(p)' = Rem(p) /\ (Probing(p) <=> Probing(p)')
  BY DEF Active, Rem, Probing
<1> QED BY DEF ProberInv, Closed

\* A prober ends, with the breaker closed and its claim given back or not.
LEMMA EndedProber ==
    ASSUME TypeInv, ProberInv, NEW p \in Claim, ProberEnds(p),
           UNCHANGED <<pc, claims>>,
           \/ UNCHANGED <<openFor, prober>>
           \/ Active(p) /\ prober = p /\ openFor' = Closed /\ prober' = Nobody
    PROVE  ProberInv'
<1>1. ~Active(p)' /\ ~Probing(p)' /\ task'[p] = "ended"
  BY DEF TypeInv, TypeOK, ProberEnds, Active, Probing
<1>2. \A q \in Claim \ {p} :
        /\ task'[q] = task[q]
        /\ (Active(q)' <=> Active(q)) /\ Rem(q)' = Rem(q) /\ (Probing(q)' <=> Probing(q))
        /\ left'[q] = left[q]
  BY KindsDiffer DEF TypeInv, TypeOK, ProberEnds, Active, Rem, Probing
<1>3. CASE UNCHANGED <<openFor, prober>>
  BY <1>1, <1>2, <1>3 DEF ProberInv
<1>4. CASE Active(p) /\ prober = p /\ openFor' = Closed /\ prober' = Nobody
  BY <1>1, <1>2, <1>4 DEF ProberInv, Closed, Nobody, Active, Claim
<1> QED BY <1>3, <1>4

\* A prober begins a round.
LEMMA HeldOff ==
    ASSUME TypeInv, ProberInv, NEW p \in Claim, task[p] # "none", HoldOff(p),
           UNCHANGED <<pc, claims, prober>>
    PROVE  ProberInv'
<1>1. CASE prober # p
  BY <1>1, EndedProber DEF HoldOff
<1>2. CASE prober = p
  <2>1. /\ Active(p)' /\ ~Probing(p)' /\ task'[p] = "sleeping"
        /\ Rem(p)' = Window + ProbeBudget /\ openFor' = Window + ProbeBudget
    BY <1>2, KindsDiffer DEF TypeInv, TypeOK, HoldOff, Active, Rem, Probing
  <2>2. \A q \in Claim \ {p} :
          /\ task'[q] = task[q]
          /\ (Active(q)' <=> Active(q)) /\ Rem(q)' = Rem(q) /\ (Probing(q)' <=> Probing(q))
          /\ left'[q] = left[q]
    BY <1>2, KindsDiffer DEF TypeInv, TypeOK, HoldOff, Active, Rem, Probing
  <2>3. openFor' # 0 /\ openFor' # Closed
    BY <2>1, BreakerAssumption DEF BreakerAssumption, Closed
  <2>4. prober = claims
    BY <1>2 DEF ProberInv, Nobody, Claim
  <2>5. \A q \in Claim : Active(q) => q <= p
    BY <1>2, <2>4 DEF TypeInv, TypeOK, Active
  <2>6. \A q \in Claim \ {p} : Active(q) => Rem(q) <= ProbeBudget /\ Rem(q) \in Nat
    BY <1>2, KindsDiffer, BreakerAssumption
       DEF BreakerAssumption, ProberInv, TypeInv, TypeOK, Rem
  <2>7. \A q, r \in Claim :
          Active(q)' /\ Active(r)' /\ q < r => Rem(q)' + Window <= Rem(r)'
    <3>. SUFFICES ASSUME NEW q \in Claim, NEW r \in Claim, Active(q)', Active(r)', q < r
                  PROVE  Rem(q)' + Window <= Rem(r)'
      OBVIOUS
    <3>1. CASE r = p
      BY <3>1, <2>1, <2>2, <2>6, BreakerAssumption DEF BreakerAssumption, Claim
    <3>2. CASE q = p
      BY <3>2, <2>2, <2>5 DEF Claim
    <3>3. CASE q # p /\ r # p
      BY <3>3, <2>2 DEF ProberInv
    <3> QED BY <3>1, <3>2, <3>3
  <2>8. \A q \in Claim :
          Active(q)' => IF prober' = q
                        THEN openFor' = Closed \/ Rem(q)' <= openFor' + ProbeBudget
                        ELSE Rem(q)' <= ProbeBudget
    BY <1>2, <2>1, <2>2, <2>6, BreakerAssumption DEF BreakerAssumption
  <2>9. \A q \in Claim : task'[q] = "sleeping" => left'[q] <= Window
    <3>1. left'[p] = Window /\ Window \in Nat
      BY <1>2, KindsDiffer, BreakerAssumption
         DEF BreakerAssumption, TypeInv, TypeOK, HoldOff
    <3> QED BY <2>2, <3>1 DEF ProberInv
  <2> QED BY <1>2, <2>1, <2>2, <2>3, <2>7, <2>8, <2>9 DEF ProberInv
<1> QED BY <1>1, <1>2

LEMMA AdmitProber ==
    ASSUME TypeInv, ProberInv, NEW c \in Command, Admit(c) PROVE ProberInv'
<1>1. \A p \in Claim :
        /\ left'[p] = left[p] /\ task'[p] = task[p]
        /\ (Active(p) <=> Active(p)') /\ Rem(p)' = Rem(p) /\ (Probing(p) <=> Probing(p)')
  BY KindsDiffer DEF TypeInv, TypeOK, Admit, Active, Rem, Probing
<1>2. \A d \in Command : pc'[d] = "tripping" => pc[d] = "tripping"
  BY DEF TypeInv, TypeOK, Admit
<1>3. CASE openFor = Closed
  BY <1>1, <1>2, <1>3, SameProbers DEF Admit
<1>4. CASE openFor # Closed
  <2>1. openFor = 0 /\ openFor' = Window /\ prober' = Nobody
    BY <1>4, BreakerAssumption DEF BreakerAssumption, Admit, TypeInv, TypeOK, Closed
  <2>2. Window # 0
    BY BreakerAssumption DEF BreakerAssumption
  <2>3. \A p \in Claim : Active(p) => Rem(p) <= ProbeBudget
    BY <2>1, BreakerAssumption DEF BreakerAssumption, ProberInv, Closed
  <2>4. \A p \in Claim : prober' # p
    BY <2>1 DEF Nobody, Claim
  <2> QED BY <1>1, <1>2, <2>1, <2>2, <2>3, <2>4 DEF ProberInv, Admit
<1> QED BY <1>3, <1>4

LEMMA FailProber ==
    ASSUME TypeInv, ProberInv, NEW c \in Command, Fail(c) PROVE ProberInv'
<1>1. \A p \in Claim :
        /\ left'[p] = left[p] /\ task'[p] = task[p]
        /\ (Active(p) <=> Active(p)') /\ Rem(p)' = Rem(p) /\ (Probing(p) <=> Probing(p)')
  BY KindsDiffer DEF TypeInv, TypeOK, Fail, Active, Rem, Probing
<1>2. openFor' = Window /\ Window # 0 /\ prober' = prober /\ claims' = claims
  BY BreakerAssumption DEF BreakerAssumption, Fail
<1>3. \A p \in Claim : Active(p) => Rem(p) <= Window + ProbeBudget
  BY KindsDiffer, BreakerAssumption
     DEF BreakerAssumption, ProberInv, TypeInv, TypeOK, Active, Rem, Probing
<1> QED BY <1>1, <1>2, <1>3 DEF ProberInv

LEMMA TripProber ==
    ASSUME TypeInv, ProberInv, NEW c \in Command, Trip(c) PROVE ProberInv'
<1>1. openFor # 0 /\ openFor' = openFor /\ left' = left
  BY DEF Trip, ProberInv
<1>2. \A d \in Command : pc'[d] = "tripping" => pc[d] = "tripping"
  BY DEF TypeInv, TypeOK, Trip
<1>3. CASE registered /\ prober = Nobody
  <2>1. task' = [task EXCEPT ![claims + 1] = "starting"]
        /\ prober' = claims + 1 /\ claims' = claims + 1
    BY <1>3 DEF Trip
  <2>2. claims + 1 > 0 /\ (claims + 1 \in Claim => task[claims + 1] = "none")
    BY DEF TypeInv, TypeOK
  <2>3. \A p \in Claim :
          /\ (Active(p) <=> Active(p)') /\ (Active(p) => Rem(p)' = Rem(p) /\ p # claims + 1)
          /\ (Probing(p) <=> Probing(p)')
          /\ task'[p] = "starting" => task[p] = "starting" \/ p = claims + 1
    BY <1>1, <2>1, <2>2 DEF TypeInv, TypeOK, Active, Rem, Probing
  <2>4. \A p \in Claim : prober # p
    BY <1>3 DEF Nobody, Claim
  <2> QED BY <1>1, <1>2, <2>1, <2>3, <2>4 DEF ProberInv
<1>4. CASE ~(registered /\ prober = Nobody)
  BY <1>1, <1>2, <1>4, SameProbers DEF Trip
<1> QED BY <1>3, <1>4

LEMMA PingProber ==
    ASSUME TypeInv, ProberInv, NEW p \in Claim, Ping(p) PROVE ProberInv'
<1>1. \A q \in Claim :
        /\ (Active(q) <=> Active(q)') /\ Rem(q)' = Rem(q)
        /\ task'[q] = "starting" => task[q] = "starting"
  BY KindsDiffer, BreakerAssumption
     DEF BreakerAssumption, TypeInv, TypeOK, Ping, Active, Rem
<1>2. \A q \in Claim : Probing(q)' => left'[q] <= ProbeBudget
  BY KindsDiffer, BreakerAssumption
     DEF BreakerAssumption, ProberInv, TypeInv, TypeOK, Ping, Probing
<1>3. \A q \in Claim : task'[q] = "sleeping" => left'[q] <= Window
  BY KindsDiffer DEF ProberInv, TypeInv, TypeOK, Ping
<1> QED BY <1>1, <1>2, <1>3 DEF ProberInv, Ping

LEMMA TickProber == TypeInv /\ ProberInv /\ Tick => ProberInv'
<1>. SUFFICES ASSUME TypeInv, ProberInv, Tick PROVE ProberInv'
  OBVIOUS
<1>1. /\ \A p \in Claim : task[p] # "starting"
      /\ \A c \in Command : pc[c] # "tripping"
  BY DEF Tick
<1>2. \A p \in Claim :
        /\ task'[p] = task[p]
        /\ (Active(p) <=> Active(p)') /\ (Probing(p) <=> Probing(p)')
        /\ Active(p) => left'[p] = left[p] - 1 /\ Rem(p)' = Rem(p) - 1 /\ Rem(p) \in Nat
  BY KindsDiffer, BreakerAssumption
     DEF BreakerAssumption, TypeInv, TypeOK, Tick, Active, Rem, Probing
<1>3. openFor = Closed \/ openFor' >= openFor - 1
  BY DEF TypeInv, TypeOK, Tick, Closed
<1>4. openFor = Closed => openFor' = Closed
  BY DEF TypeInv, TypeOK, Tick, Closed
<1>5. \A p \in Claim : Probing(p)' => left'[p] <= ProbeBudget
  BY <1>2, KindsDiffer, BreakerAssumption
     DEF BreakerAssumption, ProberInv, TypeInv, TypeOK, Active, Probing
<1>6. \A p \in Claim :
        Active(p)' => IF prober' = p
                      THEN openFor' = Closed \/ Rem(p)' <= openFor' + ProbeBudget
                      ELSE Rem(p)' <= ProbeBudget
  <2>. SUFFICES ASSUME NEW p \in Claim, Active(p)'
                PROVE  IF prober' = p
                       THEN openFor' = Closed \/ Rem(p)' <= openFor' + ProbeBudget
                       ELSE Rem(p)' <= ProbeBudget
    OBVIOUS
  <2>1. Rem(p)' = Rem(p) - 1 /\ Rem(p) \in Nat /\ Active(p) /\ prober' = prober
    BY <1>2 DEF Tick
  <2>2. openFor \in Int /\ openFor' \in Int /\ ProbeBudget \in Nat
    BY BreakerAssumption
       DEF BreakerAssumption, TypeInv, TypeOK, Tick, Closed
  <2>3. CASE prober = p
    <3>1. openFor = Closed \/ Rem(p) <= openFor + ProbeBudget
      BY <2>1, <2>3 DEF ProberInv
    <3> QED BY <1>3, <1>4, <2>1, <2>2, <2>3, <3>1
  <2>4. CASE prober # p
    <3>1. Rem(p) <= ProbeBudget
      BY <2>1, <2>4 DEF ProberInv
    <3> QED BY <2>1, <2>2, <2>4, <3>1
  <2> QED BY <2>3, <2>4
<1>7. \A p, q \in Claim :
        Active(p)' /\ Active(q)' /\ p < q => Rem(p)' + Window <= Rem(q)'
  BY <1>2, BreakerAssumption DEF BreakerAssumption, ProberInv
<1>8. \A p \in Claim : task'[p] = "sleeping" => left'[p] <= Window
  <2>. SUFFICES ASSUME NEW p \in Claim, task'[p] = "sleeping" PROVE left'[p] <= Window
    OBVIOUS
  <2>1. left'[p] = left[p] - 1 /\ left[p] \in Nat /\ left[p] <= Window /\ Window \in Nat
    BY <1>2, KindsDiffer, BreakerAssumption
       DEF BreakerAssumption, ProberInv, TypeInv, TypeOK, Active
  <2> QED BY <2>1
<1> QED BY <1>1, <1>2, <1>5, <1>6, <1>7, <1>8 DEF ProberInv, Tick

LEMMA NextProber == TypeInv /\ ProberInv /\ [Next]_vars => ProberInv'
<1>. SUFFICES ASSUME TypeInv, ProberInv, [Next]_vars PROVE ProberInv'
  OBVIOUS
<1>1. ASSUME NEW c \in Command, Over(c), UNCHANGED <<prober, claims, task>>,
             UNCHANGED openFor \/ openFor' = Closed
      PROVE  ProberInv'
  <2>1. /\ \A p \in Claim : left'[p] = left[p]
        /\ \A d \in Command : pc'[d] = "tripping" => pc[d] = "tripping"
    BY <1>1, KindsDiffer DEF TypeInv, TypeOK, Over
  <2> QED BY <1>1, <2>1, SameProbers
<1>2. ASSUME NEW c \in Command, Succeed(c) \/ ServerError(c) \/ CallerGone(c)
      PROVE  ProberInv'
  BY <1>1, <1>2 DEF Succeed, ServerError, CallerGone
<1>3. CASE Register \/ Flip \/ UNCHANGED vars
  BY <1>3, SameProbers DEF Register, Flip, vars
<1>4. ASSUME NEW p \in Claim, Start(p) PROVE ProberInv'
  BY <1>4, HeldOff DEF Start
<1>5. ASSUME NEW p \in Claim, Pong(p) PROVE ProberInv'
  BY <1>5, HeldOff, EndedProber DEF Pong, Probing, Active
<1>6. ASSUME NEW p \in Claim, NoPong(p) PROVE ProberInv'
  BY <1>6, HeldOff DEF NoPong, Probing
<1>7. ASSUME NEW p \in Claim, ProberStops(p) PROVE ProberInv'
  BY <1>7, EndedProber DEF ProberStops
<1> QED BY <1>2, <1>3, <1>4, <1>5, <1>6, <1>7, AdmitProber, FailProber, TripProber,
           PingProber, TickProber DEF Next, ProberStep

\* However a claim is lost, taken over and made again, and whatever deadline a
\* late failure sets, two probers never wait for an answer at once, or no more
\* than one for each window a long probe spans (claim_prober, hold_off,
\* close_from_prober).
THEOREM OnePingAtATime == Spec => []OnePing
<1>1. TypeInv /\ ProberInv => OnePing
  <2>. SUFFICES ASSUME TypeInv, ProberInv PROVE OnePing
    OBVIOUS
  <2>. DEFINE S == {p \in Claim : Probing(p)}
              h == [p \in S |-> left[p]]
  <2>1. ProbeBudget \in Nat /\ Window \in Nat /\ Window > 0
    BY BreakerAssumption DEF BreakerAssumption
  <2>2. h \in [S -> 0 .. ProbeBudget]
    BY KindsDiffer, <2>1 DEF TypeInv, TypeOK, ProberInv
  <2>3. \A p, q \in S : p < q => h[p] + Window <= h[q]
    BY KindsDiffer DEF TypeInv, TypeOK, ProberInv, Active, Probing, Rem
  <2>4. \A p, q \in S : p # q => p < q \/ q < p
    BY DEF Claim
  <2>5. \A p, q \in S : p # q => h[p] + Window <= h[q] \/ h[q] + Window <= h[p]
    BY <2>3, <2>4
  <2>. HIDE DEF h, S
  <2>6. Cardinality(S) <= 1 + ProbeBudget \div Window
    BY <2>1, <2>2, <2>5, WindowsApart
  <2> QED BY <2>6 DEF OnePing, S
<1>2. Spec => []ProberInv
  BY TypeInvariant, InitProber, NextProber, PTL DEF Spec
<1> QED BY <1>1, <1>2, TypeInvariant, PTL
=============================================================================
