-------------------------- MODULE AdmissionPolicy --------------------------
(***************************************************************************)
(* What a rate limit promises of the requests it admits, with no counters, *)
(* locks or layers.  A bucket of limits (an API key, a model, a policy) is *)
(* entered by a request only while fewer than its concurrency limit are    *)
(* inside and less than its limit stands, in the window of the second the  *)
(* request goes by, of every dimension it limits.  Requests are spent on   *)
(* entry; tokens are spent when they are known, whatever the limit says.   *)
(*                                                                         *)
(* All that has been spent in a window stands, but for one excuse: a       *)
(* request that goes by a second of an earlier window than the running one *)
(* may wipe what stood since then.                                         *)
(***************************************************************************)
EXTENDS Integers, FiniteSets

CONSTANTS
    Request,
    Key,          \* the buckets of limits
    RequestDim,   \* dimensions that count requests
    TokenDim,     \* dimensions that count tokens
    Window,       \* the length of each dimension's window
    Limit,        \* for each bucket and dimension, the limit
    Concurrency,  \* for each bucket, how many requests may be inside
    Unlimited,    \* no limit
    MaxTokens,    \* the most tokens one response costs
    MaxLag        \* how old a second a request may go by

VARIABLES
    clock,
    inside, \* the requests inside each bucket
    spent,  \* what has been spent of each bucket, dimension and window
    wiped   \* and what of it no longer stands

vars == <<clock, inside, spent, wiped>>

Dim == RequestDim \union TokenDim

InWindow(d, now) == now \div Window[d]

\* The seconds a request may go by.
Seconds == {now \in 0 .. clock : clock - now <= MaxLag}

\* What stood in k since the window of "now" is wiped, in dimensions of which
\* that window is over.
MayWipe(k, now) ==
    \E ds \in SUBSET {d \in Dim : InWindow(d, now) < InWindow(d, clock)} :
        wiped' = [wiped EXCEPT ![k] =
                    [d \in Dim |-> [b \in DOMAIN @[d] |->
                        IF d \in ds /\ InWindow(d, now) <= b
                        THEN spent[k][d][b] ELSE @[d][b]]]]

\* The limits leave room in k for one more request at "now".
HasRoom(k, now) ==
    /\ Concurrency[k] # Unlimited => Cardinality(inside[k]) < Concurrency[k]
    /\ \A d \in Dim :
         Limit[k][d] # Unlimited =>
            spent[k][d][InWindow(d, now)] - wiped'[k][d][InWindow(d, now)] < Limit[k][d]

\* n units are spent, in the windows of "now", of the dimensions ds of k.
Spend(k, ds, now, n) ==
    spent' = [spent EXCEPT ![k] =
                [d \in Dim |-> [b \in DOMAIN @[d] |->
                    @[d][b] + (IF d \in ds /\ b = InWindow(d, now) THEN n ELSE 0)]]]

Init ==
    /\ clock = 0
    /\ inside = [k \in Key |-> {}]
    /\ \A k \in Key, d \in Dim : \A b \in DOMAIN spent[k][d] : spent[k][d][b] = 0
    /\ wiped = spent

Enter(r, k) ==
    /\ r \notin inside[k]
    /\ inside' = [inside EXCEPT ![k] = @ \union {r}]
    /\ \E now \in Seconds :
         /\ MayWipe(k, now)
         /\ HasRoom(k, now)
         /\ Spend(k, {d \in RequestDim : Limit[k][d] # Unlimited}, now, 1)
    /\ UNCHANGED clock

SpendTokens(k) ==
    \E now \in Seconds, n \in 0 .. MaxTokens :
        MayWipe(k, now) /\ Spend(k, TokenDim, now, n)

\* A response that was streamed is billed while the request is inside ...
Bill(r, k) ==
    /\ r \in inside[k]
    /\ UNCHANGED <<clock, inside>>
    /\ SpendTokens(k)

\* ... and any other when it leaves.
Leave(r, k) ==
    /\ r \in inside[k]
    /\ inside' = [inside EXCEPT ![k] = @ \ {r}]
    /\ UNCHANGED <<spent, wiped>> \/ SpendTokens(k)
    /\ UNCHANGED clock

\* A request that is turned away, or that only asks, spends nothing.
LookAt(k) ==
    /\ UNCHANGED <<clock, inside, spent>>
    /\ \E now \in Seconds : MayWipe(k, now)

Tick ==
    /\ clock' = clock + 1
    /\ UNCHANGED <<inside, spent, wiped>>

Next ==
    \/ \E r \in Request, k \in Key : Enter(r, k) \/ Bill(r, k) \/ Leave(r, k)
    \/ \E k \in Key : LookAt(k)
    \/ Tick

Spec == Init /\ [][Next]_vars
=============================================================================
