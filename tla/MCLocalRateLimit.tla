------------------------- MODULE MCLocalRateLimit -------------------------
EXTENDS LocalRateLimit, TLC

CONSTANTS r1, r2, r3, apiKey, model, rpm, rpd, tpm

TokensByMinute == <<tpm>>
ByMinute == <<rpm>>
ByMinuteAndDay == <<rpm, rpd>>
ReportedDims == {rpm, tpm}

\* A "minute" is two ticks of the clock and a "day" two minutes.
Windows == [d \in Dim |-> IF d \in {rpm, tpm} THEN 2 ELSE 4]

\* A request of an API key with limits of its own, and one that another API
\* key (without limits) sends to the same model.
TwoKeys == (r1 :> <<apiKey, model>> @@ r2 :> <<model>>)

\* Limits that two requests reach in every dimension: a day's requests are used
\* up by the first, a minute's only by both.
PairLimits ==
    [k \in Key |-> [d \in Dim |->
        IF k = model THEN (IF d = rpm THEN 2 ELSE 1)
        ELSE IF d = rpm THEN 1 ELSE Unlimited]]
PairConcurrency == (apiKey :> Unlimited @@ model :> 1)

\* And a third request, with the first one's API key.
ThreeRequests == (r1 :> <<apiKey, model>> @@ r2 :> <<apiKey, model>> @@ r3 :> <<model>>)

SmallLimits ==
    [k \in Key |-> [d \in Dim |->
        IF k = model THEN (IF d = tpm THEN 1 ELSE 2)
        ELSE IF d = rpm THEN 1 ELSE Unlimited]]
SmallConcurrency == (apiKey :> Unlimited @@ model :> 2)
=============================================================================
