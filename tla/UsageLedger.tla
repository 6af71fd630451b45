---------------------------- MODULE UsageLedger ----------------------------
(***************************************************************************)
(* What the delivery of usage records promises of each of them, with no    *)
(* queue, batches, retries or control plane.  A record that is emitted     *)
(* is held until it meets its fate, once and for good: it is delivered, or *)
(* dropped and counted, or lost with the queue of a worker that stops.     *)
(* Records are billed and settled together.  What is delivered has been    *)
(* billed, what is lost has not and never will be, and nothing is billed   *)
(* twice, except what those who bill have misled the worker about, which   *)
(* is billed at most Copies times.                                         *)
(***************************************************************************)
EXTENDS Naturals

CONSTANTS
    Event,   \* the usage records
    Copies   \* how often a record may be billed at most

VARIABLES
    fate,    \* what has become of each record
    rows,    \* how many times it has been billed
    misled   \* the records that may be billed more than once

vars == <<fate, rows, misled>>

Fate == {"none", "held", "delivered", "dropped", "lost"}

Init ==
    /\ fate = [e \in Event |-> "none"]
    /\ rows = [e \in Event |-> 0]
    /\ misled = {}

\* The records of b meet the fate f.
Meet(b, f) == fate' = [e \in Event |-> IF e \in b THEN f ELSE fate[e]]

\* The records of b, accepted at some time and not lost, are billed.
Bill(b) ==
    /\ \A e \in b : /\ fate[e] \in {"held", "delivered", "dropped"}
                    /\ rows[e] = 0 \/ (e \in misled' /\ rows[e] < Copies)
    /\ rows' = [e \in Event |-> rows[e] + IF e \in b THEN 1 ELSE 0]

\* A record is accepted, or turned away at once.
Emit(e) ==
    /\ fate[e] = "none"
    /\ Meet({e}, "held") \/ Meet({e}, "dropped")
    /\ UNCHANGED rows

\* Records held together are settled together, and may be billed as they are;
\* those that are delivered are billed now or have been before.
Settle(b) ==
    /\ \A e \in b : fate[e] = "held"
    /\ Bill(b) \/ UNCHANGED rows
    /\ \/ Meet(b, "delivered") /\ \A e \in b : rows'[e] > 0
       \/ Meet(b, "dropped")

\* Records are billed that stay with their fate: an attempt that is tried again
\* got through, or a late one for records settled before.
BillOnly(b) == Bill(b) /\ UNCHANGED fate

\* Records that were never posted are lost.
Lose(b) ==
    /\ \A e \in b : fate[e] = "held" /\ rows[e] = 0
    /\ Meet(b, "lost")
    /\ UNCHANGED rows

Next ==
    /\ misled \subseteq misled'
    /\ \/ \E e \in Event : Emit(e)
       \/ \E b \in SUBSET Event : Settle(b) \/ BillOnly(b) \/ Lose(b)
       \/ UNCHANGED <<fate, rows>>

Spec == Init /\ [][Next]_vars
=============================================================================
