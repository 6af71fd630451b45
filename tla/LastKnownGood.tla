--------------------------- MODULE LastKnownGood ---------------------------
(***************************************************************************)
(* What a reader of the gateway's configuration snapshot is promised,      *)
(* with none of the machinery that keeps the promise (no watches, batches, *)
(* pins or revisions).                                                     *)
(*                                                                         *)
(* For every key the gateway has last OBSERVED some bytes, or the absence  *)
(* of the key, and it SERVES some bytes, or nothing.  One rule relates the *)
(* two, whatever road the observation came by: a watch event, a full read, *)
(* or the cache file of an earlier process.                                *)
(*                                                                         *)
(*    - a key that is gone is not served;                                  *)
(*    - a key whose observed bytes load is served those bytes;             *)
(*    - a key whose observed bytes are rejected goes on being served what  *)
(*      it was served before, as long as this build can load that.         *)
(***************************************************************************)
CONSTANTS
    Key,     \* configuration keys
    Val,     \* the documents a key can hold
    Absent,  \* "no such key" and "nothing served"
    Builds   \* for each gateway build, the set of documents it can load

VARIABLES
    build,    \* the documents the running build can load
    observed, \* what the gateway last observed each key to hold
    served,   \* what the gateway serves for each key
    saved     \* the pairs of both that a later process may start from

vars == <<build, observed, served, saved>>

Content == [Key -> Val \union {Absent}]

Nothing == [k \in Key |-> Absent]

\* What is served for a key observed to hold "now", if "before" was served.
Settle(now, before, loadable) ==
    IF now = Absent THEN Absent
    ELSE IF now \in loadable THEN now
    ELSE IF before \in loadable THEN before
    ELSE Absent

\* Any of the earlier pairs may be lost at any time, and the current one may
\* be kept for a later process.
Save == saved' \in SUBSET (saved \union {[observed |-> observed', served |-> served']})

Init ==
    /\ build = {}
    /\ observed = Nothing
    /\ served = Nothing
    /\ saved = {}

\* Keys are observed, one or all of them at once.
Observe ==
    /\ observed' \in Content
    /\ served' = [k \in Key |-> Settle(observed'[k], served[k], build)]
    /\ Save
    /\ UNCHANGED build

\* The process stops, and with it everything it held in memory.
Stop ==
    /\ build' = {}
    /\ observed' = Nothing
    /\ served' = Nothing
    /\ saved' \in SUBSET saved

\* A process starts, on any build, with nothing or from a saved pair.
Start ==
    /\ build' \in Builds
    /\ \/ /\ observed' = Nothing
          /\ served' = Nothing
       \/ \E pair \in saved :
            /\ observed' = pair.observed
            /\ served' = [k \in Key |->
                            Settle(pair.observed[k], pair.served[k], build')]
    /\ Save

Next == Observe \/ Stop \/ Start

Spec == Init /\ [][Next]_vars
=============================================================================
