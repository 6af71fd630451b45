-------------------------- MODULE ConfigSupervisor --------------------------
(***************************************************************************)
(* The etcd configuration supervisor of the gateway                        *)
(* (crates/sibyl-gateway-etcd: supervisor.rs, snapshot_cache.rs), with the *)
(* etcd server it reads and the disk that holds its snapshot cache.        *)
(*                                                                         *)
(* One supervisor task range-reads every watched prefix in turn, publishes *)
(* the union as one snapshot (a resync), then watches each prefix from the *)
(* revision its own read was consistent as of, and applies the events of   *)
(* the merged streams in coalesced batches.  Documents this build cannot   *)
(* load are rejected: the last good value of the key is pinned and goes on *)
(* being served.  Every apply hands a detached task a copy of the observed *)
(* entries to write to the cache file, which seeds the next process.       *)
(***************************************************************************)
EXTENDS Integers, Sequences, FiniteSets

CONSTANTS
    Key,          \* etcd keys; distinct keys name distinct snapshot rows
    Prefix,       \* watched prefixes
    Global,       \* the prefixes of the shared catalog (PrefixScope::Global)
    MayRefuse,    \* the prefixes etcd refuses to let this gateway read at times
    Under,        \* for each key, the watched prefixes it lies under
    Val,          \* documents
    Absent,       \* no document: a deleted key, a row that is not served
    NoRow,        \* no entry in a map of rows
    NoFile,       \* no cache file on disk
    Builds,       \* for each gateway build, the documents its loader accepts
    CacheEnabled, \* whether a cache path is configured
    MaxRev,       \* bound: writes to etcd
    MaxBatch,     \* bound: events in one coalesced apply (MAX_APPLY_BATCH)
    MaxPending,   \* bound: cache writes in flight
    MaxFaults     \* bound: refusals, ended cycles, failed writes, restarts

Row == [val: Val, rev: Nat \ {0}]

Change == [key: Key, val: Val \union {Absent}]

ASSUME SupervisorAssumption ==
    /\ IsFiniteSet(Prefix) /\ Prefix # {}
    /\ Global \subseteq Prefix /\ MayRefuse \subseteq Prefix
    /\ Under \in [Key -> SUBSET Prefix]
    /\ \A k \in Key : Under[k] # {}
    /\ Absent \notin Val
    /\ NoRow \notin Row \union Val \union {Absent}
    /\ Builds \subseteq SUBSET Val
    /\ CacheEnabled \in BOOLEAN
    /\ MaxRev \in Nat /\ MaxBatch \in Nat /\ MaxPending \in Nat /\ MaxFaults \in Nat

VARIABLES
    (* the etcd server: the write made at each revision *)
    writes,
    (* the supervisor's fields *)
    build,     \* the documents the running build's loader accepts
    phase,     \* where the supervisor task is
    snapshot,  \* handle: the value served for each key
    state,     \* the last observed row of each key, rejected rows included
    stale,     \* stale_serving: the pinned last good row of a rejected key
    revision,  \* the revision floor
    applied,   \* WatchStatus.revision, sent with every heartbeat
    reported,  \* the revision published on /status/config
    (* the locals of one cycle *)
    readRev,   \* revision of each prefix's read; Unread, Refused
    loaded,    \* the union of the rows read so far
    next,      \* next revision each prefix's watch delivers; NoStream
    (* the locals of one coalesced apply *)
    added, removed,  \* BatchView: rows the staged mutations put or remove
    staged,    \* the staged mutations, as the last value given to each row
    batched,   \* events staged so far
    stamp,     \* apply_stamp: 0 stands for None
    dirty,     \* Dirty.cache
    (* the snapshot cache *)
    pending,   \* spawned cache writes that have not taken the write lock
    committed, \* the last revision this process committed; -1 is i64::MIN
    disk,      \* the cache file
    (* history of this process, which no action reads *)
    upTo,      \* up to where each prefix has been read, or its watch delivered
    lost,      \* a cache write has failed
    tied,      \* the last cache write was spawned while another of the same
               \* revision was in flight
    (* bound *)
    faults

etcdVars == writes
servingVars == <<build, snapshot, state, stale, revision>>
statusVars == <<applied, reported>>
cycleVars == <<readRev, loaded, next>>
batchVars == <<added, removed, staged, batched, stamp, dirty>>
cacheVars == <<pending, committed, disk, lost, tied>>
vars == <<writes, build, phase, snapshot, state, stale, revision, applied,
          reported, readRev, loaded, next, added, removed, staged, batched,
          stamp, dirty, pending, committed, disk, upTo, lost, tied, faults>>

Unread == -1
Refused == -2
NoStream == 0

Phase == {"off", "reading", "loaded", "opening", "watching", "staging",
          "published", "draining"}

NoRows == [k \in Key |-> NoRow]
NoneServed == [k \in Key |-> Absent]
Untouched == NoRow

-----------------------------------------------------------------------------
(* The etcd server: a history of puts and deletes, one per revision.       *)

\* Write i puts a document at k, and no write of k follows it up to r.
IsLastPut(i, k, r) ==
    /\ writes[i].key = k
    /\ writes[i].val # Absent
    /\ \A j \in i + 1 .. r : writes[j].key # k

\* The row of k as of revision r.
RowAt(k, r) ==
    IF \E i \in 1 .. r : IsLastPut(i, k, r)
    THEN LET i == CHOOSE i \in 1 .. r : IsLastPut(i, k, r)
         IN  [val |-> writes[i].val, rev |-> i]
    ELSE NoRow

KeysUnder(p) == {k \in Key : p \in Under[k]}

\* The revisions at which the watch of p still has an event to deliver.
Undelivered(p) ==
    {i \in next[p] .. Len(writes) : writes[i].key \in KeysUnder(p)}

Write(k, v) ==
    /\ Len(writes) < MaxRev
    /\ v = Absent => RowAt(k, Len(writes)) # NoRow
    /\ writes' = Append(writes, [key |-> k, val |-> v])
    /\ UNCHANGED <<phase, servingVars, statusVars, cycleVars, batchVars,
                   cacheVars, upTo, faults>>

-----------------------------------------------------------------------------
(* The loader and the last-known-good pins.                                *)

Loads(row, loadable) == row # NoRow /\ row.val \in loadable

\* Slip: a key whose edit is first seen by a resync is not pinned.
ResyncPinsOld(entries, pins, snap, observed, loadable) ==
    [k \in Key |-> IF Loads(entries[k], loadable) \/ entries[k] = NoRow
                      \/ ~Loads(pins[k], loadable)
                   THEN NoRow ELSE pins[k]]

\* The pins after a resync over "entries": a pin survives while its key is
\* present and rejected; a newly rejected key that was being served pins the
\* row the observed state held for it; a pin that no longer loads is dropped.
ResyncPins(entries, pins, snap, observed, loadable) ==
    [k \in Key |->
        LET kept ==
              IF entries[k] = NoRow \/ Loads(entries[k], loadable) THEN NoRow
              ELSE IF pins[k] # NoRow THEN pins[k]
              ELSE IF snap[k] # Absent THEN observed[k]
              ELSE NoRow
        IN  IF Loads(kept, loadable) THEN kept ELSE NoRow]

\* The snapshot a resync publishes: the rows that load, and the pinned ones.
ResyncSnapshot(entries, pins, loadable) ==
    [k \in Key |->
        IF Loads(entries[k], loadable) THEN entries[k].val
        ELSE IF pins[k] # NoRow THEN pins[k].val
        ELSE Absent]

-----------------------------------------------------------------------------
(* The snapshot cache.  "served" and "upTo" are history fields that the    *)
(* file does not hold: what the gateway was serving when the write was     *)
(* spawned, and up to where each prefix had been read or watched by then.  *)

CacheFile == [entries: [Key -> Row \union {NoRow}],
              stale: [Key -> Row \union {NoRow}],
              rev: Nat,
              served: [Key -> Val \union {Absent}],
              upTo: [Prefix -> Nat]]

\* The write that flush_cache spawns.
Spawned(entries, pins, rev, snap, seen) ==
    [entries |-> entries, stale |-> pins, rev |-> rev, served |-> snap, upTo |-> seen]

\* Slip: the pins are not written.
FlushRows(entries, pins, rev, snap, seen) ==
    IF CacheEnabled
    THEN /\ pending' = pending \union {Spawned(entries, NoRows, rev, snap, seen)}
         /\ tied' = \E w \in pending : w.rev = rev
    ELSE UNCHANGED <<pending, tied>>

\* Slip: no write is spawned while one is in flight.
FlushIfIdle(entries, pins, rev, snap, seen) ==
    IF CacheEnabled /\ pending = {}
    THEN /\ pending' = {Spawned(entries, pins, rev, snap, seen)}
         /\ tied' = FALSE
    ELSE UNCHANGED <<pending, tied>>

\* flush_cache, called at the end of an apply.
Flush(entries, pins, rev, snap, seen) ==
    IF CacheEnabled
    THEN /\ pending' = pending \union {Spawned(entries, pins, rev, snap, seen)}
         /\ tied' = \E w \in pending : w.rev = rev
    ELSE UNCHANGED <<pending, tied>>

\* Slip: the last write to take the lock wins.
CommitWriteAnyOrder(w) ==
    /\ pending' = pending \ {w}
    /\ disk' = w
    /\ committed' = w.rev
    /\ UNCHANGED <<etcdVars, phase, servingVars, statusVars, cycleVars,
                   batchVars, upTo, lost, tied, faults>>

\* Slip: the detached task asks the supervisor for its revision.
CommitWriteLate(w) ==
    /\ pending' = pending \ {w}
    /\ disk' = [w EXCEPT !.rev = revision]
    /\ committed' = revision
    /\ UNCHANGED <<etcdVars, phase, servingVars, statusVars, cycleVars,
                   batchVars, upTo, lost, tied, faults>>

\* store_encoded, once it holds the write lock: a write below the committed
\* revision is dropped, any other replaces the file.
CommitWrite(w) ==
    /\ pending' = pending \ {w}
    /\ IF w.rev < committed
       THEN UNCHANGED <<committed, disk>>
       ELSE /\ disk' = w
            /\ committed' = w.rev
    /\ UNCHANGED <<etcdVars, phase, servingVars, statusVars, cycleVars,
                   batchVars, upTo, lost, tied, faults>>

\* store_encoded when the file cannot be written: the old file stays.
WriteFails(w) ==
    /\ faults < MaxFaults
    /\ w.rev >= committed
    /\ pending' = pending \ {w}
    /\ lost' = TRUE
    /\ faults' = faults + 1
    /\ UNCHANGED <<etcdVars, phase, servingVars, statusVars, cycleVars,
                   batchVars, committed, disk, upTo, tied>>

-----------------------------------------------------------------------------
(* One cycle: read every prefix, resync, open the watches.                 *)

\* Slip: the rows of the last cycle's reads are still in the union.
NewCycleKeepingRows ==
    /\ readRev' = [p \in Prefix |-> Unread]
    /\ UNCHANGED loaded
    /\ next' = [p \in Prefix |-> NoStream]

NewCycle ==
    /\ readRev' = [p \in Prefix |-> Unread]
    /\ loaded' = NoRows
    /\ next' = [p \in Prefix |-> NoStream]

\* The prefixes are read one after the other, the environment's first.
IsNextRead(p) ==
    /\ phase = "reading"
    /\ readRev[p] = Unread
    /\ p \in Global => \A q \in Prefix \ Global : readRev[q] # Unread

\* Two reads of one key are two points in time; the later write is kept.
LaterRow(a, b) ==
    IF a = NoRow THEN b
    ELSE IF b # NoRow /\ b.rev > a.rev THEN b
    ELSE a

ReadPrefix(p) ==
    /\ IsNextRead(p)
    /\ readRev' = [readRev EXCEPT ![p] = Len(writes)]
    /\ loaded' = [k \in Key |->
                    IF k \in KeysUnder(p)
                    THEN LaterRow(loaded[k], RowAt(k, Len(writes)))
                    ELSE loaded[k]]
    /\ UNCHANGED <<etcdVars, phase, servingVars, statusVars, next, batchVars,
                   cacheVars, upTo, faults>>

\* A refusal is tolerated on the shared catalog alone.
ReadRefused(p) ==
    /\ IsNextRead(p)
    /\ p \in MayRefuse \intersect Global
    /\ faults < MaxFaults
    /\ readRev' = [readRev EXCEPT ![p] = Refused]
    /\ faults' = faults + 1
    /\ UNCHANGED <<etcdVars, phase, servingVars, statusVars, loaded, next,
                   batchVars, cacheVars, upTo>>

\* Slip: a refused prefix contributes nothing.
CarriedNever(k) == FALSE

\* Slip: a refused prefix carries over every row under it.
CarriedAlways(k) == \E p \in Under[k] : readRev[p] = Refused

\* A refused prefix carries over the rows last observed under it, except
\* where a prefix that was read answers for the key.
Carried(k) ==
    /\ \E p \in Under[k] : readRev[p] = Refused
    /\ \A p \in Under[k] : readRev[p] = Refused

UnionOfReads == [k \in Key |-> IF Carried(k) THEN state[k] ELSE loaded[k]]

ReadRevisions == {readRev[p] : p \in Prefix} \ {Refused}

\* Slip: the highest revision of the reads.
IsHighestRead(r) ==
    \/ ReadRevisions = {} /\ r = 0
    \/ r \in ReadRevisions /\ \A q \in ReadRevisions : r >= q

\* PrefixLoad.applied_revision: the lowest revision any read was consistent
\* as of, and 0 if every read was refused.
IsAppliedRevision(r) ==
    \/ ReadRevisions = {} /\ r = 0
    \/ r \in ReadRevisions /\ \A q \in ReadRevisions : r <= q

\* apply_resync_at: the snapshot is published before the observed state is
\* reconciled, and both before the revision is visible to anyone.
ApplyLoad ==
    /\ phase = "reading"
    /\ \A p \in Prefix : readRev[p] # Unread
    /\ Cardinality(pending) < MaxPending
    /\ LET entries == UnionOfReads
           pins == ResyncPins(entries, stale, snapshot, state, build)
       IN  /\ stale' = pins
           /\ snapshot' = ResyncSnapshot(entries, pins, build)
           /\ state' = entries
    /\ \E r \in ReadRevisions \union {0} :
         /\ IsAppliedRevision(r)
         /\ revision' = r
    /\ upTo' = [p \in Prefix |-> IF readRev[p] = Refused THEN upTo[p] ELSE readRev[p]]
    /\ phase' = "loaded"
    /\ UNCHANGED <<etcdVars, build, statusVars, cycleVars, batchVars,
                   cacheVars, faults>>

\* The end of apply_resync_at and record_read_revision: the revision of the
\* read is assigned, not raised, and the cache write is spawned.
ReportLoad ==
    /\ phase = "loaded"
    /\ applied' = revision
    /\ reported' = revision
    /\ Flush(state, stale, revision, snapshot, upTo)
    /\ phase' = "opening"
    /\ UNCHANGED <<etcdVars, servingVars, cycleVars, batchVars, committed,
                   disk, upTo, lost, faults>>

\* Slip: every watch starts from the latest of the reads.
WatchFromLatest(p) == (CHOOSE r \in ReadRevisions : IsHighestRead(r)) + 1

\* Slip: the watch replays the history etcd still holds.
WatchFromStart(p) == 1

\* The event after the prefix's own read.
WatchFrom(p) == readRev[p] + 1

\* Each prefix that was read is watched from its own read.  A refusal of the
\* catalog's watch leaves it without a stream for this cycle.
OpenWatches ==
    /\ phase = "opening"
    /\ \E refused \in SUBSET {p \in MayRefuse \intersect Global : readRev[p] # Refused} :
         /\ faults + Cardinality(refused) <= MaxFaults
         /\ faults' = faults + Cardinality(refused)
         /\ next' = [p \in Prefix |->
                       IF p \in refused \/ readRev[p] = Refused
                       THEN NoStream
                       ELSE WatchFrom(p)]
    /\ phase' = "watching"
    /\ UNCHANGED <<etcdVars, servingVars, statusVars, readRev, loaded,
                   batchVars, cacheVars, upTo>>

\* A read, a watch or a stream fails, is compacted or ends: the cycle is over
\* and the next one reads every prefix again.  (The delay is not modelled.)
EndCycle ==
    /\ phase \in {"reading", "opening", "watching"}
    /\ faults < MaxFaults
    /\ faults' = faults + 1
    /\ phase' = "reading"
    /\ NewCycle
    /\ UNCHANGED <<etcdVars, servingVars, statusVars, batchVars, cacheVars, upTo>>

-----------------------------------------------------------------------------
(* One coalesced apply of watch events.                                    *)

\* Slip: the snapshot is asked, whatever is staged.
PresentInSnapshot(k) == snapshot[k] # Absent

\* BatchView.present
Present(k) == k \notin removed /\ (k \in added \/ snapshot[k] # Absent)

\* What the snapshot holds once the staged mutations are replayed on it.
Effective == [k \in Key |-> IF staged[k] = Untouched THEN snapshot[k] ELSE staged[k]]

MaxOf(a, b) == IF a >= b THEN a ELSE b

\* Slip: the pin is left behind.
UnpinNever(k) == stale

Unpin(k) == [stale EXCEPT ![k] = NoRow]

\* Slip: each rejection pins the row observed before it.
CaptureLastObserved(k) == [stale EXCEPT ![k] = state[k]]

\* capture_last_good: a key that is served and not pinned yet is pinned at its
\* observed row.
CaptureLastGood(k) ==
    IF stale[k] = NoRow /\ Present(k) THEN [stale EXCEPT ![k] = state[k]] ELSE stale

\* Slip: one event too many.
BatchHasRoomForOneMore == batched <= MaxBatch

BatchHasRoom == batched < MaxBatch

\* stage_put of a document that loads.
StageAccepted(k, row) ==
    /\ row.val \in build
    /\ added' = added \union {k}
    /\ removed' = removed \ {k}
    /\ staged' = [staged EXCEPT ![k] = row.val]
    /\ stale' = Unpin(k)
    /\ state' = [state EXCEPT ![k] = row]
    /\ revision' = MaxOf(revision, row.rev)
    /\ stamp' = MaxOf(stamp, row.rev)
    /\ dirty' = TRUE

\* stage_put of a document that is rejected: capture_last_good first, then
\* the rejected bytes replace the observed row.
StageRejected(k, row) ==
    /\ row.val \notin build
    /\ stale' = CaptureLastGood(k)
    /\ state' = [state EXCEPT ![k] = row]
    /\ revision' = MaxOf(revision, row.rev)
    /\ dirty' = TRUE
    /\ UNCHANGED <<added, removed, staged, stamp>>

\* stage_delete.  Nothing is staged for a key the snapshot does not hold, but
\* its pin and its observed row go all the same.
StageDelete(k, rev) ==
    /\ stale' = Unpin(k)
    /\ state' = [state EXCEPT ![k] = NoRow]
    /\ revision' = MaxOf(revision, rev)
    /\ IF Present(k) \/ state[k] # NoRow
       THEN stamp' = MaxOf(stamp, MaxOf(revision, rev)) /\ dirty' = TRUE
       ELSE stamp' = MaxOf(stamp, rev) /\ UNCHANGED dirty
    /\ IF Present(k)
       THEN /\ added' = added \ {k}
            /\ removed' = removed \union {k}
            /\ staged' = [staged EXCEPT ![k] = Absent]
       ELSE UNCHANGED <<added, removed, staged>>

\* The next event of one stream joins the batch.
StageEvent(p) ==
    /\ phase \in {"watching", "staging"}
    /\ BatchHasRoom
    /\ phase = "watching" => Cardinality(pending) < MaxPending
    /\ next[p] # NoStream
    /\ \E i \in Undelivered(p) :
         /\ \A j \in Undelivered(p) : i <= j
         /\ next' = [next EXCEPT ![p] = i + 1]
         /\ upTo' = [upTo EXCEPT ![p] = i]
         /\ LET k == writes[i].key
                row == [val |-> writes[i].val, rev |-> i]
            IN  IF row.val = Absent
                THEN StageDelete(k, i)
                ELSE StageAccepted(k, row) \/ StageRejected(k, row)
    /\ batched' = batched + 1
    /\ phase' = "staging"
    /\ UNCHANGED <<etcdVars, build, snapshot, statusVars, readRev, loaded,
                   cacheVars, faults>>

\* The staged mutations are replayed on the published snapshot in one swap.
Publish ==
    /\ phase = "staging"
    /\ snapshot' = Effective
    /\ added' = {}
    /\ removed' = {}
    /\ staged' = [k \in Key |-> Untouched]
    /\ phase' = "published"
    /\ UNCHANGED <<etcdVars, build, state, stale, revision, statusVars,
                   cycleVars, batched, stamp, dirty, cacheVars, upTo, faults>>

\* After the swap: freshness is stamped, the status synchronised and, if the
\* observed state moved, a cache write spawned.
ReportBatch ==
    /\ phase = "published"
    /\ applied' = MaxOf(applied, stamp)
    /\ reported' = revision
    /\ IF dirty
       THEN Flush(state, stale, revision, snapshot, upTo)
       ELSE UNCHANGED <<pending, tied>>
    /\ batched' = 0
    /\ stamp' = 0
    /\ dirty' = FALSE
    /\ phase' = "watching"
    /\ UNCHANGED <<etcdVars, servingVars, cycleVars, added, removed, staged,
                   committed, disk, upTo, lost, faults>>

-----------------------------------------------------------------------------
(* Start, shutdown and crash of the process.                               *)

\* The memory of a process that has just stopped, or not started.
Forget ==
    /\ build' = {}
    /\ snapshot' = NoneServed
    /\ state' = NoRows
    /\ stale' = NoRows
    /\ revision' = 0
    /\ applied' = 0
    /\ reported' = 0
    /\ NewCycle
    /\ added' = {} /\ removed' = {} /\ staged' = [k \in Key |-> Untouched]
    /\ batched' = 0 /\ stamp' = 0 /\ dirty' = FALSE
    /\ pending' = {}
    /\ committed' = -1
    /\ upTo' = [p \in Prefix |-> 0]
    /\ lost' = FALSE /\ tied' = FALSE

\* The highest revision of a row of entries; 0 if there is none.
RowRevisions(entries) == {entries[k].rev : k \in {j \in Key : entries[j] # NoRow}}

IsHighestRow(entries, r) ==
    \/ RowRevisions(entries) = {} /\ r = 0
    \/ r \in RowRevisions(entries) /\ \A q \in RowRevisions(entries) : r >= q

\* restore_from_cache: the pins are seeded, then the entries are applied as a
\* resync of no known revision (which spawns a cache write at the highest row)
\* and only then is the cached revision put back.
RestoreFromCache(loadable) ==
    LET pins == ResyncPins(disk.entries, disk.stale, NoneServed, NoRows, loadable)
        snap == ResyncSnapshot(disk.entries, pins, loadable)
    IN  /\ stale' = pins
        /\ snapshot' = snap
        /\ state' = disk.entries
        /\ revision' = disk.rev
        /\ reported' = disk.rev
        /\ upTo' = disk.upTo
        /\ \E highest \in RowRevisions(disk.entries) \union {0} :
             /\ IsHighestRow(disk.entries, highest)
             /\ applied' = highest
             /\ Flush(disk.entries, pins, highest, snap, disk.upTo)

Boot ==
    /\ phase = "off"
    /\ build' \in Builds
    /\ IF CacheEnabled /\ disk # NoFile
       THEN RestoreFromCache(build')
       ELSE UNCHANGED <<snapshot, state, stale, revision, statusVars, pending,
                        upTo, tied>>
    /\ phase' = "reading"
    /\ NewCycle
    /\ UNCHANGED <<etcdVars, batchVars, committed, disk, lost, faults>>

\* A batch being collected when the shutdown comes is still applied, so the
\* loop is only ever left between two applies.
Cancel ==
    /\ phase \in {"reading", "opening", "watching"}
    /\ faults < MaxFaults
    /\ faults' = faults + 1
    /\ phase' = "draining"
    /\ UNCHANGED <<etcdVars, servingVars, statusVars, cycleVars, batchVars,
                   cacheVars, upTo>>

\* drain_pending_cache_writes: every write ended, or the bound expired.
Drained ==
    /\ phase = "draining"
    /\ pending = {} \/ faults < MaxFaults
    /\ faults' = IF pending = {} THEN faults ELSE faults + 1
    /\ phase' = "off"
    /\ Forget
    /\ UNCHANGED <<etcdVars, disk>>

Crash ==
    /\ phase # "off"
    /\ faults < MaxFaults
    /\ faults' = faults + 1
    /\ phase' = "off"
    /\ Forget
    /\ UNCHANGED <<etcdVars, disk>>

-----------------------------------------------------------------------------
Init ==
    /\ writes = <<>>
    /\ phase = "off"
    /\ build = {}
    /\ snapshot = NoneServed
    /\ state = NoRows
    /\ stale = NoRows
    /\ revision = 0 /\ applied = 0 /\ reported = 0
    /\ readRev = [p \in Prefix |-> Unread]
    /\ loaded = NoRows
    /\ next = [p \in Prefix |-> NoStream]
    /\ added = {} /\ removed = {} /\ staged = [k \in Key |-> Untouched]
    /\ batched = 0 /\ stamp = 0 /\ dirty = FALSE
    /\ pending = {} /\ committed = -1 /\ disk = NoFile
    /\ upTo = [p \in Prefix |-> 0]
    /\ lost = FALSE /\ tied = FALSE
    /\ faults = 0

\* What the supervisor task does of its own accord.
SupervisorStep ==
    \/ \E p \in Prefix : ReadPrefix(p)
    \/ ApplyLoad
    \/ ReportLoad
    \/ OpenWatches
    \/ \E p \in Prefix : StageEvent(p)
    \/ Publish
    \/ ReportBatch

Next ==
    \/ \E k \in Key, v \in Val \union {Absent} : Write(k, v)
    \/ SupervisorStep
    \/ \E p \in Prefix : ReadRefused(p)
    \/ EndCycle
    \/ \E w \in pending : CommitWrite(w)
    \/ \E w \in pending : WriteFails(w)
    \/ Boot
    \/ Cancel
    \/ Drained
    \/ Crash

Spec == Init /\ [][Next]_vars

-----------------------------------------------------------------------------
(* Correctness.                                                            *)

TypeOK ==
    /\ writes \in Seq(Change)
    /\ phase \in Phase
    /\ build \in SUBSET Val
    /\ snapshot \in [Key -> Val \union {Absent}]
    /\ state \in [Key -> Row \union {NoRow}]
    /\ stale \in [Key -> Row \union {NoRow}]
    /\ revision \in Nat /\ applied \in Nat /\ reported \in Nat
    /\ readRev \in [Prefix -> Nat \union {Unread, Refused}]
    /\ loaded \in [Key -> Row \union {NoRow}]
    /\ next \in [Prefix -> Nat]
    /\ added \in SUBSET Key /\ removed \in SUBSET Key
    /\ staged \in [Key -> Val \union {Absent, Untouched}]
    /\ batched \in 0 .. MaxBatch
    /\ stamp \in Nat
    /\ dirty \in BOOLEAN
    /\ pending \in SUBSET CacheFile
    /\ committed \in Nat \union {-1}
    /\ disk \in CacheFile \union {NoFile}
    /\ upTo \in [Prefix -> Nat]
    /\ lost \in BOOLEAN /\ tied \in BOOLEAN
    /\ faults \in 0 .. MaxFaults

\* What is served for each key is explained by two maps: a row that loads is
\* served as observed, a pin that loads is served in place of a rejected row,
\* and nothing else is served.
Explained(entries, pins, served, loadable) ==
    \A k \in Key :
        IF Loads(entries[k], loadable)
        THEN served[k] = entries[k].val /\ pins[k] = NoRow
        ELSE IF pins[k] # NoRow
             THEN /\ entries[k] # NoRow
                  /\ Loads(pins[k], loadable)
                  /\ served[k] = pins[k].val
             ELSE served[k] = Absent

\* What the gateway serves, or is about to publish, is always explained by the
\* observed rows and the pins, from which the next resync or restart will
\* rebuild it.  capture_last_good relies on it to find the serving bytes.
ServedIsExplained == Explained(state, stale, Effective, build)

\* Staging answers "is this row served" from its own notes as it would from
\* the snapshot the batch is going to publish.
ViewIsEffective ==
    \A k \in Key : Present(k) <=> Effective[k] # Absent

\* Every watch has been applied up to the event it delivers next: the
\* observed row of a key is exactly what etcd held just before that revision,
\* so no write fell between a prefix's read and its watch.
WatchesLeaveNoGap ==
    \A k \in Key : \A p \in Under[k] :
        phase \in {"watching", "staging", "published"} /\ next[p] # NoStream
            => state[k] = RowAt(k, next[p] - 1)

\* No write up to revision r is missing from rows: each key is as etcd had
\* it at that revision or at a later one.
NothingMissing(rows, r) ==
    \A k \in Key : \E now \in r .. Len(writes) : rows[k] = RowAt(k, now)

\* What is said of watch events in raise_revision_floor: "delivered in revision
\* order", so that the highest revision seen "is the point the configuration
\* reflects", and nothing up to a revision reported is missing.
RevisionsAreHonest ==
    phase \in {"reading", "opening", "watching", "draining"} =>
        NothingMissing(state, applied) /\ NothingMissing(state, reported)

\* The cache writes in flight and the file.
Files == pending \union ({disk} \ {NoFile})

\* No write under p up to revision r is missing from rows.
NothingMissingUnder(p, rows, r) ==
    \E now \in r .. Len(writes) : \A k \in KeysUnder(p) : rows[k] = RowAt(k, now)

\* Each revision sent to the control plane or published on /status/config, and
\* each that a cache file claims, is one up to which some prefix has been
\* applied, or saved, as a whole, through refusals, restarts and restored
\* files: never a revision that no stream has reached.  It need not be every
\* prefix: the streams are not ordered with one another.
ClaimsAreOfAPrefix ==
    /\ phase # "loaded" =>
         \A r \in {applied, reported} \ {0} :
            \E p \in Prefix : NothingMissingUnder(p, state, r)
    /\ \A f \in Files :
         f.rev # 0 => \E p \in Prefix : NothingMissingUnder(p, f.entries, f.rev)

\* The revision a completed read reports is honest whatever was written while
\* the prefixes were read in turn, for every key that was read at all.
ReadRevisionIsHonest ==
    phase = "opening" =>
        \A k \in Key :
            (\E p \in Under[k] : readRev[p] # Refused) =>
                \E now \in reported .. Len(writes) : state[k] = RowAt(k, now)

\* What a cache write holds explains what the gateway was serving when it was
\* spawned: a value served was observed or pinned, so that the restart that
\* seeds itself from the file can serve no less.
FilesAreExplained ==
    \A f \in Files, k \in Key :
        IF f.stale[k] # NoRow
        THEN f.entries[k] # NoRow /\ f.served[k] = f.stale[k].val
        ELSE f.served[k] # Absent =>
                 f.entries[k] # NoRow /\ f.served[k] = f.entries[k].val

\* The file goes back, for some prefix, to before what it held.
RollsBack == disk # NoFile /\ \E p \in Prefix : disk'.upTo[p] < disk.upTo[p]

\* A write of an earlier apply never replaces that of a later one, although the
\* writes are detached tasks that take the lock in any order and a process that
\* starts begins by writing the file it has just read, unless the two were
\* spawned at one revision, which store_encoded cannot tell apart.
CacheNeverRollsBack ==
    [][RollsBack => disk'.rev = disk.rev]_disk

\* What is said of the write lock of the cache: writes "also commit in order",
\* and a late older task never replaces a newer one.
WritesCommitInOrder ==
    [][~RollsBack]_disk

\* Once the shutdown drain has seen every write end, a restart starts from the
\* configuration the gateway was serving, unless a write failed or the last one
\* raced another of its own revision.
DrainedCacheIsCurrent ==
    phase = "draining" /\ pending = {} /\ committed >= 0 /\ ~lost /\ ~tied =>
        /\ disk.entries = state
        /\ disk.stale = stale
        /\ disk.served = snapshot

\* A refusal is not a deletion, nor an answer: a resync leaves a row as it was
\* observed if every prefix of its key was refused, and otherwise takes what
\* one of the accepted reads returned, so that it deletes no row but one that a
\* read found gone, and brings no such row back.
RefusalIsNotDeletion ==
    [][phase = "reading" /\ phase' = "loaded" =>
         \A k \in Key :
            LET read == {p \in Under[k] : readRev[p] # Refused} IN
            IF read = {}
            THEN state'[k] = state[k]
            ELSE \E p \in read : state'[k] = RowAt(k, readRev[p])]_vars

\* The observed row of a key never goes back to an earlier write of it.
ObservedNeverRegresses ==
    [][\A k \in Key :
         phase' # "off" /\ state[k] # NoRow /\ state'[k] # NoRow
             => state'[k].rev >= state[k].rev]_vars

\* The rows a resync applies are those one of the reads of the key returned,
\* unless every prefix the key lies under was refused: where prefixes nest, a
\* carried-over row never stands in for one a read found gone.
LoadMatchesReads ==
    \A k \in Key :
        LET read == {p \in Under[k] : readRev[p] # Refused} IN
        phase = "loaded" /\ read # {} =>
            \E p \in read : state[k] = RowAt(k, readRev[p])

\* While a watch is up, a pin stands for a key across no deletion the watch
\* has delivered: only a deletion that a range read jumped over may lie between
\* the pinned write and the rejected write that it stands in for.
PinDiesWithWatchedKey ==
    \A k \in Key : \A p \in Under[k] :
        /\ phase \in {"watching", "staging", "published"}
        /\ next[p] # NoStream
        /\ stale[k] # NoRow
        => /\ state[k] # NoRow
           /\ \A i \in stale[k].rev .. state[k].rev :
                 writes[i].key = k /\ writes[i].val = Absent => i <= readRev[p]

\* The supervisor keeps the promise of LastKnownGood, one watch event at a
\* time: coalescing events into one publish decides what the same events
\* would have decided alone, resyncs and restarts keep last good values, and
\* what a restart serves is what some earlier apply served.
ValuesOf(rows) == [k \in Key |-> IF rows[k] = NoRow THEN Absent ELSE rows[k].val]

LKG == INSTANCE LastKnownGood WITH
    observed <- ValuesOf(state),
    served <- Effective,
    saved <- {[observed |-> ValuesOf(f.entries), served |-> f.served] : f \in Files}

KeepsLastKnownGood == LKG!Spec

-----------------------------------------------------------------------------
(* Liveness.  The task is scheduled, detached writes run, and a stopped     *)
(* process is started again; etcd need not be written to and need not fail. *)

FairSpec ==
    /\ Spec
    /\ WF_vars(SupervisorStep)
    /\ WF_vars(\E w \in pending : CommitWrite(w))
    /\ WF_vars(Boot)
    /\ WF_vars(Drained)

\* Key k is observed as etcd holds it and served accordingly: the document if
\* it loads, else the value pinned for it, and nothing if there is none or if
\* the key is gone.
UpToDate(k) ==
    LET row == RowAt(k, Len(writes)) IN
    /\ state[k] = row
    /\ row = NoRow => stale[k] = NoRow
    /\ snapshot[k] = IF Loads(row, build) THEN row.val
                     ELSE IF stale[k] # NoRow THEN stale[k].val
                     ELSE Absent

\* The last event that the watch of p has delivered since the read is covered
\* by the revision published.
Reported(p) == next[p] - 1 > readRev[p] => reported >= next[p] - 1

\* Whatever failed or restarted before, the gateway ends up serving every key
\* of every prefix it has not been refused, and publishing a revision that
\* covers every event its watches have delivered.
Converges ==
    <>[](\A k \in Key : \A p \in Under[k] :
           next[p] # NoStream => UpToDate(k) /\ Reported(p))

\* The cache file ends up holding what the gateway serves, unless a write failed
\* or the last one raced another of its own revision.
CacheConverges ==
    <>[](lost \/ tied \/ (disk # NoFile /\ disk.entries = state /\ disk.stale = stale))
=============================================================================
