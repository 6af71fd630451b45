----------------------- MODULE ConfigSupervisor_proofs -----------------------
(***************************************************************************)
(* Proofs about ConfigSupervisor for every set of keys, prefixes and       *)
(* documents, every pair of builds and every bound.                        *)
(***************************************************************************)
EXTENDS ConfigSupervisor, FiniteSetTheorems, TLAPS

\* A put or absent row is typed.
LEMMA RowAtType ==
    ASSUME writes \in Seq(Change),
           NEW k \in Key, NEW r \in 0 .. Len(writes)
    PROVE  RowAt(k, r) \in Row \union {NoRow}
<1>1. CASE \E i \in 1 .. r : IsLastPut(i, k, r)
  <2> DEFINE i == CHOOSE i \in 1 .. r : IsLastPut(i, k, r)
  <2>1. i \in 1 .. r /\ IsLastPut(i, k, r)
    BY <1>1
  <2>. HIDE DEF i
  <2>2. i \in 1 .. Len(writes) /\ i \in Nat \ {0}
    BY <2>1
  <2>3. writes[i] \in Change
    BY <2>2
  <2>4. writes[i].val # Absent
    BY <2>1 DEF IsLastPut
  <2>5. RowAt(k, r) = [val |-> writes[i].val, rev |-> i]
    BY <1>1 DEF RowAt, i
  <2> QED BY <2>2, <2>3, <2>4, <2>5 DEF Row, Change
<1>2. CASE ~ \E i \in 1 .. r : IsLastPut(i, k, r)
  BY <1>2 DEF RowAt
<1> QED BY <1>1, <1>2

\* A resync pins only rows that load.
LEMMA ResyncPinsType ==
    ASSUME NEW entries \in [Key -> Row \union {NoRow}],
           NEW pins \in [Key -> Row \union {NoRow}],
           NEW snap, NEW observed \in [Key -> Row \union {NoRow}],
           NEW loadable
    PROVE  ResyncPins(entries, pins, snap, observed, loadable) \in [Key -> Row \union {NoRow}]
BY DEF ResyncPins

LEMMA ResyncSnapshotType ==
    ASSUME NEW entries \in [Key -> Row \union {NoRow}],
           NEW pins \in [Key -> Row \union {NoRow}],
           NEW loadable
    PROVE  ResyncSnapshot(entries, pins, loadable) \in [Key -> Val \union {Absent}]
BY DEF ResyncSnapshot, Loads, Row

-----------------------------------------------------------------------------
(* Type correctness.                                                       *)

USE DEF etcdVars, servingVars, statusVars, cycleVars, batchVars, cacheVars,
        Unpin, CaptureLastGood, BatchHasRoom, WatchFrom, Spawned

LEMMA InitType == Init => TypeOK
<1>. SUFFICES ASSUME Init PROVE TypeOK
  OBVIOUS
<1>1. writes \in Seq(Change) /\ pending \in SUBSET CacheFile
  BY DEF Init
<1>2. /\ snapshot \in [Key -> Val \union {Absent}]
      /\ state \in [Key -> Row \union {NoRow}]
      /\ stale \in [Key -> Row \union {NoRow}]
      /\ loaded \in [Key -> Row \union {NoRow}]
      /\ staged \in [Key -> Val \union {Absent, Untouched}]
  BY DEF Init, NoneServed, NoRows, Untouched
<1>3. /\ readRev \in [Prefix -> Nat \union {Unread, Refused}]
      /\ next \in [Prefix -> Nat]
  BY DEF Init, Unread, Refused, NoStream
<1>4. batched \in 0 .. MaxBatch /\ faults \in 0 .. MaxFaults
  BY SupervisorAssumption DEF Init, SupervisorAssumption
<1> QED BY <1>1, <1>2, <1>3, <1>4 DEF Init, TypeOK, Phase

LEMMA WriteType ==
    ASSUME TypeOK, NEW k \in Key, NEW v \in Val \union {Absent}, Write(k, v)
    PROVE  TypeOK'
BY DEF TypeOK, Write, Change

\* What a cache write holds is typed.
LEMMA FlushType ==
    ASSUME pending \in SUBSET CacheFile,
           NEW entries \in [Key -> Row \union {NoRow}],
           NEW pins \in [Key -> Row \union {NoRow}],
           NEW rev \in Nat,
           NEW snap \in [Key -> Val \union {Absent}],
           NEW seen \in [Prefix -> Nat],
           Flush(entries, pins, rev, snap, seen)
    PROVE  pending' \in SUBSET CacheFile /\ (tied \in BOOLEAN => tied' \in BOOLEAN)
<1>1. pending' \in SUBSET CacheFile
  <2>1. Spawned(entries, pins, rev, snap, seen) \in CacheFile
    BY DEF CacheFile
  <2> QED BY <2>1 DEF Flush
<1>2. CASE CacheEnabled
  <2>1. tied' = (\E w \in pending : w.rev = rev)
    BY <1>2 DEF Flush
  <2> QED BY <1>1, <2>1
<1>3. CASE ~CacheEnabled
  BY <1>1, <1>3 DEF Flush
<1> QED BY <1>2, <1>3

LEMMA ReadPrefixType ==
    ASSUME TypeOK, NEW p \in Prefix, ReadPrefix(p)
    PROVE  TypeOK'
<1>1. \A k \in Key : RowAt(k, Len(writes)) \in Row \union {NoRow}
  BY RowAtType DEF TypeOK
<1>2. loaded' \in [Key -> Row \union {NoRow}]
  BY <1>1 DEF TypeOK, ReadPrefix, LaterRow
<1>3. readRev' \in [Prefix -> Nat \union {Unread, Refused}]
  BY DEF TypeOK, ReadPrefix
<1> QED BY <1>2, <1>3 DEF TypeOK, ReadPrefix

LEMMA ReadRefusedType ==
    ASSUME TypeOK, NEW p \in Prefix, ReadRefused(p)
    PROVE  TypeOK'
BY SupervisorAssumption DEF SupervisorAssumption, TypeOK, ReadRefused

LEMMA UnionOfReadsType ==
    ASSUME TypeOK
    PROVE  UnionOfReads \in [Key -> Row \union {NoRow}]
BY DEF TypeOK, UnionOfReads

LEMMA ApplyLoadType ==
    ASSUME TypeOK, ApplyLoad
    PROVE  TypeOK'
<1>1. UnionOfReads \in [Key -> Row \union {NoRow}]
  BY UnionOfReadsType
<1>2. stale' \in [Key -> Row \union {NoRow}]
  BY <1>1, ResyncPinsType DEF ApplyLoad, TypeOK
<1>3. snapshot' \in [Key -> Val \union {Absent}]
  BY <1>1, <1>2, ResyncSnapshotType DEF ApplyLoad
<1>4. revision' \in Nat
  BY DEF ApplyLoad, TypeOK, ReadRevisions, Unread
<1>5. upTo' \in [Prefix -> Nat]
  BY DEF ApplyLoad, TypeOK
<1> QED BY <1>1, <1>2, <1>3, <1>4, <1>5 DEF TypeOK, ApplyLoad, Phase

LEMMA ReportLoadType ==
    ASSUME TypeOK, ReportLoad
    PROVE  TypeOK'
<1>1. pending' \in SUBSET CacheFile /\ tied' \in BOOLEAN
  BY FlushType DEF TypeOK, ReportLoad
<1> QED BY <1>1 DEF TypeOK, ReportLoad, Phase

LEMMA OpenWatchesType ==
    ASSUME TypeOK, OpenWatches
    PROVE  TypeOK'
<1>1. PICK refused \in SUBSET {p \in MayRefuse \intersect Global : readRev[p] # Refused} :
         /\ faults + Cardinality(refused) <= MaxFaults
         /\ faults' = faults + Cardinality(refused)
         /\ next' = [p \in Prefix |->
                       IF p \in refused \/ readRev[p] = Refused
                       THEN NoStream
                       ELSE readRev[p] + 1]
  BY DEF OpenWatches
<1>2. Cardinality(refused) \in Nat
  <2>1. refused \subseteq Prefix /\ IsFiniteSet(Prefix)
    BY SupervisorAssumption DEF SupervisorAssumption
  <2>2. IsFiniteSet(refused)
    BY <2>1, FS_Subset
  <2> QED BY <2>2, FS_CardinalityType
<1>3. faults' \in 0 .. MaxFaults
  BY <1>1, <1>2 DEF TypeOK
<1>4. next' \in [Prefix -> Nat]
  <2>1. readRev \in [Prefix -> Nat \union {Unread, Refused}]
    BY DEF TypeOK
  <2>2. \A p \in Prefix : readRev[p] # Refused => readRev[p] + 1 \in Nat
    BY <2>1 DEF Refused, Unread
  <2> QED BY <1>1, <2>2 DEF NoStream
<1> QED BY <1>3, <1>4 DEF TypeOK, OpenWatches, Phase

LEMMA EndCycleType ==
    ASSUME TypeOK, EndCycle
    PROVE  TypeOK'
<1>1. readRev' \in [Prefix -> Nat \union {Unread, Refused}]
  BY DEF EndCycle, NewCycle
<1>2. loaded' \in [Key -> Row \union {NoRow}]
  BY DEF EndCycle, NewCycle, NoRows
<1>3. next' \in [Prefix -> Nat]
  BY DEF EndCycle, NewCycle, NoStream
<1>4. faults' \in 0 .. MaxFaults
  BY SupervisorAssumption DEF SupervisorAssumption, EndCycle, TypeOK
<1> QED BY <1>1, <1>2, <1>3, <1>4 DEF TypeOK, EndCycle, Phase

\* The watch of p delivers write i: a row of its key, or a deletion.
LEMMA StageAcceptedType ==
    ASSUME TypeOK, NEW k \in Key, NEW row \in Row, StageAccepted(k, row)
    PROVE  /\ added' \in SUBSET Key /\ removed' \in SUBSET Key
           /\ staged' \in [Key -> Val \union {Absent, Untouched}]
           /\ stale' \in [Key -> Row \union {NoRow}]
           /\ state' \in [Key -> Row \union {NoRow}]
           /\ revision' \in Nat /\ stamp' \in Nat /\ dirty' \in BOOLEAN
BY DEF TypeOK, StageAccepted, Row, MaxOf

LEMMA StageRejectedType ==
    ASSUME TypeOK, NEW k \in Key, NEW row \in Row, StageRejected(k, row)
    PROVE  /\ added' \in SUBSET Key /\ removed' \in SUBSET Key
           /\ staged' \in [Key -> Val \union {Absent, Untouched}]
           /\ stale' \in [Key -> Row \union {NoRow}]
           /\ state' \in [Key -> Row \union {NoRow}]
           /\ revision' \in Nat /\ stamp' \in Nat /\ dirty' \in BOOLEAN
<1>1. row.rev \in Nat
  BY DEF Row
<1> QED BY <1>1 DEF TypeOK, StageRejected, MaxOf

LEMMA StageDeleteType ==
    ASSUME TypeOK, NEW k \in Key, NEW rev \in Nat, StageDelete(k, rev)
    PROVE  /\ added' \in SUBSET Key /\ removed' \in SUBSET Key
           /\ staged' \in [Key -> Val \union {Absent, Untouched}]
           /\ stale' \in [Key -> Row \union {NoRow}]
           /\ state' \in [Key -> Row \union {NoRow}]
           /\ revision' \in Nat /\ stamp' \in Nat /\ dirty' \in BOOLEAN
<1>1. /\ added' \in SUBSET Key /\ removed' \in SUBSET Key
      /\ staged' \in [Key -> Val \union {Absent, Untouched}]
  BY SMTT(30) DEF TypeOK, StageDelete
<1>2. /\ stale' \in [Key -> Row \union {NoRow}]
      /\ state' \in [Key -> Row \union {NoRow}]
      /\ revision' \in Nat /\ stamp' \in Nat
  BY DEF TypeOK, StageDelete, MaxOf
<1>3. dirty' \in BOOLEAN
  BY DEF TypeOK, StageDelete
<1> QED BY <1>1, <1>2, <1>3

\* An event stages a deletion, or a row that is accepted or rejected.
LEMMA StageEventCases ==
    ASSUME TypeOK, NEW p \in Prefix, StageEvent(p)
    PROVE  \E i \in 1 .. Len(writes), k \in Key :
              /\ next' = [next EXCEPT ![p] = i + 1]
         /\ upTo' = [upTo EXCEPT ![p] = i]
              /\ upTo' = [upTo EXCEPT ![p] = i]
              /\ \/ StageDelete(k, i)
                 \/ \E row \in Row : StageAccepted(k, row) \/ StageRejected(k, row)
<1>1. PICK i \in Undelivered(p) :
         /\ next' = [next EXCEPT ![p] = i + 1]
         /\ upTo' = [upTo EXCEPT ![p] = i]
         /\ LET k == writes[i].key
                row == [val |-> writes[i].val, rev |-> i]
            IN  IF row.val = Absent
                THEN StageDelete(k, i)
                ELSE StageAccepted(k, row) \/ StageRejected(k, row)
  BY DEF StageEvent
<1>2. i \in 1 .. Len(writes) /\ i \in Nat \ {0}
  BY DEF TypeOK, Undelivered, StageEvent, NoStream
<1>3. writes[i] \in Change
  BY <1>2 DEF TypeOK
<1> DEFINE k == writes[i].key
           row == [val |-> writes[i].val, rev |-> i]
<1>4. k \in Key
  BY <1>3 DEF Change
<1>5. writes[i].val # Absent => row \in Row
  BY <1>2, <1>3 DEF Change, Row
<1>6. IF writes[i].val = Absent THEN StageDelete(k, i)
      ELSE StageAccepted(k, row) \/ StageRejected(k, row)
  BY <1>1
<1>. HIDE DEF k, row
<1> QED BY <1>1, <1>2, <1>4, <1>5, <1>6

LEMMA StageEventType ==
    ASSUME TypeOK, NEW p \in Prefix, StageEvent(p)
    PROVE  TypeOK'
<1>1. PICK i \in 1 .. Len(writes), k \in Key :
         /\ next' = [next EXCEPT ![p] = i + 1]
         /\ upTo' = [upTo EXCEPT ![p] = i]
         /\ \/ StageDelete(k, i)
            \/ \E row \in Row : StageAccepted(k, row) \/ StageRejected(k, row)
  BY StageEventCases
<1>2. /\ added' \in SUBSET Key /\ removed' \in SUBSET Key
      /\ staged' \in [Key -> Val \union {Absent, Untouched}]
      /\ stale' \in [Key -> Row \union {NoRow}]
      /\ state' \in [Key -> Row \union {NoRow}]
      /\ revision' \in Nat /\ stamp' \in Nat /\ dirty' \in BOOLEAN
  BY <1>1, StageAcceptedType, StageRejectedType, StageDeleteType
<1>3. next' \in [Prefix -> Nat] /\ upTo' \in [Prefix -> Nat]
  BY <1>1 DEF TypeOK
<1>4. batched' \in 0 .. MaxBatch
  BY SMTT(30), SupervisorAssumption DEF SupervisorAssumption, TypeOK, StageEvent
<1> QED BY <1>2, <1>3, <1>4 DEF TypeOK, StageEvent, Phase

LEMMA EffectiveType ==
    ASSUME TypeOK
    PROVE  Effective \in [Key -> Val \union {Absent}]
BY SupervisorAssumption DEF SupervisorAssumption, TypeOK, Effective, Untouched

LEMMA PublishType ==
    ASSUME TypeOK, Publish
    PROVE  TypeOK'
<1>1. snapshot' \in [Key -> Val \union {Absent}]
  BY EffectiveType DEF Publish
<1>2. staged' \in [Key -> Val \union {Absent, Untouched}]
  BY DEF Publish
<1> QED BY <1>1, <1>2 DEF TypeOK, Publish, Phase

LEMMA ReportBatchType ==
    ASSUME TypeOK, ReportBatch
    PROVE  TypeOK'
<1>1. pending' \in SUBSET CacheFile /\ tied' \in BOOLEAN
  BY FlushType DEF TypeOK, ReportBatch
<1>2. batched' \in 0 .. MaxBatch
  BY SupervisorAssumption DEF SupervisorAssumption, ReportBatch
<1> QED BY <1>1, <1>2 DEF TypeOK, ReportBatch, MaxOf, Phase

LEMMA CommitWriteType ==
    ASSUME TypeOK, NEW w \in pending, CommitWrite(w)
    PROVE  TypeOK'
<1>1. w \in CacheFile /\ w.rev \in Nat
  BY DEF TypeOK, CacheFile
<1> QED BY <1>1 DEF TypeOK, CommitWrite

LEMMA WriteFailsType ==
    ASSUME TypeOK, NEW w \in pending, WriteFails(w)
    PROVE  TypeOK'
BY SupervisorAssumption DEF SupervisorAssumption, TypeOK, WriteFails

\* The cache file holds typed rows.
LEMMA DiskType ==
    ASSUME TypeOK, disk # NoFile
    PROVE  /\ disk.entries \in [Key -> Row \union {NoRow}]
           /\ disk.stale \in [Key -> Row \union {NoRow}]
           /\ disk.rev \in Nat
           /\ disk.served \in [Key -> Val \union {Absent}]
           /\ disk.upTo \in [Prefix -> Nat]
BY DEF TypeOK, CacheFile

LEMMA RestoreType ==
    ASSUME TypeOK, disk # NoFile, NEW loadable, RestoreFromCache(loadable)
    PROVE  /\ stale' \in [Key -> Row \union {NoRow}]
           /\ snapshot' \in [Key -> Val \union {Absent}]
           /\ state' \in [Key -> Row \union {NoRow}]
           /\ revision' \in Nat /\ reported' \in Nat /\ applied' \in Nat
           /\ pending' \in SUBSET CacheFile /\ tied' \in BOOLEAN
           /\ upTo' \in [Prefix -> Nat]
<1> DEFINE pins == ResyncPins(disk.entries, disk.stale, NoneServed, NoRows, loadable)
           snap == ResyncSnapshot(disk.entries, pins, loadable)
<1>1. NoRows \in [Key -> Row \union {NoRow}]
  BY DEF NoRows
<1>2. pins \in [Key -> Row \union {NoRow}]
  BY <1>1, DiskType, ResyncPinsType
<1>3. snap \in [Key -> Val \union {Absent}]
  BY <1>2, DiskType, ResyncSnapshotType
<1>4. /\ stale' = pins /\ snapshot' = snap /\ state' = disk.entries
      /\ revision' = disk.rev /\ reported' = disk.rev /\ upTo' = disk.upTo
      /\ \E highest \in RowRevisions(disk.entries) \union {0} :
            applied' = highest /\ Flush(disk.entries, pins, highest, snap, disk.upTo)
  BY DEF RestoreFromCache
<1>. HIDE DEF pins, snap
<1>5. RowRevisions(disk.entries) \union {0} \subseteq Nat
  BY DiskType DEF RowRevisions, Row
<1>6. pending' \in SUBSET CacheFile /\ tied' \in BOOLEAN
  BY <1>2, <1>3, <1>4, <1>5, DiskType, FlushType DEF TypeOK
<1> QED BY <1>2, <1>3, <1>4, <1>5, <1>6, DiskType

LEMMA BootType ==
    ASSUME TypeOK, Boot
    PROVE  TypeOK'
<1>1. build' \in SUBSET Val
  BY SupervisorAssumption DEF SupervisorAssumption, Boot
<1>2. /\ readRev' \in [Prefix -> Nat \union {Unread, Refused}]
      /\ loaded' \in [Key -> Row \union {NoRow}]
      /\ next' \in [Prefix -> Nat]
  BY DEF Boot, NewCycle, NoRows, NoStream
<1>3. /\ stale' \in [Key -> Row \union {NoRow}]
      /\ snapshot' \in [Key -> Val \union {Absent}]
      /\ state' \in [Key -> Row \union {NoRow}]
      /\ revision' \in Nat /\ reported' \in Nat /\ applied' \in Nat
      /\ pending' \in SUBSET CacheFile /\ tied' \in BOOLEAN
      /\ upTo' \in [Prefix -> Nat]
  <2>1. CASE CacheEnabled /\ disk # NoFile
    BY <2>1, RestoreType DEF Boot
  <2>2. CASE ~(CacheEnabled /\ disk # NoFile)
    BY <2>2 DEF Boot, TypeOK
  <2> QED BY <2>1, <2>2
<1> QED BY <1>1, <1>2, <1>3 DEF TypeOK, Boot, Phase

LEMMA CancelType ==
    ASSUME TypeOK, Cancel
    PROVE  TypeOK'
BY SupervisorAssumption DEF SupervisorAssumption, TypeOK, Cancel, Phase

LEMMA ForgetType ==
    ASSUME TypeOK, Forget, writes' = writes, disk' = disk,
           phase' = "off", faults' \in 0 .. MaxFaults
    PROVE  TypeOK'
<1>1. /\ snapshot' \in [Key -> Val \union {Absent}]
      /\ state' \in [Key -> Row \union {NoRow}]
      /\ stale' \in [Key -> Row \union {NoRow}]
      /\ loaded' \in [Key -> Row \union {NoRow}]
      /\ staged' \in [Key -> Val \union {Absent, Untouched}]
  BY DEF Forget, NewCycle, NoneServed, NoRows, Untouched
<1>2. /\ readRev' \in [Prefix -> Nat \union {Unread, Refused}]
      /\ next' \in [Prefix -> Nat]
  BY DEF Forget, NewCycle, NoStream
<1>3. batched' \in 0 .. MaxBatch
  BY SupervisorAssumption DEF SupervisorAssumption, Forget
<1> QED BY <1>1, <1>2, <1>3 DEF TypeOK, Forget, Phase

LEMMA DrainedType ==
    ASSUME TypeOK, Drained
    PROVE  TypeOK'
<1>1. faults' \in 0 .. MaxFaults
  BY SupervisorAssumption DEF SupervisorAssumption, TypeOK, Drained
<1> QED BY <1>1, ForgetType DEF Drained

LEMMA CrashType ==
    ASSUME TypeOK, Crash
    PROVE  TypeOK'
<1>1. faults' \in 0 .. MaxFaults
  BY SupervisorAssumption DEF SupervisorAssumption, TypeOK, Crash
<1> QED BY <1>1, ForgetType DEF Crash

LEMMA StepType == TypeOK /\ [Next]_vars => TypeOK'
<1>. SUFFICES ASSUME TypeOK, [Next]_vars PROVE TypeOK'
  OBVIOUS
<1>1. CASE UNCHANGED vars
  BY <1>1 DEF vars, TypeOK
<1>2. CASE \E k \in Key, v \in Val \union {Absent} : Write(k, v)
  BY <1>2, WriteType
<1>3. CASE SupervisorStep
  BY <1>3, ReadPrefixType, ApplyLoadType, ReportLoadType, OpenWatchesType,
     StageEventType, PublishType, ReportBatchType DEF SupervisorStep
<1>4. CASE \E p \in Prefix : ReadRefused(p)
  BY <1>4, ReadRefusedType
<1>5. CASE \E w \in pending : CommitWrite(w) \/ WriteFails(w)
  BY <1>5, CommitWriteType, WriteFailsType
<1>6. CASE EndCycle \/ Boot \/ Cancel \/ Drained \/ Crash
  BY <1>6, EndCycleType, BootType, CancelType, DrainedType, CrashType
<1> QED BY <1>1, <1>2, <1>3, <1>4, <1>5, <1>6 DEF Next

\* Every variable keeps its type, in every behaviour of the supervisor.
THEOREM TypeCorrect == Spec => []TypeOK
<1>1. Init => TypeOK
  BY InitType
<1>2. TypeOK /\ [Next]_vars => TypeOK'
  BY StepType
<1> QED BY <1>1, <1>2, PTL DEF Spec

-----------------------------------------------------------------------------
(* The inductive invariant.                                                *)

\* The staged values and the two sets of BatchView describe the same
\* mutations, and there are none outside a batch.
BatchIsStaged ==
    \A k \in Key :
        /\ k \in added <=> staged[k] \in Val
        /\ k \in removed <=> staged[k] = Absent
        /\ phase # "staging" => staged[k] = Untouched

\* A stopped process serves nothing and has no write in flight.
OffIsForgotten ==
    phase = "off" =>
        /\ build = {}
        /\ snapshot = NoneServed
        /\ state = NoRows
        /\ stale = NoRows
        /\ pending = {}

Inv == TypeOK /\ BatchIsStaged /\ OffIsForgotten /\ ServedIsExplained /\ FilesAreExplained

\* Outside a batch nothing is staged, and the snapshot is what it will be.
LEMMA QuietEffective ==
    ASSUME TypeOK, BatchIsStaged, phase # "staging"
    PROVE  Effective = snapshot
BY DEF TypeOK, BatchIsStaged, Effective

\* BatchView answers as the snapshot the batch is going to publish would.
LEMMA ViewLemma == TypeOK /\ BatchIsStaged => ViewIsEffective
<1>. SUFFICES ASSUME TypeOK, BatchIsStaged, NEW k \in Key
              PROVE  Present(k) <=> Effective[k] # Absent
  BY DEF ViewIsEffective
<1>1. /\ k \in added <=> staged[k] \in Val
      /\ k \in removed <=> staged[k] = Absent
      /\ staged[k] \in Val \union {Absent, Untouched}
      /\ Absent \notin Val /\ Untouched \notin Val \union {Absent}
  BY SupervisorAssumption DEF SupervisorAssumption, TypeOK, BatchIsStaged, Untouched
<1>2. Effective[k] = IF staged[k] = Untouched THEN snapshot[k] ELSE staged[k]
  BY DEF Effective
<1> QED BY <1>1, <1>2 DEF Present

\* Steps that touch neither the maps, nor the batch, nor the cache.
LEMMA IdleStep ==
    ASSUME Inv,
           UNCHANGED <<build, snapshot, state, stale, added, removed, staged, pending, disk>>,
           phase' = "off" => phase = "off",
           phase = "staging" => phase' = "staging"
    PROVE  BatchIsStaged' /\ OffIsForgotten' /\ ServedIsExplained' /\ FilesAreExplained'
<1>1. BatchIsStaged'
  BY DEF Inv, BatchIsStaged
<1>2. OffIsForgotten'
  BY DEF Inv, OffIsForgotten
<1>3. ServedIsExplained'
  BY DEF Inv, ServedIsExplained, Explained, Effective, Loads
<1>4. FilesAreExplained'
  BY DEF Inv, FilesAreExplained, Files
<1> QED BY <1>1, <1>2, <1>3, <1>4

\* What a resync publishes is explained by the entries and its own pins.
LEMMA ResyncExplained ==
    ASSUME NEW entries, NEW pins, NEW snap, NEW observed, NEW loadable
    PROVE  LET new == ResyncPins(entries, pins, snap, observed, loadable)
           IN  Explained(entries, new, ResyncSnapshot(entries, new, loadable), loadable)
<1> DEFINE new == ResyncPins(entries, pins, snap, observed, loadable)
           served == ResyncSnapshot(entries, new, loadable)
<1>1. ASSUME NEW k \in Key
      PROVE  /\ Loads(entries[k], loadable) => new[k] = NoRow
             /\ new[k] # NoRow => entries[k] # NoRow /\ Loads(new[k], loadable)
  <2> DEFINE kept == IF entries[k] = NoRow \/ Loads(entries[k], loadable) THEN NoRow
                     ELSE IF pins[k] # NoRow THEN pins[k]
                     ELSE IF snap[k] # Absent THEN observed[k]
                     ELSE NoRow
  <2>1. new[k] = IF Loads(kept, loadable) THEN kept ELSE NoRow
    BY DEF ResyncPins
  <2>2. CASE entries[k] = NoRow \/ Loads(entries[k], loadable)
    <3>1. kept = NoRow
      BY <2>2
    <3> QED BY <2>1, <2>2, <3>1 DEF Loads
  <2>3. CASE ~(entries[k] = NoRow \/ Loads(entries[k], loadable))
    <3>. HIDE DEF kept
    <3> QED BY <2>1, <2>3
  <2> QED BY <2>2, <2>3
<1>. HIDE DEF new
<1>2. ASSUME NEW k \in Key
      PROVE  served[k] = IF Loads(entries[k], loadable) THEN entries[k].val
                         ELSE IF new[k] # NoRow THEN new[k].val
                         ELSE Absent
  BY DEF ResyncSnapshot
<1>. HIDE DEF served
<1>3. Explained(entries, new, served, loadable)
  BY <1>1, <1>2 DEF Explained
<1> QED BY <1>3 DEF new, served

\* What is served and observed when a write is spawned is explained by it.
LEMMA FlushExplained ==
    ASSUME TypeOK, FilesAreExplained, disk' = disk,
           NEW entries \in [Key -> Row \union {NoRow}],
           NEW pins, NEW rev, NEW seen,
           NEW snap, NEW loadable,
           Explained(entries, pins, snap, loadable),
           Flush(entries, pins, rev, snap, seen)
    PROVE  FilesAreExplained'
<1>. SUFFICES ASSUME NEW f \in Files', NEW k \in Key
              PROVE  IF f.stale[k] # NoRow
                     THEN f.entries[k] # NoRow /\ f.served[k] = f.stale[k].val
                     ELSE f.served[k] # Absent =>
                            f.entries[k] # NoRow /\ f.served[k] = f.entries[k].val
  BY DEF FilesAreExplained
<1> DEFINE w == [entries |-> entries, stale |-> pins, rev |-> rev,
                 served |-> snap, upTo |-> seen]
<1>1. f \in Files \/ f = w
  BY DEF Flush, Files
<1>2. CASE f \in Files
  BY <1>2 DEF FilesAreExplained
<1>3. CASE f = w
  <2>1. f.entries = entries /\ f.stale = pins /\ f.served = snap
    BY <1>3
  <2>2. IF pins[k] # NoRow THEN entries[k] # NoRow /\ snap[k] = pins[k].val
        ELSE snap[k] # Absent => entries[k] # NoRow /\ snap[k] = entries[k].val
    BY DEF Explained, Loads
  <2> QED BY <2>1, <2>2
<1> QED BY <1>1, <1>2, <1>3

LEMMA ApplyLoadExplained ==
    ASSUME Inv, ApplyLoad
    PROVE  BatchIsStaged' /\ OffIsForgotten' /\ ServedIsExplained' /\ FilesAreExplained'
<1>1. BatchIsStaged'
  BY DEF Inv, ApplyLoad, BatchIsStaged
<1>2. OffIsForgotten'
  BY DEF ApplyLoad, OffIsForgotten
<1>3. ServedIsExplained'
  <2> DEFINE pins == ResyncPins(UnionOfReads, stale, snapshot, state, build)
             snap == ResyncSnapshot(UnionOfReads, pins, build)
  <2>1. stale' = pins /\ snapshot' = snap /\ state' = UnionOfReads /\ build' = build
    BY DEF ApplyLoad
  <2>2. Effective' = snapshot'
    BY DEF Inv, ApplyLoad, BatchIsStaged, Effective, TypeOK, ResyncSnapshot
  <2>3. Explained(UnionOfReads, pins, snap, build)
    BY ResyncExplained
  <2>. HIDE DEF pins, snap
  <2> QED BY <2>1, <2>2, <2>3 DEF ServedIsExplained, Explained, Loads
<1>4. FilesAreExplained'
  BY DEF Inv, ApplyLoad, FilesAreExplained, Files
<1> QED BY <1>1, <1>2, <1>3, <1>4

\* ReportLoad and ReportBatch: the maps stay, and their copies are written.
LEMMA ReportExplained ==
    ASSUME Inv, phase \notin {"staging", "off"}, phase' \notin {"staging", "off"},
           UNCHANGED <<build, snapshot, state, stale, added, removed, staged, disk>>,
           \/ UNCHANGED pending
           \/ Flush(state, stale, revision, snapshot, upTo)
    PROVE  BatchIsStaged' /\ OffIsForgotten' /\ ServedIsExplained' /\ FilesAreExplained'
<1>1. BatchIsStaged'
  BY DEF Inv, BatchIsStaged
<1>2. OffIsForgotten'
  BY DEF OffIsForgotten
<1>3. ServedIsExplained'
  BY DEF Inv, ServedIsExplained, Explained, Effective, Loads
<1>4. FilesAreExplained'
  <2>1. CASE UNCHANGED pending
    BY <2>1 DEF Inv, FilesAreExplained, Files
  <2>2. CASE Flush(state, stale, revision, snapshot, upTo)
    <3>1. Effective = snapshot
      BY QuietEffective DEF Inv
    <3>2. state \in [Key -> Row \union {NoRow}]
      BY DEF Inv, TypeOK
    <3>3. Explained(state, stale, snapshot, build)
      BY <3>1 DEF Inv, ServedIsExplained
    <3> QED BY <2>2, <3>2, <3>3, FlushExplained DEF Inv
  <2> QED BY <2>1, <2>2
<1> QED BY <1>1, <1>2, <1>3, <1>4

\* Outside what it stages for its key, an event changes nothing; for its key
\* it keeps the three maps in step.
LEMMA StageAcceptedExplained ==
    ASSUME Inv, NEW k \in Key, NEW row \in Row, StageAccepted(k, row),
           phase \in {"watching", "staging"}, phase' = "staging",
           UNCHANGED <<build, snapshot>>
    PROVE  BatchIsStaged' /\ ServedIsExplained'
<1>1. row.val \in Val /\ row.val # Absent /\ row.val # Untouched /\ row # NoRow
  BY SupervisorAssumption DEF SupervisorAssumption, Row, Untouched
<1>2. BatchIsStaged'
  BY <1>1 DEF Inv, TypeOK, BatchIsStaged, StageAccepted
<1>3. ServedIsExplained'
  <2>1. ASSUME NEW j \in Key, j # k
        PROVE  state'[j] = state[j] /\ stale'[j] = stale[j] /\ Effective'[j] = Effective[j]
    BY <2>1 DEF Inv, TypeOK, StageAccepted, Effective
  <2>2. state'[k] = row /\ stale'[k] = NoRow /\ Effective'[k] = row.val
    BY <1>1 DEF Inv, TypeOK, StageAccepted, Effective
  <2>3. Loads(state'[k], build)
    BY <1>1, <2>2 DEF Loads, StageAccepted
  <2> QED BY <2>1, <2>2, <2>3 DEF Inv, ServedIsExplained, Explained, Loads
<1> QED BY <1>2, <1>3

LEMMA StageRejectedExplained ==
    ASSUME Inv, NEW k \in Key, NEW row \in Row, StageRejected(k, row),
           phase \in {"watching", "staging"}, phase' = "staging",
           UNCHANGED <<build, snapshot>>
    PROVE  BatchIsStaged' /\ ServedIsExplained'
<1>1. row # NoRow /\ ~Loads(row, build)
  BY SupervisorAssumption DEF SupervisorAssumption, StageRejected, Loads
<1>2. BatchIsStaged'
  BY DEF Inv, TypeOK, BatchIsStaged, StageRejected
<1>3. Effective' = Effective
  BY DEF StageRejected, Effective
<1>4. Present(k) <=> Effective[k] # Absent
  BY ViewLemma DEF Inv, ViewIsEffective
<1>5. ServedIsExplained'
  <2>1. ASSUME NEW j \in Key, j # k
        PROVE  state'[j] = state[j] /\ stale'[j] = stale[j]
    BY <2>1 DEF Inv, TypeOK, StageRejected
  <2>2. state'[k] = row
    BY DEF Inv, TypeOK, StageRejected
  <2>3. stale'[k] = IF stale[k] = NoRow /\ Present(k) THEN state[k] ELSE stale[k]
    BY DEF Inv, TypeOK, StageRejected
  <2>4. IF Loads(state[k], build) THEN Effective[k] = state[k].val /\ stale[k] = NoRow
        ELSE IF stale[k] # NoRow
             THEN Loads(stale[k], build) /\ Effective[k] = stale[k].val
             ELSE Effective[k] = Absent
    BY DEF Inv, ServedIsExplained, Explained
  <2>5. Loads(state[k], build) => Present(k)
    <3>1. Loads(state[k], build) => state[k].val \in Val /\ Absent \notin Val
      BY SupervisorAssumption DEF SupervisorAssumption, Inv, TypeOK, Loads
    <3> QED BY <1>4, <2>4, <3>1
  <2>6. IF stale'[k] # NoRow
        THEN Loads(stale'[k], build) /\ Effective[k] = stale'[k].val
        ELSE Effective[k] = Absent
    BY <1>4, <2>3, <2>4, <2>5 DEF Loads
  <2>7. ASSUME NEW j \in Key
        PROVE  IF Loads(state'[j], build)
               THEN Effective[j] = state'[j].val /\ stale'[j] = NoRow
               ELSE IF stale'[j] # NoRow
                    THEN /\ state'[j] # NoRow
                         /\ Loads(stale'[j], build)
                         /\ Effective[j] = stale'[j].val
                    ELSE Effective[j] = Absent
    <3>1. CASE j = k
      BY <1>1, <2>2, <2>6, <3>1
    <3>2. CASE j # k
      BY <2>1, <3>2 DEF Inv, ServedIsExplained, Explained
    <3> QED BY <3>1, <3>2
  <2> QED BY <1>3, <2>7 DEF ServedIsExplained, Explained, Loads
<1> QED BY <1>2, <1>5

LEMMA StageDeleteExplained ==
    ASSUME Inv, NEW k \in Key, NEW rev, StageDelete(k, rev),
           phase \in {"watching", "staging"}, phase' = "staging",
           UNCHANGED <<build, snapshot>>
    PROVE  BatchIsStaged' /\ ServedIsExplained'
<1>1. Absent # Untouched /\ Absent \notin Val
  BY SupervisorAssumption DEF SupervisorAssumption, Untouched
<1>2. BatchIsStaged'
  BY <1>1 DEF Inv, TypeOK, BatchIsStaged, StageDelete
<1>3. Present(k) <=> Effective[k] # Absent
  BY ViewLemma DEF Inv, ViewIsEffective
<1>4. ASSUME NEW j \in Key, j # k
      PROVE  state'[j] = state[j] /\ stale'[j] = stale[j] /\ Effective'[j] = Effective[j]
  BY <1>4 DEF Inv, TypeOK, StageDelete, Effective
<1>5. state'[k] = NoRow /\ stale'[k] = NoRow
  BY DEF Inv, TypeOK, StageDelete
<1>6. Effective'[k] = Absent
  <2>1. CASE Present(k)
    BY <1>1, <2>1 DEF Inv, TypeOK, StageDelete, Effective
  <2>2. CASE ~Present(k)
    BY <1>3, <2>2 DEF StageDelete, Effective
  <2> QED BY <2>1, <2>2
<1>7. ServedIsExplained'
  BY <1>4, <1>5, <1>6 DEF Inv, ServedIsExplained, Explained, Loads
<1> QED BY <1>2, <1>7

LEMMA StageEventExplained ==
    ASSUME Inv, NEW p \in Prefix, StageEvent(p)
    PROVE  BatchIsStaged' /\ OffIsForgotten' /\ ServedIsExplained' /\ FilesAreExplained'
<1>1. PICK i \in 1 .. Len(writes), k \in Key :
         \/ StageDelete(k, i)
         \/ \E row \in Row : StageAccepted(k, row) \/ StageRejected(k, row)
  BY StageEventCases DEF Inv
<1>2. /\ phase \in {"watching", "staging"} /\ phase' = "staging"
      /\ UNCHANGED <<build, snapshot, pending, disk>>
  BY DEF StageEvent
<1>3. BatchIsStaged' /\ ServedIsExplained'
  BY <1>1, <1>2, StageAcceptedExplained, StageRejectedExplained, StageDeleteExplained
<1>4. OffIsForgotten'
  BY <1>2 DEF OffIsForgotten
<1>5. FilesAreExplained'
  BY <1>2 DEF Inv, FilesAreExplained, Files
<1> QED BY <1>3, <1>4, <1>5

LEMMA PublishExplained ==
    ASSUME Inv, Publish
    PROVE  BatchIsStaged' /\ OffIsForgotten' /\ ServedIsExplained' /\ FilesAreExplained'
<1>1. Effective' = Effective
  BY DEF Publish, Effective
<1>2. BatchIsStaged'
  BY SupervisorAssumption DEF SupervisorAssumption, Publish, BatchIsStaged, Untouched
<1>3. OffIsForgotten'
  BY DEF Publish, OffIsForgotten
<1>4. ServedIsExplained'
  BY <1>1 DEF Inv, Publish, ServedIsExplained, Explained, Loads
<1>5. FilesAreExplained'
  BY DEF Inv, Publish, FilesAreExplained, Files
<1> QED BY <1>2, <1>3, <1>4, <1>5

\* CommitWrite and WriteFails: no file is made that was not in flight.
LEMMA CacheStepExplained ==
    ASSUME Inv, NEW w \in pending, CommitWrite(w) \/ WriteFails(w)
    PROVE  BatchIsStaged' /\ OffIsForgotten' /\ ServedIsExplained' /\ FilesAreExplained'
<1>1. BatchIsStaged'
  BY DEF Inv, CommitWrite, WriteFails, BatchIsStaged
<1>2. OffIsForgotten'
  BY DEF Inv, CommitWrite, WriteFails, OffIsForgotten
<1>3. ServedIsExplained'
  BY DEF Inv, CommitWrite, WriteFails, ServedIsExplained, Explained, Effective, Loads
<1>4. Files' \subseteq Files
  BY DEF CommitWrite, WriteFails, Files
<1>5. FilesAreExplained'
  BY <1>4 DEF Inv, FilesAreExplained
<1> QED BY <1>1, <1>2, <1>3, <1>5

LEMMA BootExplained ==
    ASSUME Inv, Boot
    PROVE  BatchIsStaged' /\ OffIsForgotten' /\ ServedIsExplained' /\ FilesAreExplained'
<1>1. /\ phase = "off" /\ phase' = "reading"
      /\ UNCHANGED <<added, removed, staged, disk>>
  BY DEF Boot
<1>2. BatchIsStaged'
  BY <1>1 DEF Inv, BatchIsStaged
<1>3. OffIsForgotten'
  BY <1>1 DEF OffIsForgotten
<1>4. Effective' = snapshot'
  BY <1>1, BootType, QuietEffective, <1>2 DEF Inv, TypeOK, Effective, BatchIsStaged
<1>5. CASE CacheEnabled /\ disk # NoFile
  <2> DEFINE pins == ResyncPins(disk.entries, disk.stale, NoneServed, NoRows, build')
             snap == ResyncSnapshot(disk.entries, pins, build')
  <2>1. PICK highest :
          /\ stale' = pins /\ snapshot' = snap /\ state' = disk.entries
          /\ Flush(disk.entries, pins, highest, snap, disk.upTo)
    BY <1>5 DEF Boot, RestoreFromCache
  <2>2. Explained(disk.entries, pins, snap, build')
    BY ResyncExplained
  <2>3. disk.entries \in [Key -> Row \union {NoRow}]
    BY <1>5, DiskType DEF Inv
  <2>. HIDE DEF pins, snap
  <2>4. ServedIsExplained'
    BY <1>4, <2>1, <2>2 DEF ServedIsExplained, Explained, Loads
  <2>5. FilesAreExplained'
    BY <1>1, <2>1, <2>2, <2>3, FlushExplained DEF Inv
  <2> QED BY <1>2, <1>3, <2>4, <2>5
<1>6. CASE ~(CacheEnabled /\ disk # NoFile)
  <2>1. UNCHANGED <<snapshot, state, stale, pending>>
    BY <1>6 DEF Boot
  <2>2. snapshot = NoneServed /\ state = NoRows /\ stale = NoRows
    BY <1>1 DEF Inv, OffIsForgotten
  <2>3. ServedIsExplained'
    BY <1>4, <2>1, <2>2 DEF ServedIsExplained, Explained, Loads, NoneServed, NoRows
  <2>4. FilesAreExplained'
    BY <1>1, <2>1 DEF Inv, FilesAreExplained, Files
  <2> QED BY <1>2, <1>3, <2>3, <2>4
<1> QED BY <1>5, <1>6

LEMMA ForgetExplained ==
    ASSUME Inv, Forget, disk' = disk, phase' = "off"
    PROVE  BatchIsStaged' /\ OffIsForgotten' /\ ServedIsExplained' /\ FilesAreExplained'
<1>1. BatchIsStaged'
  BY SupervisorAssumption DEF SupervisorAssumption, Forget, BatchIsStaged, Untouched
<1>2. OffIsForgotten'
  BY DEF Forget, OffIsForgotten
<1>3. ServedIsExplained'
  BY DEF Forget, ServedIsExplained, Explained, Effective, Loads, NoneServed, NoRows
<1>4. FilesAreExplained'
  BY DEF Inv, Forget, FilesAreExplained, Files
<1> QED BY <1>1, <1>2, <1>3, <1>4

LEMMA InitExplained == Init => Inv
<1>. SUFFICES ASSUME Init PROVE Inv
  OBVIOUS
<1>1. BatchIsStaged
  BY SupervisorAssumption DEF SupervisorAssumption, Init, BatchIsStaged, Untouched
<1>2. OffIsForgotten
  BY DEF Init, OffIsForgotten
<1>3. ServedIsExplained
  BY DEF Init, ServedIsExplained, Explained, Effective, Loads, NoneServed, NoRows
<1>4. FilesAreExplained
  BY DEF Init, FilesAreExplained, Files
<1> QED BY <1>1, <1>2, <1>3, <1>4, InitType DEF Inv

LEMMA StepExplained == Inv /\ [Next]_vars => Inv'
<1>. SUFFICES ASSUME Inv, [Next]_vars PROVE Inv'
  OBVIOUS
<1> DEFINE Kept == BatchIsStaged' /\ OffIsForgotten' /\ ServedIsExplained' /\ FilesAreExplained'
<1>1. ASSUME UNCHANGED vars PROVE Kept
  BY <1>1, IdleStep DEF vars
<1>2. ASSUME NEW k \in Key, NEW v \in Val \union {Absent}, Write(k, v) PROVE Kept
  BY <1>2, IdleStep DEF Write
<1>3. ASSUME NEW p \in Prefix, ReadPrefix(p) \/ ReadRefused(p) PROVE Kept
  BY <1>3, IdleStep DEF ReadPrefix, ReadRefused
<1>4. ASSUME ApplyLoad PROVE Kept
  BY <1>4, ApplyLoadExplained
<1>5. ASSUME ReportLoad PROVE Kept
  BY <1>5, ReportExplained DEF ReportLoad
<1>6. ASSUME OpenWatches \/ EndCycle \/ Cancel PROVE Kept
  BY <1>6, IdleStep DEF OpenWatches, EndCycle, Cancel
<1>7. ASSUME NEW p \in Prefix, StageEvent(p) PROVE Kept
  BY <1>7, StageEventExplained
<1>8. ASSUME Publish PROVE Kept
  BY <1>8, PublishExplained
<1>9. ASSUME ReportBatch PROVE Kept
  BY <1>9, ReportExplained DEF ReportBatch
<1>10. ASSUME NEW w \in pending, CommitWrite(w) \/ WriteFails(w) PROVE Kept
  BY <1>10, CacheStepExplained
<1>11. ASSUME Boot PROVE Kept
  BY <1>11, BootExplained
<1>12. ASSUME Drained \/ Crash PROVE Kept
  BY <1>12, ForgetExplained DEF Drained, Crash
<1>13. Kept
  <2>. HIDE DEF Kept
  <2> QED BY <1>1, <1>2, <1>3, <1>4, <1>5, <1>6, <1>7, <1>8, <1>9, <1>10, <1>11, <1>12
          DEF Next, SupervisorStep
<1> QED BY <1>13, StepType DEF Inv

LEMMA Invariance == Spec => []Inv
BY InitExplained, StepExplained, PTL DEF Spec

\* What the gateway serves is always explained by what it observed and pinned.
THEOREM AlwaysExplained == Spec => []ServedIsExplained
<1>1. Inv => ServedIsExplained
  BY DEF Inv
<1> QED BY <1>1, Invariance, PTL

\* Staging always answers as the snapshot it is about to publish would.
THEOREM AlwaysViewed == Spec => []ViewIsEffective
<1>1. Inv => ViewIsEffective
  BY ViewLemma DEF Inv
<1> QED BY <1>1, Invariance, PTL

\* Every cache write holds what is needed to serve what was being served.
THEOREM FilesAlwaysExplained == Spec => []FilesAreExplained
<1>1. Inv => FilesAreExplained
  BY DEF Inv
<1> QED BY <1>1, Invariance, PTL

-----------------------------------------------------------------------------
(* The supervisor implements LastKnownGood.                                *)

Saved == {[observed |-> ValuesOf(f.entries), served |-> f.served] : f \in Files}

\* What is served is what LastKnownGood settles on for what was observed.
LEMMA Settled ==
    ASSUME Inv, NEW k \in Key
    PROVE  Effective[k] = LKG!Settle(ValuesOf(state)[k], Effective[k], build)
<1>1. state[k] \in Row \union {NoRow} /\ Absent \notin Val /\ build \subseteq Val
  BY SupervisorAssumption DEF SupervisorAssumption, Inv, TypeOK
<1>2. ValuesOf(state)[k] = IF state[k] = NoRow THEN Absent ELSE state[k].val
  BY DEF ValuesOf
<1>3. IF Loads(state[k], build) THEN Effective[k] = state[k].val
      ELSE Effective[k] \in build \/ Effective[k] = Absent
  BY DEF Inv, ServedIsExplained, Explained, Loads
<1>4. state[k] = NoRow => Effective[k] = Absent
  BY DEF Inv, ServedIsExplained, Explained, Loads
<1>5. state[k] # NoRow => state[k].val \in Val
  BY <1>1 DEF Row
<1> QED BY <1>1, <1>2, <1>3, <1>4, <1>5 DEF LKG!Settle, Loads

\* A rejected key has the value served before it pinned or still observed.
Recalls(entries, pins, served, observed, loadable, before, k) ==
    entries[k] # NoRow /\ ~Loads(entries[k], loadable) =>
        IF pins[k] # NoRow THEN before[k] = pins[k].val
        ELSE IF served[k] # Absent
             THEN observed[k] # NoRow /\ before[k] = observed[k].val
             ELSE before[k] \notin loadable

\* A resync settles every key the way LastKnownGood does.
LEMMA ResyncSettles ==
    ASSUME NEW entries \in [Key -> Row \union {NoRow}],
           NEW pins, NEW served, NEW observed, NEW loadable \in SUBSET Val,
           NEW before, NEW k \in Key,
           Recalls(entries, pins, served, observed, loadable, before, k)
    PROVE  ResyncSnapshot(entries, ResyncPins(entries, pins, served, observed, loadable),
                          loadable)[k]
             = LKG!Settle(ValuesOf(entries)[k], before[k], loadable)
<1> DEFINE kept == IF entries[k] = NoRow \/ Loads(entries[k], loadable) THEN NoRow
                   ELSE IF pins[k] # NoRow THEN pins[k]
                   ELSE IF served[k] # Absent THEN observed[k]
                   ELSE NoRow
           new == ResyncPins(entries, pins, served, observed, loadable)
<1>1. new[k] = IF Loads(kept, loadable) THEN kept ELSE NoRow
  BY DEF ResyncPins
<1>2. /\ entries[k] = NoRow \/ Loads(entries[k], loadable) => kept = NoRow
      /\ entries[k] # NoRow /\ ~Loads(entries[k], loadable) =>
            kept = IF pins[k] # NoRow THEN pins[k]
                   ELSE IF served[k] # Absent THEN observed[k] ELSE NoRow
  OBVIOUS
<1>. HIDE DEF kept, new
<1>3. ResyncSnapshot(entries, new, loadable)[k]
        = IF Loads(entries[k], loadable) THEN entries[k].val
          ELSE IF new[k] # NoRow THEN new[k].val ELSE Absent
  BY DEF ResyncSnapshot
<1>4. ValuesOf(entries)[k] = IF entries[k] = NoRow THEN Absent ELSE entries[k].val
  BY DEF ValuesOf
<1>5. Absent \notin Val /\ (entries[k] # NoRow => entries[k].val \in Val)
  BY SupervisorAssumption DEF SupervisorAssumption, Row
<1>6. ResyncSnapshot(entries, new, loadable)[k]
        = LKG!Settle(ValuesOf(entries)[k], before[k], loadable)
  <2>1. CASE entries[k] = NoRow
    BY <1>1, <1>2, <1>3, <1>4, <2>1 DEF LKG!Settle, Loads
  <2>2. CASE Loads(entries[k], loadable)
    BY <1>3, <1>4, <1>5, <2>2 DEF LKG!Settle, Loads
  <2>3. CASE entries[k] # NoRow /\ ~Loads(entries[k], loadable)
    <3>1. LKG!Settle(ValuesOf(entries)[k], before[k], loadable)
            = IF before[k] \in loadable THEN before[k] ELSE Absent
      BY <1>4, <1>5, <2>3 DEF LKG!Settle, Loads
    <3>2. ResyncSnapshot(entries, new, loadable)[k]
            = IF Loads(kept, loadable) THEN kept.val ELSE Absent
      BY <1>1, <1>3, <2>3 DEF Loads
    <3> QED BY <1>2, <2>3, <3>1, <3>2 DEF Loads, Recalls
  <2> QED BY <2>1, <2>2, <2>3
<1> QED BY <1>6 DEF new

\* A step that settles every key, and keeps no pair but the new one, is one of
\* LastKnownGood's.
LEMMA ObserveStep ==
    ASSUME TypeOK', build' = build,
           \A k \in Key : Effective'[k] = LKG!Settle(ValuesOf(state)'[k], Effective[k], build),
           Saved' \subseteq Saved \union {[observed |-> ValuesOf(state)', served |-> Effective']}
    PROVE  LKG!Observe
<1>1. ValuesOf(state)' \in LKG!Content
  BY DEF TypeOK, ValuesOf, LKG!Content, Row
<1>2. Effective' = [k \in Key |-> LKG!Settle(ValuesOf(state)'[k], Effective[k], build)]
  BY DEF Effective
<1>3. LKG!Save
  BY DEF LKG!Save, Saved
<1> QED BY <1>1, <1>2, <1>3 DEF LKG!Observe

\* A step that changes nothing LastKnownGood sees but what is saved.
LEMMA SettledStep ==
    ASSUME Inv, TypeOK', UNCHANGED <<build, state, snapshot, staged>>,
           Saved' \subseteq Saved \union {[observed |-> ValuesOf(state)', served |-> Effective']}
    PROVE  LKG!Observe
<1>1. Effective' = Effective /\ ValuesOf(state)' = ValuesOf(state)
  BY DEF Effective, ValuesOf
<1> QED BY <1>1, Settled, ObserveStep

LEMMA FlushSaves ==
    ASSUME NEW entries, NEW pins, NEW rev, NEW snap, NEW seen,
           disk' = disk, Flush(entries, pins, rev, snap, seen)
    PROVE  Saved' \subseteq Saved \union {[observed |-> ValuesOf(entries), served |-> snap]}
<1>1. Files' \subseteq Files \union {Spawned(entries, pins, rev, snap, seen)}
  BY DEF Flush, Files
<1> QED BY <1>1 DEF Saved, ValuesOf

LEMMA ApplyLoadRefines ==
    ASSUME Inv, TypeOK', ApplyLoad
    PROVE  LKG!Observe
<1> DEFINE new == ResyncPins(UnionOfReads, stale, snapshot, state, build)
<1>1. /\ snapshot' = ResyncSnapshot(UnionOfReads, new, build)
      /\ state' = UnionOfReads
      /\ UNCHANGED <<build, staged, pending, disk>>
  BY DEF ApplyLoad
<1>2. Effective = snapshot
  BY QuietEffective DEF Inv, ApplyLoad
<1>3. Effective' = snapshot'
  BY <1>1 DEF Inv, BatchIsStaged, ApplyLoad, Effective, ResyncSnapshot
<1>4. UnionOfReads \in [Key -> Row \union {NoRow}] /\ build \in SUBSET Val
  BY UnionOfReadsType DEF Inv, TypeOK
<1>5. ASSUME NEW k \in Key
      PROVE  ResyncSnapshot(UnionOfReads, new, build)[k]
               = LKG!Settle(ValuesOf(UnionOfReads)[k], snapshot[k], build)
  <2>1. IF Loads(state[k], build) THEN snapshot[k] = state[k].val /\ stale[k] = NoRow
        ELSE IF stale[k] # NoRow THEN snapshot[k] = stale[k].val
        ELSE snapshot[k] = Absent
    BY <1>2 DEF Inv, ServedIsExplained, Explained
  <2>2. Absent \notin build
    BY <1>4, SupervisorAssumption DEF SupervisorAssumption
  <2>3. Recalls(UnionOfReads, stale, snapshot, state, build, snapshot, k)
    BY <2>1, <2>2 DEF Recalls, Loads
  <2> QED BY <1>4, <2>3, ResyncSettles
<1>6. ValuesOf(state)' = ValuesOf(UnionOfReads)
  BY <1>1 DEF ValuesOf
<1>7. Saved' = Saved
  BY <1>1 DEF Saved, Files
<1>. HIDE DEF new
<1> QED BY <1>1, <1>2, <1>3, <1>5, <1>6, <1>7, ObserveStep

\* ReportLoad and ReportBatch keep the current pair for a later process.
LEMMA ReportRefines ==
    ASSUME Inv, TypeOK', phase # "staging",
           UNCHANGED <<build, snapshot, state, staged, disk>>,
           \/ UNCHANGED pending
           \/ Flush(state, stale, revision, snapshot, upTo)
    PROVE  LKG!Observe
<1>1. Effective = snapshot
  BY QuietEffective DEF Inv
<1>2. Effective' = Effective /\ ValuesOf(state)' = ValuesOf(state)
  BY DEF Effective, ValuesOf
<1>3. Saved' \subseteq Saved \union {[observed |-> ValuesOf(state)', served |-> Effective']}
  <2>1. CASE UNCHANGED pending
    BY <2>1 DEF Saved, Files
  <2>2. CASE Flush(state, stale, revision, snapshot, upTo)
    BY <1>1, <1>2, <2>2, FlushSaves
  <2> QED BY <2>1, <2>2
<1> QED BY <1>3, SettledStep

LEMMA StageEventRefines ==
    ASSUME Inv, TypeOK', NEW p \in Prefix, StageEvent(p)
    PROVE  LKG!Observe
<1>1. PICK i \in 1 .. Len(writes), k \in Key :
         \/ StageDelete(k, i)
         \/ \E row \in Row : StageAccepted(k, row) \/ StageRejected(k, row)
  BY StageEventCases DEF Inv
<1>2. UNCHANGED <<build, snapshot, pending, disk>>
  BY DEF StageEvent
<1>3. Saved' = Saved
  BY <1>2 DEF Saved, Files
<1>4. Absent \notin Val /\ Untouched \notin Val \union {Absent} /\ build \subseteq Val
  BY SupervisorAssumption DEF SupervisorAssumption, Inv, TypeOK, Untouched
<1>5. ASSUME NEW j \in Key, j # k
      PROVE  Effective'[j] = LKG!Settle(ValuesOf(state)'[j], Effective[j], build)
  <2>1. state'[j] = state[j] /\ Effective'[j] = Effective[j]
    BY SMTT(30), <1>1, <1>2, <1>5
       DEF Inv, TypeOK, StageDelete, StageAccepted, StageRejected, Effective
  <2>2. ValuesOf(state)'[j] = ValuesOf(state)[j]
    BY <2>1 DEF ValuesOf
  <2> QED BY <2>1, <2>2, Settled
<1>6. Effective'[k] = LKG!Settle(ValuesOf(state)'[k], Effective[k], build)
  <2>1. CASE StageDelete(k, i)
    <3>1. ValuesOf(state)'[k] = Absent
      BY <2>1 DEF Inv, TypeOK, StageDelete, ValuesOf
    <3>2. Present(k) <=> Effective[k] # Absent
      BY ViewLemma DEF Inv, ViewIsEffective
    <3>3. Effective'[k] = Absent
      <4>1. CASE Present(k)
        BY <1>2, <1>4, <2>1, <4>1 DEF Inv, TypeOK, StageDelete, Effective
      <4>2. CASE ~Present(k)
        BY <1>2, <2>1, <3>2, <4>2 DEF StageDelete, Effective
      <4> QED BY <4>1, <4>2
    <3> QED BY <3>1, <3>3 DEF LKG!Settle
  <2>2. ASSUME NEW row \in Row, StageAccepted(k, row)
        PROVE  Effective'[k] = LKG!Settle(ValuesOf(state)'[k], Effective[k], build)
    <3>1. row # NoRow /\ row.val \in build
      BY <2>2, SupervisorAssumption DEF SupervisorAssumption, StageAccepted
    <3>2. ValuesOf(state)'[k] = row.val
      BY <2>2, <3>1 DEF Inv, TypeOK, StageAccepted, ValuesOf
    <3>3. Effective'[k] = row.val
      BY SMTT(30), <1>4, <2>2, <3>1 DEF Inv, TypeOK, StageAccepted, Effective
    <3> QED BY <1>4, <3>1, <3>2, <3>3 DEF LKG!Settle
  <2>3. ASSUME NEW row \in Row, StageRejected(k, row)
        PROVE  Effective'[k] = LKG!Settle(ValuesOf(state)'[k], Effective[k], build)
    <3>1. row # NoRow /\ row.val \notin build /\ row.val # Absent
      BY <2>3, SupervisorAssumption DEF SupervisorAssumption, StageRejected, Row
    <3>2. ValuesOf(state)'[k] = row.val
      BY <2>3, <3>1 DEF Inv, TypeOK, StageRejected, ValuesOf
    <3>3. Effective'[k] = Effective[k]
      BY <1>2, <2>3 DEF StageRejected, Effective
    <3>4. Effective[k] \in build \/ Effective[k] = Absent
      BY DEF Inv, ServedIsExplained, Explained, Loads
    <3> QED BY <3>1, <3>2, <3>3, <3>4 DEF LKG!Settle
  <2> QED BY <1>1, <2>1, <2>2, <2>3
<1> QED BY <1>2, <1>3, <1>5, <1>6, ObserveStep

LEMMA PublishRefines ==
    ASSUME Inv, TypeOK', Publish
    PROVE  LKG!Observe
<1>1. Effective' = Effective /\ ValuesOf(state)' = ValuesOf(state)
  BY DEF Publish, Effective, ValuesOf
<1>2. Saved' = Saved
  BY DEF Publish, Saved, Files
<1> QED BY <1>1, <1>2, Settled, ObserveStep DEF Publish

LEMMA CacheStepRefines ==
    ASSUME Inv, TypeOK', NEW w \in pending, CommitWrite(w) \/ WriteFails(w)
    PROVE  LKG!Observe
<1>1. UNCHANGED <<build, state, snapshot, staged>>
  BY DEF CommitWrite, WriteFails
<1>2. Files' \subseteq Files
  BY DEF CommitWrite, WriteFails, Files
<1>3. Saved' \subseteq Saved
  BY <1>2 DEF Saved
<1> QED BY <1>1, <1>3, SettledStep

LEMMA BootRefines ==
    ASSUME Inv, Inv', Boot
    PROVE  LKG!Start
<1>1. build' \in Builds /\ build' \in SUBSET Val /\ phase' = "reading" /\ disk' = disk
  BY SupervisorAssumption DEF SupervisorAssumption, Boot
<1>2. Effective' = snapshot'
  BY <1>1 DEF Inv, TypeOK, BatchIsStaged, Effective
<1>3. CASE CacheEnabled /\ disk # NoFile
  <2> DEFINE pins == ResyncPins(disk.entries, disk.stale, NoneServed, NoRows, build')
             snap == ResyncSnapshot(disk.entries, pins, build')
             pair == [observed |-> ValuesOf(disk.entries), served |-> disk.served]
  <2>1. PICK highest :
          /\ snapshot' = snap /\ state' = disk.entries
          /\ Flush(disk.entries, pins, highest, snap, disk.upTo)
    BY <1>3 DEF Boot, RestoreFromCache
  <2>2. disk \in Files
    BY <1>3 DEF Files
  <2>3. pair \in Saved
    BY <2>2 DEF Saved
  <2>4. ValuesOf(state)' = ValuesOf(disk.entries)
    BY <2>1 DEF ValuesOf
  <2>5. disk.entries \in [Key -> Row \union {NoRow}]
    BY <1>3, DiskType DEF Inv
  <2>6. ASSUME NEW k \in Key
        PROVE  snap[k] = LKG!Settle(ValuesOf(disk.entries)[k], disk.served[k], build')
    <3>1. IF disk.stale[k] # NoRow
          THEN disk.entries[k] # NoRow /\ disk.served[k] = disk.stale[k].val
          ELSE disk.served[k] # Absent =>
                 disk.entries[k] # NoRow /\ disk.served[k] = disk.entries[k].val
      BY <2>2 DEF Inv, FilesAreExplained
    <3>2. Absent \notin build'
      BY <1>1, SupervisorAssumption DEF SupervisorAssumption
    <3>3. Recalls(disk.entries, disk.stale, NoneServed, NoRows, build', disk.served, k)
      BY <3>1, <3>2 DEF Recalls, Loads, NoneServed
    <3> QED BY <1>1, <2>5, <3>3, ResyncSettles
  <2>. HIDE DEF pins
  <2>7. snap = [k \in Key |-> LKG!Settle(pair.observed[k], pair.served[k], build')]
    BY <2>6 DEF ResyncSnapshot
  <2>. HIDE DEF snap
  <2>8. Saved' \subseteq Saved \union {[observed |-> ValuesOf(state)', served |-> Effective']}
    BY <1>1, <1>2, <2>1, <2>4, FlushSaves
  <2>9. LKG!Save
    BY <2>8 DEF LKG!Save, Saved
  <2>10. /\ ValuesOf(state)' = pair.observed
         /\ Effective' = [k \in Key |-> LKG!Settle(pair.observed[k], pair.served[k], build')]
    BY <1>2, <2>1, <2>4, <2>7
  <2>. HIDE DEF pair
  <2> QED BY <1>1, <2>3, <2>9, <2>10 DEF LKG!Start, Saved
<1>4. CASE ~(CacheEnabled /\ disk # NoFile)
  <2>1. UNCHANGED <<snapshot, state, pending>>
    BY <1>4 DEF Boot
  <2>2. snapshot = NoneServed /\ state = NoRows
    BY DEF Inv, OffIsForgotten, Boot
  <2>3. ValuesOf(state)' = LKG!Nothing
    BY <2>1, <2>2 DEF ValuesOf, NoRows, LKG!Nothing
  <2>4. Effective' = LKG!Nothing
    BY <1>2, <2>1, <2>2 DEF NoneServed, LKG!Nothing
  <2>5. LKG!Save
    BY <1>1, <2>1 DEF LKG!Save, Files
  <2> QED BY <1>1, <2>3, <2>4, <2>5 DEF LKG!Start
<1> QED BY <1>3, <1>4

LEMMA ForgetRefines ==
    ASSUME Inv, Forget, disk' = disk
    PROVE  LKG!Stop
<1>1. ValuesOf(state)' = LKG!Nothing
  BY DEF Forget, ValuesOf, NoRows, LKG!Nothing
<1>2. Effective' = LKG!Nothing
  BY DEF Forget, Effective, NoneServed, LKG!Nothing
<1>3. Files' \subseteq Files
  BY DEF Forget, Files
<1>4. Saved' \subseteq Saved
  BY <1>3 DEF Saved
<1> QED BY <1>1, <1>2, <1>4 DEF Forget, LKG!Stop, Saved

LEMMA InitRefines == Init => LKG!Init
<1>. SUFFICES ASSUME Init PROVE LKG!Init
  OBVIOUS
<1>1. ValuesOf(state) = LKG!Nothing
  BY DEF Init, ValuesOf, NoRows, LKG!Nothing
<1>2. Effective = LKG!Nothing
  BY DEF Init, Effective, NoneServed, LKG!Nothing
<1>3. Saved = {}
  BY DEF Init, Saved, Files
<1> QED BY <1>1, <1>2, <1>3 DEF Init, LKG!Init, Saved

LEMMA StepRefines == Inv /\ Inv' /\ [Next]_vars => [LKG!Next]_(LKG!vars)
<1>. SUFFICES ASSUME Inv, Inv', [Next]_vars PROVE LKG!Next \/ UNCHANGED LKG!vars
  OBVIOUS
<1> DEFINE Refined == LKG!Observe \/ LKG!Stop \/ LKG!Start \/ UNCHANGED LKG!vars
<1>1. TypeOK'
  BY DEF Inv
<1>2. ASSUME UNCHANGED <<build, state, snapshot, staged, pending, disk>> PROVE Refined
  <2>1. Saved' = Saved
    BY <1>2 DEF Saved, Files
  <2> QED BY <1>1, <1>2, <2>1, SettledStep
<1>3. ASSUME UNCHANGED vars PROVE Refined
  BY <1>2, <1>3 DEF vars
<1>4. ASSUME NEW k \in Key, NEW v \in Val \union {Absent}, Write(k, v) PROVE Refined
  BY <1>2, <1>4 DEF Write
<1>5. ASSUME NEW p \in Prefix, ReadPrefix(p) \/ ReadRefused(p) PROVE Refined
  BY <1>2, <1>5 DEF ReadPrefix, ReadRefused
<1>6. ASSUME ApplyLoad PROVE Refined
  BY <1>1, <1>6, ApplyLoadRefines
<1>7. ASSUME ReportLoad PROVE Refined
  BY <1>1, <1>7, ReportRefines DEF ReportLoad
<1>8. ASSUME OpenWatches \/ EndCycle \/ Cancel PROVE Refined
  BY <1>2, <1>8 DEF OpenWatches, EndCycle, Cancel
<1>9. ASSUME NEW p \in Prefix, StageEvent(p) PROVE Refined
  BY <1>1, <1>9, StageEventRefines
<1>10. ASSUME Publish PROVE Refined
  BY <1>1, <1>10, PublishRefines
<1>11. ASSUME ReportBatch PROVE Refined
  BY <1>1, <1>11, ReportRefines DEF ReportBatch
<1>12. ASSUME NEW w \in pending, CommitWrite(w) \/ WriteFails(w) PROVE Refined
  BY <1>1, <1>12, CacheStepRefines
<1>13. ASSUME Boot PROVE Refined
  BY <1>13, BootRefines
<1>14. ASSUME Drained \/ Crash PROVE Refined
  BY <1>14, ForgetRefines DEF Drained, Crash
<1>15. Refined
  <2>. HIDE DEF Refined
  <2> QED BY <1>3, <1>4, <1>5, <1>6, <1>7, <1>8, <1>9, <1>10, <1>11, <1>12, <1>13, <1>14
          DEF Next, SupervisorStep
<1> QED BY <1>15 DEF LKG!Next

\* The supervisor implements LastKnownGood: whatever is read, watched, refused,
\* rejected, restarted or restored, what is served for each key is its last
\* observed value or, while that value is rejected, its last good one.
THEOREM Refinement == Spec => KeepsLastKnownGood
<1>1. Init => LKG!Init
  BY InitRefines
<1>2. Inv /\ Inv' /\ [Next]_vars => [LKG!Next]_(LKG!vars)
  BY StepRefines
<1> QED BY <1>1, <1>2, Invariance, PTL DEF Spec, KeepsLastKnownGood, LKG!Spec
=============================================================================
