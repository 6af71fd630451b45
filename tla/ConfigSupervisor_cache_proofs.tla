-------------------- MODULE ConfigSupervisor_cache_proofs --------------------
(***************************************************************************)
(* Proofs about the cache files of ConfigSupervisor, for any number of     *)
(* watched prefixes, overlapping or not: in which order the detached       *)
(* writes reach the disk, and what the last of them leaves there.          *)
(***************************************************************************)
EXTENDS ConfigSupervisor_history_proofs

USE DEF etcdVars, servingVars, statusVars, cycleVars, batchVars, cacheVars, WatchFrom, Spawned

\* Some watched prefix is never refused: the environment's own is one, for its
\* refusal fails the whole read.
EnvironmentIsRead == Prefix \ (MayRefuse \intersect Global) # {}

Behind(a, b) == \A p \in Prefix : a[p] <= b[p]

RowsUpTo(rows, n) == \A k \in Key : rows[k] # NoRow => rows[k].rev <= n

FileUpTo(f, n) ==
    RowsUpTo(f.entries, n) /\ f.rev <= n /\ \A p \in Prefix : f.upTo[p] <= n

\* Nothing held or saved is of a revision that etcd has not reached.
NothingIsAhead ==
    /\ RowsUpTo(state, Len(writes))
    /\ revision <= Len(writes) /\ committed <= Len(writes)
    /\ \A p \in Prefix : upTo[p] <= Len(writes)
    /\ \A f \in Files : FileUpTo(f, Len(writes))

\* A read of a cycle is later than all that was done before the cycle.
ReadsAreAhead ==
    /\ \A p \in Prefix \ (MayRefuse \intersect Global) : readRev[p] # Refused
    /\ phase = "reading" =>
         \A p \in Prefix : readRev[p] >= 0 =>
            /\ upTo[p] <= readRev[p] /\ committed <= readRev[p]
            /\ \A f \in pending : f.rev <= readRev[p]

\* A watch delivers what is later than its prefix has been read or watched.
StreamsAreAhead ==
    /\ phase \in {"loaded", "opening"} =>
         \A p \in Prefix : readRev[p] # Refused => upTo[p] = readRev[p]
    /\ Watching => \A p \in Prefix : next[p] # NoStream => upTo[p] < next[p]

Resynced == phase \in {"loaded", "opening", "watching", "staging", "published"}

\* The next write will hold all that any write or the file does, and its
\* revision will be no lower than theirs.
WritesAreBehind ==
    /\ \A f \in pending : Behind(f.upTo, upTo)
    /\ phase # "off" /\ CacheEnabled /\ disk # NoFile => Behind(disk.upTo, upTo)
    /\ Resynced => committed <= revision /\ \A f \in pending : f.rev <= revision

\* Of two writes the one of the higher revision holds all that the other does,
\* and the file is one of those this process wrote or the one it began with.
WritesAreOrdered ==
    /\ \A f, g \in pending : f.rev < g.rev => Behind(f.upTo, g.upTo)
    /\ disk # NoFile => \A g \in pending : committed < g.rev => Behind(disk.upTo, g.upTo)
    /\ committed # -1 => disk.rev = committed
    /\ phase = "off" => committed = -1
    /\ ~CacheEnabled => pending = {} /\ committed = -1

OrderParts ==
    NothingIsAhead /\ ReadsAreAhead /\ StreamsAreAhead /\ WritesAreBehind /\ WritesAreOrdered

OrderInv == EnvironmentIsRead /\ Inv /\ ReadInv /\ OrderParts

LEMMA CacheFileType ==
    ASSUME NEW f \in CacheFile
    PROVE  /\ f.rev \in Nat /\ f.upTo \in [Prefix -> Nat]
           /\ f.entries \in [Key -> Row \union {NoRow}]
BY DEF CacheFile

LEMMA RowType == \A row \in Row : row.rev \in Nat
BY DEF Row

LEMMA OrderTypes ==
    ASSUME OrderInv
    PROVE  /\ TypeOK /\ writes \in Seq(Change) /\ Len(writes) \in Nat
           /\ committed \in Nat \union {-1} /\ revision \in Nat
           /\ upTo \in [Prefix -> Nat] /\ next \in [Prefix -> Nat]
           /\ readRev \in [Prefix -> Nat \union {Unread, Refused}]
           /\ \A p \in Prefix : readRev[p] \in Int /\ next[p] \in Nat /\ upTo[p] \in Nat
           /\ \A f \in Files : f \in CacheFile
           /\ pending \subseteq Files /\ (disk # NoFile => disk \in Files)
<1>1. TypeOK
  BY DEF OrderInv, Inv
<1>2. /\ writes \in Seq(Change) /\ Len(writes) \in Nat
      /\ committed \in Nat \union {-1} /\ revision \in Nat
      /\ upTo \in [Prefix -> Nat] /\ next \in [Prefix -> Nat]
      /\ readRev \in [Prefix -> Nat \union {Unread, Refused}]
  BY <1>1 DEF TypeOK
<1>3. \A p \in Prefix : readRev[p] \in Int /\ next[p] \in Nat /\ upTo[p] \in Nat
  BY <1>2 DEF Unread, Refused
<1>4. pending \subseteq Files /\ (disk # NoFile => disk \in Files)
  BY DEF Files
<1>5. \A f \in Files : f \in CacheFile
  BY <1>1 DEF TypeOK, Files
<1> QED BY <1>1, <1>2, <1>3, <1>4, <1>5

LEMMA FileTypes ==
    ASSUME OrderInv, NEW f \in Files
    PROVE  /\ f.rev \in Nat /\ f.upTo \in [Prefix -> Nat]
           /\ \A p \in Prefix : f.upTo[p] \in Nat
           /\ f.entries \in [Key -> Row \union {NoRow}]
BY OrderTypes, CacheFileType

LEMMA WriteOrders ==
    ASSUME OrderInv, NEW k \in Key, NEW v \in Val \union {Absent}, Write(k, v)
    PROVE  OrderParts'
<1>1. UNCHANGED <<phase, state, revision, readRev, next, pending, disk, committed, upTo>>
  BY DEF Write
<1>2. Len(writes') = Len(writes) + 1 /\ Len(writes) \in Nat
  BY OrderTypes DEF Write
<1>3. ASSUME NEW rows \in [Key -> Row \union {NoRow}], RowsUpTo(rows, Len(writes))
      PROVE  RowsUpTo(rows, Len(writes'))
  <2>. SUFFICES ASSUME NEW j \in Key, rows[j] # NoRow PROVE rows[j].rev <= Len(writes')
    BY DEF RowsUpTo
  <2>1. rows[j].rev \in Nat
    BY RowType
  <2>2. rows[j].rev <= Len(writes)
    BY <1>3 DEF RowsUpTo
  <2> QED BY <1>2, <2>1, <2>2
<1>4. RowsUpTo(state, Len(writes'))
  <2>1. state \in [Key -> Row \union {NoRow}]
    BY OrderTypes DEF TypeOK
  <2> QED BY <1>3, <2>1 DEF OrderInv, OrderParts, NothingIsAhead
<1>5. ASSUME NEW f \in Files PROVE FileUpTo(f, Len(writes'))
  <2>1. FileUpTo(f, Len(writes))
    BY DEF OrderInv, OrderParts, NothingIsAhead
  <2>2. RowsUpTo(f.entries, Len(writes'))
    BY <1>3, <2>1, FileTypes DEF FileUpTo
  <2>3. f.rev <= Len(writes') /\ \A p \in Prefix : f.upTo[p] <= Len(writes')
    BY <1>2, <2>1, FileTypes DEF FileUpTo
  <2> QED BY <2>2, <2>3 DEF FileUpTo
<1>6. revision <= Len(writes') /\ committed <= Len(writes') /\ \A p \in Prefix : upTo[p] <= Len(writes')
  <2>1. revision <= Len(writes) /\ committed <= Len(writes) /\ \A p \in Prefix : upTo[p] <= Len(writes)
    BY DEF OrderInv, OrderParts, NothingIsAhead
  <2> QED BY <1>2, <2>1, OrderTypes
<1>7. NothingIsAhead'
  BY <1>1, <1>4, <1>5, <1>6 DEF NothingIsAhead, RowsUpTo, Files
<1> QED BY <1>1, <1>7 DEF OrderInv, OrderParts, ReadsAreAhead, StreamsAreAhead, Watching,
           WritesAreBehind, Resynced, WritesAreOrdered

\* Steps that leave the reads, the watches and the cache alone.
LEMMA IdleOrders ==
    ASSUME OrderInv, UNCHANGED <<writes, state, revision, readRev, next, pending, disk, committed, upTo>>,
           Watching' => Watching, Resynced' => Resynced,
           phase' \in {"reading", "loaded", "opening", "off"} => phase' = phase,
           phase' # "off" => phase # "off"
    PROVE  OrderParts'
<1>1. NothingIsAhead'
  BY DEF OrderInv, OrderParts, NothingIsAhead, RowsUpTo, Files
<1>2. ReadsAreAhead' /\ StreamsAreAhead' /\ WritesAreBehind' /\ WritesAreOrdered'
  BY DEF OrderInv, OrderParts, ReadsAreAhead, StreamsAreAhead, Watching, WritesAreBehind,
         Resynced, WritesAreOrdered
<1> QED BY <1>1, <1>2 DEF OrderParts

\* A read is as of now, which nothing is ahead of.
LEMMA ReadOrders ==
    ASSUME OrderInv, NEW p \in Prefix, ReadPrefix(p) \/ ReadRefused(p)
    PROVE  OrderParts'
<1>1. /\ phase = "reading" /\ phase' = "reading"
      /\ UNCHANGED <<writes, state, revision, next, pending, disk, committed, upTo>>
      /\ \/ readRev' = [readRev EXCEPT ![p] = Len(writes)]
         \/ readRev' = [readRev EXCEPT ![p] = Refused] /\ p \in MayRefuse \intersect Global
  BY DEF ReadPrefix, ReadRefused, IsNextRead
<1>2. NothingIsAhead'
  BY <1>1 DEF OrderInv, OrderParts, NothingIsAhead, RowsUpTo, Files
<1>3. ASSUME NEW q \in Prefix
      PROVE  \/ readRev'[q] = readRev[q]
             \/ readRev'[q] = Len(writes)
             \/ readRev'[q] = Refused /\ q \in MayRefuse \intersect Global
  BY <1>1, OrderTypes
<1>4. ASSUME NEW q \in Prefix, readRev'[q] >= 0
      PROVE  /\ upTo[q] <= readRev'[q] /\ committed <= readRev'[q]
             /\ \A f \in pending : f.rev <= readRev'[q]
  <2>1. CASE readRev'[q] = readRev[q]
    BY <1>1, <1>4, <2>1 DEF OrderInv, OrderParts, ReadsAreAhead
  <2>2. CASE readRev'[q] = Len(writes)
    BY <2>2, OrderTypes DEF OrderInv, OrderParts, NothingIsAhead, FileUpTo
  <2> QED BY <1>3, <1>4, <2>1, <2>2 DEF Refused
<1>5. \A q \in Prefix \ (MayRefuse \intersect Global) : readRev'[q] # Refused
  BY <1>3, OrderTypes DEF OrderInv, OrderParts, ReadsAreAhead, Refused
<1>6. ReadsAreAhead'
  BY <1>1, <1>4, <1>5 DEF ReadsAreAhead
<1> QED BY <1>1, <1>2, <1>6 DEF OrderInv, OrderParts, StreamsAreAhead, Watching,
           WritesAreBehind, Resynced, WritesAreOrdered

\* A resync is at the revision of one of its reads, and at or after them all
\* for the prefixes it was allowed to read.
LEMMA ApplyLoadOrders ==
    ASSUME OrderInv, ApplyLoad
    PROVE  OrderParts'
<1>1. /\ phase = "reading" /\ phase' = "loaded"
      /\ UNCHANGED <<writes, readRev, next, pending, disk, committed>>
      /\ \A p \in Prefix : readRev[p] # Unread
      /\ IsAppliedRevision(revision')
      /\ state' = UnionOfReads
      /\ upTo' = [p \in Prefix |-> IF readRev[p] = Refused THEN upTo[p] ELSE readRev[p]]
  BY DEF ApplyLoad
<1>2. ASSUME NEW p \in Prefix, readRev[p] # Refused
      PROVE  /\ readRev[p] \in 0 .. Len(writes)
             /\ upTo[p] <= readRev[p] /\ committed <= readRev[p]
             /\ \A f \in pending : f.rev <= readRev[p]
  <2>1. readRev[p] \in Nat
    BY <1>1, <1>2, OrderTypes, ReadRevType
  <2>2. readRev[p] <= Len(writes)
    BY DEF OrderInv, ReadInv, ReadsArePast
  <2> QED BY <1>1, <2>1, <2>2, OrderTypes DEF OrderInv, OrderParts, ReadsAreAhead
<1>3. PICK q \in Prefix : readRev[q] # Refused /\ revision' = readRev[q]
  <2>1. PICK p \in Prefix : readRev[p] # Refused
    BY DEF OrderInv, EnvironmentIsRead, OrderParts, ReadsAreAhead
  <2>2. ReadRevisions # {}
    BY <2>1 DEF ReadRevisions
  <2> QED BY <1>1, <2>2 DEF IsAppliedRevision, ReadRevisions
<1>4. ASSUME NEW p \in Prefix
      PROVE  /\ upTo[p] <= upTo'[p] /\ upTo'[p] <= Len(writes) /\ upTo'[p] \in Nat
             /\ readRev[p] # Refused => upTo'[p] = readRev[p]
  <2>1. upTo[p] <= Len(writes)
    BY DEF OrderInv, OrderParts, NothingIsAhead
  <2> QED BY <1>1, <1>2, <2>1, OrderTypes
<1>5. RowsUpTo(state', Len(writes))
  <2>. SUFFICES ASSUME NEW k \in Key, state'[k] # NoRow PROVE state'[k].rev <= Len(writes)
    BY DEF RowsUpTo
  <2>1. CASE state'[k] = state[k]
    BY <2>1 DEF OrderInv, OrderParts, NothingIsAhead, RowsUpTo
  <2>2. CASE state'[k] = loaded[k]
    <3>1. PICK p \in Under[k] : readRev[p] >= 0 /\ loaded[k] = RowIn(writes, k, readRev[p])
      BY <2>2 DEF OrderInv, ReadInv, UnionIsRead
    <3>2. p \in Prefix /\ readRev[p] # Refused
      BY <3>1, UnderType DEF Refused
    <3>3. readRev[p] \in 0 .. Len(writes)
      BY <1>2, <3>2
    <3>4. RowIn(writes, k, readRev[p]).rev \in 1 .. readRev[p]
      BY <2>2, <3>1, <3>3, RowInRow, OrderTypes
    <3> QED BY <2>2, <3>1, <3>3, <3>4, OrderTypes
  <2> QED BY <1>1, <2>1, <2>2 DEF UnionOfReads
<1>6. NothingIsAhead'
  BY <1>1, <1>2, <1>3, <1>4, <1>5 DEF OrderInv, OrderParts, NothingIsAhead, RowsUpTo, Files
<1>7. ReadsAreAhead' /\ StreamsAreAhead'
  BY <1>1, <1>4 DEF OrderInv, OrderParts, ReadsAreAhead, StreamsAreAhead, Watching
<1>8. ASSUME NEW f, Behind(f.upTo, upTo), f.upTo \in [Prefix -> Nat] PROVE Behind(f.upTo, upTo')
  BY <1>4, <1>8, OrderTypes DEF Behind
<1>9. WritesAreBehind'
  <2>1. ASSUME NEW f \in pending PROVE Behind(f.upTo, upTo') /\ f.rev <= revision'
    BY <1>2, <1>3, <1>8, OrderTypes, FileTypes DEF OrderInv, OrderParts, WritesAreBehind
  <2>2. CacheEnabled /\ disk # NoFile => Behind(disk.upTo, upTo')
    BY <1>1, <1>8, OrderTypes, FileTypes DEF OrderInv, OrderParts, WritesAreBehind
  <2>3. committed <= revision'
    BY <1>2, <1>3
  <2> QED BY <1>1, <2>1, <2>2, <2>3 DEF WritesAreBehind, Behind
<1> QED BY <1>1, <1>6, <1>7, <1>9 DEF OrderInv, OrderParts, WritesAreOrdered, Behind
\* A write spawned after a resync is ordered after all that are in flight.
LEMMA FlushOrders ==
    ASSUME OrderInv, NEW pins, NEW snap, Resynced,
           Flush(state, pins, revision, snap, upTo),
           UNCHANGED <<writes, state, disk, committed, upTo, revision>>, phase' # "off"
    PROVE  NothingIsAhead' /\ WritesAreBehind' /\ WritesAreOrdered'
<1> DEFINE n == Spawned(state, pins, revision, snap, upTo)
<1>1. /\ n.entries = state /\ n.rev = revision /\ n.upTo = upTo
      /\ pending' \subseteq pending \union {n}
      /\ ~CacheEnabled => pending' = pending
  BY DEF Flush
<1>2. Files' \subseteq Files \union {n}
  BY FlushFiles
<1>. HIDE DEF n
<1>3. FileUpTo(n, Len(writes))
  BY <1>1 DEF OrderInv, OrderParts, NothingIsAhead, FileUpTo
<1>4. NothingIsAhead'
  BY <1>2, <1>3 DEF OrderInv, OrderParts, NothingIsAhead, FileUpTo, RowsUpTo
<1>5. Behind(upTo, upTo) /\ revision <= revision
  BY OrderTypes DEF Behind
<1>6. WritesAreBehind'
  <2>1. \A f \in pending' : Behind(f.upTo, upTo) /\ f.rev <= revision
    BY <1>1, <1>5 DEF OrderInv, OrderParts, WritesAreBehind
  <2>2. CacheEnabled /\ disk # NoFile => Behind(disk.upTo, upTo)
    BY DEF OrderInv, OrderParts, WritesAreBehind, Resynced
  <2>3. committed <= revision
    BY DEF OrderInv, OrderParts, WritesAreBehind
  <2> QED BY <2>1, <2>2, <2>3 DEF WritesAreBehind, Behind
<1>7. ASSUME NEW f \in pending', NEW g \in pending', f.rev < g.rev PROVE Behind(f.upTo, g.upTo)
  <2>1. CASE g = n
    BY <1>1, <1>5, <2>1 DEF OrderInv, OrderParts, WritesAreBehind
  <2>2. CASE f \in pending /\ g \in pending
    BY <1>7, <2>2 DEF OrderInv, OrderParts, WritesAreOrdered
  <2>3. CASE f = n /\ g \in pending
    <3>1. g.rev <= revision /\ g.rev \in Nat
      BY <2>3, OrderTypes, FileTypes DEF OrderInv, OrderParts, WritesAreBehind
    <3> QED BY <1>1, <1>7, <2>3, <3>1, OrderTypes
  <2> QED BY <1>1, <2>1, <2>2, <2>3
<1>8. ASSUME NEW g \in pending', disk # NoFile, committed < g.rev PROVE Behind(disk.upTo, g.upTo)
  <2>1. CASE g \in pending
    BY <1>8, <2>1 DEF OrderInv, OrderParts, WritesAreOrdered
  <2>2. CASE g = n /\ CacheEnabled
    BY <1>1, <1>8, <2>2 DEF OrderInv, OrderParts, WritesAreBehind, Resynced
  <2> QED BY <1>1, <2>1, <2>2
<1>9. WritesAreOrdered'
  BY <1>1, <1>7, <1>8 DEF OrderInv, OrderParts, WritesAreOrdered, Behind
<1> QED BY <1>4, <1>6, <1>9

LEMMA ReportOrders ==
    ASSUME OrderInv, ReportLoad \/ ReportBatch
    PROVE  OrderParts'
<1>1. /\ UNCHANGED <<writes, state, revision, readRev, next, disk, committed, upTo>>
      /\ \/ phase = "loaded" /\ phase' = "opening"
         \/ phase = "published" /\ phase' = "watching"
      /\ Flush(state, stale, revision, snapshot, upTo) \/ pending' = pending
  BY DEF ReportLoad, ReportBatch
<1>2. Resynced
  BY <1>1 DEF Resynced
<1>3. CASE pending' = pending
  BY <1>1, <1>3 DEF OrderInv, OrderParts, NothingIsAhead, RowsUpTo, Files, ReadsAreAhead,
                    StreamsAreAhead, Watching, WritesAreBehind, Resynced, WritesAreOrdered
<1>4. CASE Flush(state, stale, revision, snapshot, upTo)
  <2>1. NothingIsAhead' /\ WritesAreBehind' /\ WritesAreOrdered'
    BY <1>1, <1>2, <1>4, FlushOrders
  <2>2. ReadsAreAhead' /\ StreamsAreAhead'
    BY <1>1 DEF OrderInv, OrderParts, ReadsAreAhead, StreamsAreAhead, Watching
  <2> QED BY <2>1, <2>2 DEF OrderParts
<1> QED BY <1>1, <1>3, <1>4

LEMMA OpenWatchesOrders ==
    ASSUME OrderInv, OpenWatches
    PROVE  OrderParts'
<1>1. /\ phase = "opening" /\ phase' = "watching"
      /\ UNCHANGED <<writes, state, revision, readRev, pending, disk, committed, upTo>>
      /\ \A p \in Prefix : next'[p] # NoStream => readRev[p] # Refused /\ next'[p] = readRev[p] + 1
  BY DEF OpenWatches
<1>2. NothingIsAhead'
  BY <1>1 DEF OrderInv, OrderParts, NothingIsAhead, RowsUpTo, Files
<1>3. ASSUME NEW p \in Prefix, next'[p] # NoStream PROVE upTo[p] < next'[p]
  <2>1. upTo[p] = readRev[p] /\ next'[p] = readRev[p] + 1
    BY <1>1, <1>3 DEF OrderInv, OrderParts, StreamsAreAhead
  <2> QED BY <2>1, OrderTypes
<1>4. ReadsAreAhead' /\ StreamsAreAhead'
  BY <1>1, <1>3 DEF OrderInv, OrderParts, ReadsAreAhead, StreamsAreAhead
<1> QED BY <1>1, <1>2, <1>4 DEF OrderInv, OrderParts, WritesAreBehind, Resynced, WritesAreOrdered

LEMMA StageEventOrders ==
    ASSUME OrderInv, NEW p \in Prefix, StageEvent(p)
    PROVE  OrderParts'
<1>1. PICK i \in 1 .. Len(writes), k \in Key :
         /\ next[p] # NoStream /\ next[p] <= i /\ next' = [next EXCEPT ![p] = i + 1]
         /\ state' = [state EXCEPT ![k] = RowIn(writes, k, i)]
         /\ revision' = MaxOf(revision, i)
  BY StagedEvent, OrderTypes
<1>2. /\ Watching /\ phase' = "staging"
      /\ UNCHANGED <<writes, readRev, pending, disk, committed>>
  BY DEF StageEvent, Watching
<1>3. upTo' = [upTo EXCEPT ![p] = next'[p] - 1]
  <2>1. PICK j \in Undelivered(p) :
           next' = [next EXCEPT ![p] = j + 1] /\ upTo' = [upTo EXCEPT ![p] = j]
    BY DEF StageEvent
  <2>2. j \in Nat
    BY <2>1, OrderTypes DEF Undelivered
  <2>3. next'[p] = j + 1
    BY <2>1, OrderTypes
  <2>4. next'[p] - 1 = j
    BY <2>2, <2>3
  <2> QED BY <2>1, <2>4
<1>4. i \in Nat /\ i <= Len(writes) /\ next'[p] = i + 1
  BY <1>1, OrderTypes
<1>5. upTo' = [upTo EXCEPT ![p] = i]
  BY <1>3, <1>4
<1>6. upTo[p] < next[p]
  BY <1>1, <1>2 DEF OrderInv, OrderParts, StreamsAreAhead
<1>7. \A q \in Prefix : upTo[q] <= upTo'[q] /\ upTo'[q] <= Len(writes)
  BY <1>1, <1>4, <1>5, <1>6, OrderTypes DEF OrderInv, OrderParts, NothingIsAhead
<1>8. revision <= revision' /\ revision' <= Len(writes) /\ revision' \in Nat
  BY <1>1, <1>4, OrderTypes DEF MaxOf, OrderInv, OrderParts, NothingIsAhead
<1>9. RowsUpTo(state', Len(writes))
  <2>. SUFFICES ASSUME NEW j \in Key, state'[j] # NoRow PROVE state'[j].rev <= Len(writes)
    BY DEF RowsUpTo
  <2>0. state \in [Key -> Row \union {NoRow}]
    BY OrderTypes DEF TypeOK
  <2>1. CASE j # k
    BY <1>1, <2>0, <2>1 DEF OrderInv, OrderParts, NothingIsAhead, RowsUpTo
  <2>2. CASE j = k
    <3>1. state'[j] = RowIn(writes, j, i)
      BY <1>1, <2>0, <2>2
    <3>2. RowIn(writes, j, i).rev \in 1 .. i
      BY <1>4, <3>1, RowInRow, OrderTypes
    <3> QED BY <1>4, <3>1, <3>2, OrderTypes
  <2> QED BY <2>1, <2>2
<1>10. NothingIsAhead'
  BY <1>2, <1>7, <1>8, <1>9 DEF OrderInv, OrderParts, NothingIsAhead, RowsUpTo, Files
<1>11. ASSUME NEW q \in Prefix, next'[q] # NoStream PROVE upTo'[q] < next'[q]
  <2>1. CASE q = p
    BY <1>4, <1>5, <2>1, OrderTypes
  <2>2. CASE q # p
    BY <1>1, <1>2, <1>5, <1>11, <2>2, OrderTypes DEF OrderInv, OrderParts, StreamsAreAhead
  <2> QED BY <2>1, <2>2
<1>12. ReadsAreAhead' /\ StreamsAreAhead'
  BY <1>2, <1>11 DEF OrderInv, OrderParts, ReadsAreAhead, StreamsAreAhead
<1>13. WritesAreBehind'
  <2>1. ASSUME NEW f \in Files, Behind(f.upTo, upTo) PROVE Behind(f.upTo, upTo')
    BY <1>5, <1>7, <2>1, OrderTypes, FileTypes DEF Behind
  <2>2. ASSUME NEW f \in pending PROVE Behind(f.upTo, upTo') /\ f.rev <= revision'
    <3>1. f \in Files /\ Behind(f.upTo, upTo) /\ f.rev <= revision
      BY <1>2, OrderTypes DEF OrderInv, OrderParts, WritesAreBehind, Resynced, Watching
    <3> QED BY <1>8, <2>1, <3>1, OrderTypes, FileTypes
  <2>3. CacheEnabled /\ disk # NoFile => Behind(disk.upTo, upTo')
    BY <1>2, <2>1, OrderTypes DEF OrderInv, OrderParts, WritesAreBehind, Watching
  <2>4. committed <= revision'
    <3>1. committed <= revision
      BY <1>2 DEF OrderInv, OrderParts, WritesAreBehind, Resynced, Watching
    <3> QED BY <1>8, <3>1, OrderTypes
  <2> QED BY <1>2, <2>2, <2>3, <2>4 DEF WritesAreBehind, Behind
<1> QED BY <1>2, <1>10, <1>12, <1>13 DEF OrderInv, OrderParts, WritesAreOrdered, Behind
\* A write that is dropped is below the file; one that is not is at or above it.
LEMMA CacheOrders ==
    ASSUME OrderInv, NEW w \in pending, CommitWrite(w) \/ WriteFails(w)
    PROVE  OrderParts'
<1>1. /\ UNCHANGED <<writes, phase, state, revision, readRev, next, upTo>>
      /\ pending' = pending \ {w}
      /\ \/ UNCHANGED <<disk, committed>>
         \/ ~(w.rev < committed) /\ disk' = w /\ committed' = w.rev
  BY DEF CommitWrite, WriteFails
<1>2. Files' \subseteq Files
  BY <1>1 DEF Files
<1>3. /\ w \in Files /\ w.rev \in Nat /\ w.rev <= Len(writes)
      /\ Behind(w.upTo, upTo) /\ (Resynced => w.rev <= revision)
      /\ phase # "off" /\ CacheEnabled
  BY OrderTypes, FileTypes
     DEF OrderInv, OrderParts, NothingIsAhead, FileUpTo, WritesAreBehind, WritesAreOrdered,
         Inv, OffIsForgotten
<1>4. NothingIsAhead'
  BY <1>1, <1>2, <1>3 DEF OrderInv, OrderParts, NothingIsAhead, RowsUpTo, FileUpTo
<1>5. ReadsAreAhead' /\ StreamsAreAhead'
  BY <1>1 DEF OrderInv, OrderParts, ReadsAreAhead, StreamsAreAhead, Watching
<1>6. WritesAreBehind'
  BY <1>1, <1>3 DEF OrderInv, OrderParts, WritesAreBehind, Resynced, Behind
<1>7. WritesAreOrdered'
  <2>1. CASE UNCHANGED <<disk, committed>>
    BY <1>1, <2>1 DEF OrderInv, OrderParts, WritesAreOrdered, Behind
  <2>2. CASE disk' = w /\ committed' = w.rev
    BY <1>1, <1>3, <2>2 DEF OrderInv, OrderParts, WritesAreOrdered, Behind
  <2> QED BY <1>1, <2>1, <2>2
<1> QED BY <1>4, <1>5, <1>6, <1>7 DEF OrderParts

\* A cycle that starts has read nothing and watches nothing.
LEMMA NewCycleOrders ==
    ASSUME NewCycle, phase' \in {"reading", "off"}
    PROVE  ReadsAreAhead' /\ StreamsAreAhead'
BY DEF NewCycle, ReadsAreAhead, StreamsAreAhead, Watching, Unread, Refused

\* The first write of a process that starts from a file holds what it holds.
LEMMA RestoreOrders ==
    ASSUME OrderInv, Boot, CacheEnabled, disk # NoFile
    PROVE  OrderParts'
<1>1. /\ UNCHANGED <<writes, disk, committed>> /\ phase = "off" /\ phase' = "reading"
      /\ NewCycle /\ RestoreFromCache(build')
  BY DEF Boot
<1>2. pending = {}
  BY <1>1 DEF OrderInv, Inv, OffIsForgotten
<1> DEFINE pins == ResyncPins(disk.entries, disk.stale, NoneServed, NoRows, build')
           snap == ResyncSnapshot(disk.entries, pins, build')
<1>3. PICK highest \in RowRevisions(disk.entries) \union {0} :
         Flush(disk.entries, pins, highest, snap, disk.upTo)
  BY <1>1 DEF RestoreFromCache
<1> DEFINE n == Spawned(disk.entries, pins, highest, snap, disk.upTo)
<1>4. /\ pending' \subseteq {n} /\ Files' \subseteq Files \union {n}
      /\ n.entries = disk.entries /\ n.rev = highest /\ n.upTo = disk.upTo
  BY <1>1, <1>2, <1>3, FlushFiles DEF Flush
<1>. HIDE DEF n
<1>5. /\ state' = disk.entries /\ revision' = disk.rev /\ upTo' = disk.upTo
  BY <1>1 DEF RestoreFromCache
<1>6. disk \in Files /\ FileUpTo(disk, Len(writes))
  BY OrderTypes DEF OrderInv, OrderParts, NothingIsAhead
<1>7. highest <= Len(writes)
  BY <1>3, <1>6, OrderTypes DEF RowRevisions, FileUpTo, RowsUpTo
<1>8. NothingIsAhead'
  BY <1>1, <1>4, <1>5, <1>6, <1>7 DEF OrderInv, OrderParts, NothingIsAhead, FileUpTo, RowsUpTo
<1>9. ReadsAreAhead' /\ StreamsAreAhead'
  BY <1>1, NewCycleOrders
<1>10. Behind(disk.upTo, disk.upTo)
  BY <1>6, FileTypes DEF Behind
<1>11. WritesAreBehind' /\ WritesAreOrdered'
  <2>1. \A f, g \in pending' : f.rev < g.rev => Behind(f.upTo, g.upTo)
    BY <1>4, <1>10
  <2>2. \A f \in pending' : f.upTo = disk.upTo
    BY <1>4
  <2> QED BY <1>1, <1>5, <1>10, <2>1, <2>2
          DEF OrderInv, OrderParts, WritesAreBehind, WritesAreOrdered, Resynced, Behind
<1> QED BY <1>8, <1>9, <1>11 DEF OrderParts

LEMMA StopOrders ==
    ASSUME OrderInv, Drained \/ Crash
    PROVE  OrderParts'
<1>1. /\ UNCHANGED <<writes, disk>> /\ NewCycle /\ phase' = "off" /\ pending' = {}
      /\ state' = NoRows /\ revision' = 0 /\ committed' = -1
      /\ upTo' = [p \in Prefix |-> 0]
  BY DEF Drained, Crash, Forget
<1>2. Files' \subseteq Files /\ Len(writes) \in Nat
  BY <1>1, OrderTypes DEF Files
<1>3. NothingIsAhead'
  BY <1>1, <1>2 DEF OrderInv, OrderParts, NothingIsAhead, FileUpTo, RowsUpTo, NoRows
<1>4. WritesAreBehind' /\ WritesAreOrdered'
  BY <1>1 DEF WritesAreBehind, WritesAreOrdered, Resynced
<1> QED BY <1>1, <1>3, <1>4, NewCycleOrders DEF OrderParts

LEMMA CycleOrders ==
    ASSUME OrderInv, EndCycle \/ (Boot /\ ~(CacheEnabled /\ disk # NoFile))
    PROVE  OrderParts'
<1>1. /\ UNCHANGED <<writes, state, revision, pending, disk, committed, upTo>>
      /\ NewCycle /\ phase' = "reading"
      /\ phase = "off" => ~(CacheEnabled /\ disk # NoFile)
  BY DEF EndCycle, Boot
<1>2. NothingIsAhead'
  BY <1>1 DEF OrderInv, OrderParts, NothingIsAhead, RowsUpTo, Files
<1>3. WritesAreBehind' /\ WritesAreOrdered'
  BY <1>1 DEF OrderInv, OrderParts, WritesAreBehind, WritesAreOrdered, Resynced
<1> QED BY <1>1, <1>2, <1>3, NewCycleOrders DEF OrderParts

LEMMA StepOrders ==
    ASSUME OrderInv, [Next]_vars
    PROVE  OrderParts'
<1>1. ASSUME UNCHANGED vars PROVE OrderParts'
  BY <1>1, IdleOrders DEF vars, Watching, Resynced
<1>2. ASSUME NEW k \in Key, NEW v \in Val \union {Absent}, Write(k, v) PROVE OrderParts'
  BY <1>2, WriteOrders
<1>3. ASSUME NEW p \in Prefix, ReadPrefix(p) \/ ReadRefused(p) PROVE OrderParts'
  BY <1>3, ReadOrders
<1>4. ASSUME NEW p \in Prefix, StageEvent(p) PROVE OrderParts'
  BY <1>4, StageEventOrders
<1>5. ASSUME Publish \/ Cancel PROVE OrderParts'
  BY <1>5, IdleOrders DEF Publish, Cancel, Watching, Resynced
<1>6. ASSUME NEW w \in pending, CommitWrite(w) \/ WriteFails(w) PROVE OrderParts'
  BY <1>6, CacheOrders
<1>7. ASSUME EndCycle \/ Boot \/ Drained \/ Crash PROVE OrderParts'
  BY <1>7, RestoreOrders, CycleOrders, StopOrders
<1> QED BY <1>1, <1>2, <1>3, <1>4, <1>5, <1>6, <1>7, ApplyLoadOrders, ReportOrders,
           OpenWatchesOrders DEF Next, SupervisorStep

LEMMA InitOrders == Init => OrderParts
<1>. SUFFICES ASSUME Init PROVE OrderParts
  OBVIOUS
<1>1. /\ writes = <<>> /\ Len(writes) = 0
      /\ state = NoRows /\ revision = 0 /\ committed = -1 /\ upTo = [p \in Prefix |-> 0]
      /\ pending = {} /\ disk = NoFile /\ phase = "off"
      /\ readRev = [p \in Prefix |-> Unread]
  BY DEF Init
<1>2. NothingIsAhead
  BY <1>1 DEF NothingIsAhead, RowsUpTo, NoRows, Files
<1> QED BY <1>1, <1>2 DEF OrderParts, ReadsAreAhead, StreamsAreAhead, Watching, WritesAreBehind,
           Resynced, WritesAreOrdered, Unread, Refused

LEMMA OrderInvariance == Spec /\ EnvironmentIsRead => []OrderInv
<1>1. OrderInv /\ Inv' /\ ReadInv' /\ [Next]_vars => OrderInv'
  BY StepOrders DEF OrderInv, EnvironmentIsRead
<1> QED BY <1>1, InitOrders, Invariance, ReadInvariance, PTL DEF Spec, OrderInv

\* Over any number of prefixes, the file never goes back for any of them, over
\* refusals, restarts and restored files, while its revision goes forward: a
\* write of a lower revision never replaces it, and one of a higher revision
\* holds, prefix by prefix, all that it held.
THEOREM CacheNeverBackwards == Spec /\ EnvironmentIsRead => CacheNeverRollsBack
<1>1. ASSUME OrderInv, [Next]_vars, RollsBack PROVE disk'.rev = disk.rev
  <2>1. disk # NoFile /\ disk' # disk
    <3>1. disk # NoFile /\ \E p \in Prefix : disk'.upTo[p] < disk.upTo[p]
      BY <1>1 DEF RollsBack
    <3>2. \A p \in Prefix : disk.upTo[p] \in Nat
      BY <1>1, <3>1, OrderTypes, FileTypes
    <3> QED BY <3>1, <3>2
  <2>2. PICK w \in pending : ~(w.rev < committed) /\ disk' = w
    BY <1>1, <2>1 DEF Next, SupervisorStep, vars, Write, ReadPrefix, ReadRefused, ApplyLoad,
                      ReportLoad, OpenWatches, StageEvent, Publish, ReportBatch, EndCycle,
                      CommitWrite, WriteFails, Boot, Cancel, Drained, Crash
  <2>3. w.rev \in Nat /\ \A p \in Prefix : w.upTo[p] \in Nat /\ disk.upTo[p] \in Nat
    BY <1>1, <2>1, OrderTypes, FileTypes
  <2>4. ~(committed < w.rev)
    BY <1>1, <2>1, <2>2, <2>3 DEF RollsBack, Behind, OrderInv, OrderParts, WritesAreOrdered
  <2>5. w.rev = committed /\ committed # -1
    BY <1>1, <2>2, <2>3, <2>4, OrderTypes
  <2> QED BY <1>1, <2>2, <2>5 DEF OrderInv, OrderParts, WritesAreOrdered
<1>2. OrderInv /\ [Next]_vars => [RollsBack => disk'.rev = disk.rev]_disk
  BY <1>1
<1> QED BY <1>2, OrderInvariance, PTL DEF Spec, CacheNeverRollsBack
-----------------------------------------------------------------------------
(* What the last write leaves.                                             *)

\* All that was applied has been handed to a write.
AtRest ==
    \/ phase \in {"reading", "opening", "watching", "draining"}
    \/ phase \in {"staging", "published"} /\ ~dirty

Holds(f) == f.entries = state /\ f.stale = stale /\ f.served = Effective

\* A write in flight holds what is served and will be the last to take effect,
\* or the file holds it and no write in flight will replace it.
LastIsKept ==
    \/ \E f \in pending : /\ Holds(f) /\ committed <= f.rev
                          /\ \A v \in pending \ {f} : v.rev < f.rev
    \/ /\ committed >= 0 /\ Holds(disk)
       /\ \A v \in pending : v.rev < committed

LastWriteWins ==
    AtRest /\ ~lost /\ ~tied /\ (pending # {} \/ committed >= 0) => LastIsKept

DrainInv == OrderInv /\ LastWriteWins

\* Steps that leave what is served and the cache alone.
LEMMA RestsOn ==
    ASSUME DrainInv, UNCHANGED <<state, stale, pending, disk, committed, lost, tied>>,
           Effective' = Effective, AtRest' => AtRest
    PROVE  LastWriteWins'
<1>1. LastIsKept => LastIsKept'
  BY DEF LastIsKept, Holds
<1> QED BY <1>1 DEF DrainInv, LastWriteWins

\* A write that no other ties with is the last.
LEMMA FlushIsLast ==
    ASSUME DrainInv, NEW entries, NEW pins, NEW rev \in Nat, NEW snap, NEW seen,
           Flush(entries, pins, rev, snap, seen), UNCHANGED committed,
           \A f \in pending : f.rev <= rev, committed <= rev,
           entries = state', pins = stale', snap = Effective'
    PROVE  LastWriteWins'
<1>. SUFFICES ASSUME ~tied', pending' # {} \/ committed >= 0 PROVE LastIsKept'
  BY DEF LastWriteWins
<1>1. CacheEnabled
  <2>. SUFFICES ASSUME ~CacheEnabled PROVE FALSE
    OBVIOUS
  <2>1. pending' = pending
    BY DEF Flush
  <2>2. pending = {} /\ committed = -1
    BY DEF DrainInv, OrderInv, OrderParts, WritesAreOrdered
  <2> QED BY <2>1, <2>2
<1> DEFINE n == Spawned(entries, pins, rev, snap, seen)
<1>2. /\ n.rev = rev /\ n.entries = entries /\ n.stale = pins /\ n.served = snap
      /\ pending' = pending \union {n}
      /\ \A v \in pending : v.rev # rev
  BY <1>1 DEF Flush
<1>. HIDE DEF n
<1>3. \A v \in pending : v.rev < rev
  <2>1. \A v \in pending : v.rev \in Nat
    BY OrderTypes, FileTypes DEF DrainInv
  <2> QED BY <1>2, <2>1
<1>4. Holds(n)'
  BY <1>2 DEF Holds
<1> QED BY <1>2, <1>3, <1>4 DEF LastIsKept

LEMMA ReportRests ==
    ASSUME DrainInv, ReportLoad \/ ReportBatch
    PROVE  LastWriteWins'
<1>1. /\ UNCHANGED <<state, stale, snapshot, revision, staged, disk, committed, lost>>
      /\ phase \in {"loaded", "published"}
  BY DEF ReportLoad, ReportBatch
<1>2. Effective' = Effective /\ Effective = snapshot
  <2>1. Effective' = Effective
    BY <1>1 DEF Effective
  <2> QED BY <1>1, <2>1, QuietEffective DEF DrainInv, OrderInv, Inv
<1>3. CASE Flush(state, stale, revision, snapshot, upTo)
  <2>1. committed <= revision /\ \A f \in pending : f.rev <= revision
    BY <1>1 DEF DrainInv, OrderInv, OrderParts, WritesAreBehind, Resynced
  <2>2. revision \in Nat
    BY OrderTypes DEF DrainInv
  <2> QED BY <1>1, <1>2, <1>3, <2>1, <2>2, FlushIsLast
<1>4. CASE ReportBatch /\ ~dirty
  <2>1. UNCHANGED <<pending, tied>> /\ AtRest
    BY <1>4 DEF ReportBatch, AtRest
  <2> QED BY <1>1, <1>2, <2>1, RestsOn
<1> QED BY <1>3, <1>4 DEF ReportLoad, ReportBatch

\* An event that leaves nothing to save changes nothing that is saved.
LEMMA CleanEvent ==
    ASSUME Inv, NEW p \in Prefix, StageEvent(p), ~dirty'
    PROVE  ~dirty /\ UNCHANGED <<state, stale>> /\ Effective' = Effective
<1>1. PICK i \in 1 .. Len(writes), k \in Key :
         \/ StageDelete(k, i)
         \/ \E row \in Row : StageAccepted(k, row) \/ StageRejected(k, row)
  BY StageEventCases DEF Inv
<1>2. StageDelete(k, i)
  BY <1>1 DEF StageAccepted, StageRejected
<1>3. ~Present(k) /\ state[k] = NoRow /\ dirty' = dirty
  BY <1>2 DEF StageDelete
<1>4. stale[k] = NoRow
  BY <1>3 DEF Inv, ServedIsExplained, Explained
<1>5. state' = [state EXCEPT ![k] = NoRow] /\ stale' = [stale EXCEPT ![k] = NoRow]
      /\ staged' = staged /\ snapshot' = snapshot
  BY <1>2, <1>3 DEF StageDelete, Unpin, StageEvent
<1>6. state' = state /\ stale' = stale
  BY <1>3, <1>4, <1>5 DEF Inv, TypeOK
<1> QED BY <1>3, <1>5, <1>6 DEF Effective

LEMMA StageEventRests ==
    ASSUME DrainInv, NEW p \in Prefix, StageEvent(p)
    PROVE  LastWriteWins'
<1>1. phase \in {"watching", "staging"} /\ phase' = "staging"
      /\ UNCHANGED <<pending, disk, committed, lost, tied>>
  BY DEF StageEvent
<1>2. CASE dirty'
  BY <1>1, <1>2 DEF LastWriteWins, AtRest
<1>3. CASE ~dirty'
  <2>1. ~dirty /\ UNCHANGED <<state, stale>> /\ Effective' = Effective
    BY <1>3, CleanEvent DEF DrainInv, OrderInv
  <2>2. AtRest
    BY <1>1, <2>1 DEF AtRest
  <2> QED BY <1>1, <2>1, <2>2, RestsOn
<1> QED BY <1>2, <1>3

\* Whichever write takes the lock first, the last one spawned stands.
LEMMA CommitRests ==
    ASSUME DrainInv, NEW w \in pending, CommitWrite(w)
    PROVE  LastWriteWins'
<1>1. /\ UNCHANGED <<phase, state, stale, snapshot, staged, dirty, lost, tied>>
      /\ pending' = pending \ {w}
      /\ \/ w.rev < committed /\ UNCHANGED <<disk, committed>>
         \/ ~(w.rev < committed) /\ disk' = w /\ committed' = w.rev
  BY DEF CommitWrite
<1>2. committed \in Int /\ \A v \in pending : v.rev \in Nat
  BY OrderTypes, FileTypes DEF DrainInv
<1>3. \A f : Holds(f)' <=> f.entries = state /\ f.stale = stale /\ f.served = Effective
  BY <1>1 DEF Holds, Effective
<1>. SUFFICES ASSUME AtRest, ~lost, ~tied PROVE LastIsKept'
  BY <1>1 DEF LastWriteWins, AtRest
<1>4. LastIsKept
  BY DEF DrainInv, LastWriteWins
<1>5. CASE \E f \in pending : /\ Holds(f) /\ committed <= f.rev
                              /\ \A v \in pending \ {f} : v.rev < f.rev
  <2>1. PICK f \in pending : /\ Holds(f) /\ committed <= f.rev
                             /\ \A v \in pending \ {f} : v.rev < f.rev
    BY <1>5
  <2>2. CASE w = f
    <3>1. disk' = f /\ committed' = f.rev /\ f.rev >= 0
      BY <1>1, <1>2, <2>1, <2>2
    <3>2. Holds(disk)'
      BY <1>3, <2>1, <3>1 DEF Holds
    <3> QED BY <1>1, <2>1, <2>2, <3>1, <3>2 DEF LastIsKept
  <2>3. CASE w # f
    <3>1. f \in pending' /\ committed' <= f.rev
      BY <1>1, <1>2, <2>1, <2>3
    <3>2. Holds(f)'
      BY <1>3, <2>1 DEF Holds
    <3> QED BY <1>1, <2>1, <3>1, <3>2 DEF LastIsKept
  <2> QED BY <2>2, <2>3
<1>6. CASE committed >= 0 /\ Holds(disk) /\ \A v \in pending : v.rev < committed
  <2>1. w.rev < committed /\ UNCHANGED <<disk, committed>>
    BY <1>1, <1>6
  <2>2. Holds(disk)'
    BY <1>3, <1>6, <2>1 DEF Holds
  <2> QED BY <1>1, <1>6, <2>1, <2>2 DEF LastIsKept
<1> QED BY <1>4, <1>5, <1>6 DEF LastIsKept

LEMMA BootRests ==
    ASSUME DrainInv, Boot, TypeOK', Inv'
    PROVE  LastWriteWins'
<1>1. /\ phase = "off" /\ phase' = "reading" /\ UNCHANGED <<committed, disk>>
      /\ pending = {} /\ committed = -1
  BY DEF Boot, DrainInv, OrderInv, Inv, OffIsForgotten, OrderParts, WritesAreOrdered
<1>2. CASE ~(CacheEnabled /\ disk # NoFile)
  <2>1. pending' = {} /\ ~(committed' >= 0)
    BY <1>1, <1>2 DEF Boot
  <2> QED BY <2>1 DEF LastWriteWins
<1>3. CASE CacheEnabled /\ disk # NoFile
  <2> DEFINE pins == ResyncPins(disk.entries, disk.stale, NoneServed, NoRows, build')
             snap == ResyncSnapshot(disk.entries, pins, build')
  <2>1. PICK highest \in RowRevisions(disk.entries) \union {0} :
           /\ stale' = pins /\ snapshot' = snap /\ state' = disk.entries
           /\ Flush(disk.entries, pins, highest, snap, disk.upTo)
    BY <1>3 DEF Boot, RestoreFromCache
  <2>. HIDE DEF pins, snap
  <2>2. Effective' = snapshot'
    BY <1>1 DEF Inv, TypeOK, BatchIsStaged, Effective
  <2>3. highest \in Nat
    <3>1. disk.entries \in [Key -> Row \union {NoRow}]
      BY <1>3, DiskType, OrderTypes DEF DrainInv
    <3> QED BY <2>1, <3>1, RowType DEF RowRevisions
  <2> QED BY <1>1, <2>1, <2>2, <2>3, FlushIsLast
<1> QED BY <1>2, <1>3

LEMMA StepRests ==
    ASSUME DrainInv, OrderInv', [Next]_vars
    PROVE  LastWriteWins'
<1>1. ASSUME UNCHANGED vars PROVE LastWriteWins'
  BY <1>1, RestsOn DEF vars, Effective, AtRest
<1>2. ASSUME NEW k \in Key, NEW v \in Val \union {Absent}, Write(k, v) PROVE LastWriteWins'
  BY <1>2, RestsOn DEF Write, Effective, AtRest
<1>3. ASSUME NEW p \in Prefix, ReadPrefix(p) \/ ReadRefused(p) PROVE LastWriteWins'
  BY <1>3, RestsOn DEF ReadPrefix, ReadRefused, Effective, AtRest
<1>4. ASSUME ApplyLoad PROVE LastWriteWins'
  BY <1>4 DEF ApplyLoad, LastWriteWins, AtRest
<1>5. ASSUME OpenWatches \/ Cancel \/ EndCycle PROVE LastWriteWins'
  BY <1>5, RestsOn DEF OpenWatches, Cancel, EndCycle, Effective, AtRest
<1>6. ASSUME NEW p \in Prefix, StageEvent(p) PROVE LastWriteWins'
  BY <1>6, StageEventRests
<1>7. ASSUME Publish PROVE LastWriteWins'
  <2>1. Effective' = Effective
    BY <1>7, OrderTypes DEF Publish, Effective, TypeOK, DrainInv
  <2> QED BY <1>7, <2>1, RestsOn DEF Publish, AtRest
<1>8. ASSUME NEW w \in pending, WriteFails(w) PROVE LastWriteWins'
  BY <1>8 DEF WriteFails, LastWriteWins
<1>9. ASSUME Boot PROVE LastWriteWins'
  BY <1>9, BootRests DEF OrderInv, Inv
<1>10. ASSUME Drained \/ Crash PROVE LastWriteWins'
  BY <1>10 DEF Drained, Crash, LastWriteWins, AtRest
<1> QED BY <1>1, <1>2, <1>3, <1>4, <1>5, <1>6, <1>7, <1>8, <1>9, <1>10, CommitRests, ReportRests
        DEF Next, SupervisorStep

\* Once the drain has seen every write end, the file is what the gateway was
\* serving, whatever order the writes took the lock in, unless one failed or
\* the last one raced another of its own revision.
THEOREM DrainLeavesCurrent == Spec /\ EnvironmentIsRead => []DrainedCacheIsCurrent
<1>1. Init => LastWriteWins
  BY DEF Init, LastWriteWins, AtRest
<1>2. DrainInv /\ OrderInv' /\ [Next]_vars => DrainInv'
  BY StepRests DEF DrainInv
<1>3. DrainInv => DrainedCacheIsCurrent
  <2>. SUFFICES ASSUME DrainInv, phase = "draining", pending = {}, committed >= 0, ~lost, ~tied
                PROVE  disk.entries = state /\ disk.stale = stale /\ disk.served = snapshot
    BY DEF DrainedCacheIsCurrent
  <2>1. Holds(disk)
    BY DEF DrainInv, LastWriteWins, AtRest, LastIsKept
  <2>2. Effective = snapshot
    BY QuietEffective DEF DrainInv, OrderInv, Inv
  <2> QED BY <2>1, <2>2 DEF Holds
<1> QED BY <1>1, <1>2, <1>3, OrderInvariance, PTL DEF Spec, DrainInv
=============================================================================
