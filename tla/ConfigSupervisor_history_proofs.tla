------------------- MODULE ConfigSupervisor_history_proofs -------------------
(***************************************************************************)
(* Proofs about ConfigSupervisor that relate what the supervisor holds to  *)
(* the history of writes etcd has accepted: which revision a read, a watch *)
(* or a file contains every change up to.                                  *)
(***************************************************************************)
EXTENDS ConfigSupervisor_proofs

USE DEF etcdVars, servingVars, statusVars, cycleVars, batchVars, cacheVars, WatchFrom, Spawned

-----------------------------------------------------------------------------
(* The row of a key as of a revision, in any history of writes.            *)

LastPutIn(h, i, k, r) ==
    /\ h[i].key = k
    /\ h[i].val # Absent
    /\ \A j \in i + 1 .. r : h[j].key # k

RowIn(h, k, r) ==
    IF \E i \in 1 .. r : LastPutIn(h, i, k, r)
    THEN LET i == CHOOSE i \in 1 .. r : LastPutIn(h, i, k, r)
         IN  [val |-> h[i].val, rev |-> i]
    ELSE NoRow

LEMMA RowAtIn == \A k, r : RowAt(k, r) = RowIn(writes, k, r)
BY DEF RowAt, RowIn, IsLastPut, LastPutIn

\* The last put decides: no other write is one.
LEMMA RowInPut ==
    ASSUME NEW h \in Seq(Change), NEW k \in Key, NEW r \in 0 .. Len(h),
           NEW i \in 1 .. r, LastPutIn(h, i, k, r)
    PROVE  RowIn(h, k, r) = [val |-> h[i].val, rev |-> i]
<1> DEFINE c == CHOOSE j \in 1 .. r : LastPutIn(h, j, k, r)
<1>1. c \in 1 .. r /\ LastPutIn(h, c, k, r)
  OBVIOUS
<1>2. RowIn(h, k, r) = [val |-> h[c].val, rev |-> c]
  BY DEF RowIn
<1>. HIDE DEF c
<1>3. c = i
  BY <1>1 DEF LastPutIn
<1> QED BY <1>2, <1>3

LEMMA RowInNone ==
    ASSUME NEW h, NEW k, NEW r, \A i \in 1 .. r : ~LastPutIn(h, i, k, r)
    PROVE  RowIn(h, k, r) = NoRow
BY DEF RowIn

\* A row is a write of its key, and the key is not written again up to r.
LEMMA RowInRow ==
    ASSUME NEW h \in Seq(Change), NEW k \in Key, NEW r \in 0 .. Len(h),
           RowIn(h, k, r) # NoRow
    PROVE  LET row == RowIn(h, k, r) IN
           /\ row \in Row
           /\ row.rev \in 1 .. r
           /\ LastPutIn(h, row.rev, k, r)
           /\ h[row.rev].val = row.val
<1>1. PICK i \in 1 .. r : LastPutIn(h, i, k, r)
  BY RowInNone
<1>2. RowIn(h, k, r) = [val |-> h[i].val, rev |-> i]
  BY <1>1, RowInPut
<1>3. h[i] \in Change /\ i \in Nat \ {0}
  OBVIOUS
<1>4. h[i].val \in Val
  BY <1>1, <1>3 DEF LastPutIn, Change
<1> QED BY <1>1, <1>2, <1>3, <1>4 DEF Row

\* A row is never NoRow.
LEMMA PutIsRow ==
    ASSUME NEW h \in Seq(Change), NEW i \in 1 .. Len(h), h[i].val # Absent
    PROVE  [val |-> h[i].val, rev |-> i] # NoRow
<1>1. h[i] \in Change /\ i \in Nat \ {0}
  OBVIOUS
<1> QED BY <1>1, SupervisorAssumption DEF SupervisorAssumption, Row, Change

\* Without a write of k between a and b its row is the same as of both.
LEMMA RowInSkip ==
    ASSUME NEW h \in Seq(Change), NEW k \in Key,
           NEW a \in Nat, NEW b \in Nat, a <= b, b <= Len(h),
           \A j \in a + 1 .. b : h[j].key # k
    PROVE  RowIn(h, k, a) = RowIn(h, k, b)
<1>1. CASE \E i \in 1 .. a : LastPutIn(h, i, k, a)
  <2>1. PICK i \in 1 .. a : LastPutIn(h, i, k, a)
    BY <1>1
  <2>2. i \in 1 .. b /\ LastPutIn(h, i, k, b)
    BY <2>1 DEF LastPutIn
  <2>3. a \in 0 .. Len(h) /\ b \in 0 .. Len(h)
    OBVIOUS
  <2> QED BY <2>1, <2>2, <2>3, RowInPut
<1>2. CASE ~\E i \in 1 .. a : LastPutIn(h, i, k, a)
  <2>1. \A i \in 1 .. b : ~LastPutIn(h, i, k, b)
    BY <1>2 DEF LastPutIn
  <2> QED BY <1>2, <2>1, RowInNone
<1> QED BY <1>1, <1>2

\* One write later: the write of k itself, or what there was.
LEMMA RowInNext ==
    ASSUME NEW h \in Seq(Change), NEW k \in Key, NEW i \in 1 .. Len(h)
    PROVE  RowIn(h, k, i) =
              IF h[i].key # k THEN RowIn(h, k, i - 1)
              ELSE IF h[i].val = Absent THEN NoRow
              ELSE [val |-> h[i].val, rev |-> i]
<1>1. CASE h[i].key # k
  BY <1>1, RowInSkip
<1>2. CASE h[i].key = k /\ h[i].val = Absent
  <2>1. \A j \in 1 .. i : ~LastPutIn(h, j, k, i)
    BY <1>2 DEF LastPutIn
  <2> QED BY <1>2, <2>1, RowInNone
<1>3. CASE h[i].key = k /\ h[i].val # Absent
  <2>1. i \in 1 .. i /\ LastPutIn(h, i, k, i) /\ i \in 0 .. Len(h)
    BY <1>3 DEF LastPutIn
  <2> QED BY <1>3, <2>1, RowInPut
<1> QED BY <1>1, <1>2, <1>3

\* What etcd held as of a revision does not change as it is written to.
LEMMA RowInAppend ==
    ASSUME NEW h \in Seq(Change), NEW c \in Change, NEW k \in Key, NEW r \in 0 .. Len(h)
    PROVE  RowIn(Append(h, c), k, r) = RowIn(h, k, r)
<1> DEFINE g == Append(h, c)
<1>1. g \in Seq(Change) /\ r \in 0 .. Len(g) /\ \A j \in 1 .. r : g[j] = h[j]
  OBVIOUS
<1>. HIDE DEF g
<1>2. \A i \in 1 .. r : LastPutIn(g, i, k, r) <=> LastPutIn(h, i, k, r)
  BY <1>1 DEF LastPutIn
<1>3. ASSUME NEW i \in 1 .. r, LastPutIn(h, i, k, r)
      PROVE  RowIn(g, k, r) = RowIn(h, k, r)
  <2>1. LastPutIn(g, i, k, r) /\ g[i] = h[i]
    BY <1>1, <1>2, <1>3
  <2>2. RowIn(g, k, r) = [val |-> g[i].val, rev |-> i]
    BY <1>1, <2>1, RowInPut
  <2> QED BY <1>3, <2>1, <2>2, RowInPut
<1>4. ASSUME \A i \in 1 .. r : ~LastPutIn(h, i, k, r)
      PROVE  RowIn(g, k, r) = RowIn(h, k, r)
  <2>1. \A i \in 1 .. r : ~LastPutIn(g, i, k, r)
    BY <1>2, <1>4
  <2> QED BY <1>4, <2>1, RowInNone
<1>5. RowIn(g, k, r) = RowIn(h, k, r)
  BY <1>3, <1>4
<1> QED BY <1>5 DEF g

\* A write of k up to r is no later than its row as of r.
LEMMA RowInLatest ==
    ASSUME NEW h \in Seq(Change), NEW k \in Key, NEW r \in 0 .. Len(h),
           NEW i \in 1 .. r, h[i].key = k, RowIn(h, k, r) # NoRow
    PROVE  i <= RowIn(h, k, r).rev
BY RowInRow DEF LastPutIn, Row

-----------------------------------------------------------------------------
(* The reads of one cycle, and what a resync makes of them.                *)

LEMMA ReadRevType ==
    ASSUME TypeOK, NEW p \in Prefix
    PROVE  readRev[p] \in Nat \union {Unread, Refused}
<1>1. readRev \in [Prefix -> Nat \union {Unread, Refused}]
  BY DEF TypeOK
<1> QED BY <1>1

\* A write that is spawned adds one file, and changes none.
LEMMA FlushFiles ==
    ASSUME NEW entries, NEW pins, NEW rev, NEW snap, NEW seen,
           Flush(entries, pins, rev, snap, seen), UNCHANGED disk
    PROVE  Files' \subseteq Files \union {Spawned(entries, pins, rev, snap, seen)}
BY DEF Flush, Files

ReadsArePast == \A p \in Prefix : readRev[p] <= Len(writes)

\* The union holds, for each key, what one of the reads so far returned.
UnionIsRead ==
    \A k \in Key :
        \/ loaded[k] = NoRow /\ \A p \in Under[k] : readRev[p] < 0
        \/ \E p \in Under[k] : readRev[p] >= 0 /\ loaded[k] = RowIn(writes, k, readRev[p])

\* A resync applies the union, at a revision none of the reads is older than.
LoadIsUnion ==
    phase \in {"loaded", "opening"} =>
        /\ \A p \in Prefix : readRev[p] # Unread
        /\ \A p \in Prefix : readRev[p] # Refused => revision <= readRev[p]
        /\ \A k \in Key : (\E p \in Under[k] : readRev[p] # Refused) => state[k] = loaded[k]
        /\ phase = "opening" => reported = revision

ReadInv == ReadsArePast /\ UnionIsRead /\ LoadIsUnion

\* The reads are of the past whatever is written after them.
LEMMA LaterWrites ==
    ASSUME TypeOK, ReadInv, NEW c \in Change, writes' = Append(writes, c),
           UNCHANGED <<phase, readRev, loaded, state, revision, reported>>
    PROVE  ReadInv'
<1>1. writes \in Seq(Change) /\ Len(writes) \in Nat
  BY DEF TypeOK
<1>2. ReadsArePast'
  <2>1. Len(writes') = Len(writes) + 1
    BY <1>1
  <2> QED BY <1>1, <2>1, ReadRevType DEF ReadInv, ReadsArePast, Unread, Refused
<1>3. \A k \in Key, p \in Prefix :
         readRev[p] >= 0 => RowIn(writes', k, readRev[p]) = RowIn(writes, k, readRev[p])
  <2>. SUFFICES ASSUME NEW k \in Key, NEW p \in Prefix, readRev[p] >= 0
                PROVE  RowIn(writes', k, readRev[p]) = RowIn(writes, k, readRev[p])
    OBVIOUS
  <2>1. readRev[p] \in 0 .. Len(writes)
    BY <1>1, ReadRevType DEF ReadInv, ReadsArePast, Unread, Refused
  <2> QED BY <1>1, <2>1, RowInAppend
<1>4. UnionIsRead'
  BY <1>3, SupervisorAssumption DEF SupervisorAssumption, ReadInv, UnionIsRead
<1>5. LoadIsUnion'
  BY DEF ReadInv, LoadIsUnion
<1> QED BY <1>2, <1>4, <1>5 DEF ReadInv

LEMMA ReadsUnmoved ==
    ASSUME ReadInv, UNCHANGED <<writes, readRev, loaded>>,
           \/ phase' \notin {"loaded", "opening"}
           \/ UNCHANGED <<phase, state, revision, reported>>
    PROVE  ReadInv'
BY DEF ReadInv, ReadsArePast, UnionIsRead, LoadIsUnion

LEMMA ReadsStartAgain ==
    ASSUME TypeOK, NewCycle, UNCHANGED writes, phase' \notin {"loaded", "opening"}
    PROVE  ReadInv'
BY SupervisorAssumption
   DEF SupervisorAssumption, TypeOK, NewCycle, NoRows, Unread, ReadInv, ReadsArePast,
       UnionIsRead, LoadIsUnion

LEMMA ReadPrefixReads ==
    ASSUME TypeOK, ReadInv, NEW p \in Prefix, ReadPrefix(p)
    PROVE  ReadInv'
<1>1. /\ phase = "reading" /\ phase' = "reading" /\ writes' = writes
      /\ readRev[p] = Unread
      /\ readRev' = [readRev EXCEPT ![p] = Len(writes)]
      /\ Len(writes) \in Nat
  BY DEF ReadPrefix, IsNextRead, TypeOK
<1>2. ReadsArePast'
  BY <1>1 DEF TypeOK, ReadInv, ReadsArePast
<1>3. ASSUME NEW k \in Key
      PROVE  \/ loaded'[k] = NoRow /\ \A q \in Under[k] : readRev'[q] < 0
             \/ \E q \in Under[k] : readRev'[q] >= 0 /\ loaded'[k] = RowIn(writes, k, readRev'[q])
  <2>1. Under[k] \subseteq Prefix
    BY SupervisorAssumption DEF SupervisorAssumption
  <2>2. \A q \in Under[k] : q # p => readRev'[q] = readRev[q]
    BY <1>1, <2>1 DEF TypeOK
  <2>3. readRev'[p] = Len(writes)
    BY <1>1 DEF TypeOK
  <2>4. CASE p \notin Under[k]
    <3>1. loaded'[k] = loaded[k]
      BY <2>4 DEF ReadPrefix, KeysUnder
    <3> QED BY <2>2, <2>4, <3>1 DEF ReadInv, UnionIsRead
  <2>5. CASE p \in Under[k]
    <3>1. loaded'[k] = LaterRow(loaded[k], RowIn(writes, k, Len(writes)))
      BY <2>5, RowAtIn DEF ReadPrefix, KeysUnder
    <3>2. CASE loaded'[k] = RowIn(writes, k, Len(writes))
      BY <1>1, <2>3, <2>5, <3>2
    <3>3. CASE loaded'[k] = loaded[k] /\ loaded[k] # NoRow
      <4>1. PICK q \in Under[k] : readRev[q] >= 0 /\ loaded[k] = RowIn(writes, k, readRev[q])
        BY <3>3 DEF ReadInv, UnionIsRead
      <4>2. q # p
        BY <1>1, <4>1 DEF Unread
      <4> QED BY <2>2, <3>3, <4>1, <4>2
    <3> QED BY <3>1, <3>2, <3>3 DEF LaterRow
  <2> QED BY <2>4, <2>5
<1>4. UnionIsRead'
  BY <1>1, <1>3 DEF UnionIsRead
<1> QED BY <1>1, <1>2, <1>4 DEF ReadInv, LoadIsUnion

LEMMA ReadRefusedReads ==
    ASSUME TypeOK, ReadInv, NEW p \in Prefix, ReadRefused(p)
    PROVE  ReadInv'
<1>1. /\ phase' = "reading" /\ writes' = writes /\ loaded' = loaded
      /\ readRev[p] = Unread
      /\ readRev' = [readRev EXCEPT ![p] = Refused]
      /\ Len(writes) \in Nat
  BY DEF ReadRefused, IsNextRead, TypeOK
<1>2. \A q \in Prefix : q # p => readRev'[q] = readRev[q]
  BY <1>1 DEF TypeOK
<1>3. readRev'[p] = Refused
  BY <1>1 DEF TypeOK
<1>4. \A k \in Key : Under[k] \subseteq Prefix
  BY SupervisorAssumption DEF SupervisorAssumption
<1>5. ReadsArePast'
  BY <1>1, <1>2, <1>3 DEF ReadInv, ReadsArePast, Refused
<1>6. UnionIsRead'
  BY <1>1, <1>2, <1>3, <1>4 DEF ReadInv, UnionIsRead, Unread, Refused
<1> QED BY <1>1, <1>5, <1>6 DEF ReadInv, LoadIsUnion

LEMMA ApplyLoadReads ==
    ASSUME TypeOK, ReadInv, ApplyLoad
    PROVE  ReadInv'
<1>1. /\ phase' = "loaded" /\ UNCHANGED <<writes, readRev, loaded>>
      /\ \A p \in Prefix : readRev[p] # Unread
      /\ state' = UnionOfReads
  BY DEF ApplyLoad
<1>2. ASSUME NEW p \in Prefix, readRev[p] # Refused PROVE revision' <= readRev[p]
  <2>1. readRev[p] \in ReadRevisions
    BY <1>2 DEF ReadRevisions
  <2> QED BY <2>1 DEF ApplyLoad, IsAppliedRevision
<1>3. ASSUME NEW k \in Key, \E p \in Under[k] : readRev[p] # Refused
      PROVE  state'[k] = loaded[k]
  BY <1>1, <1>3 DEF UnionOfReads, Carried
<1>4. LoadIsUnion'
  BY <1>1, <1>2, <1>3 DEF LoadIsUnion
<1> QED BY <1>1, <1>4 DEF ReadInv, ReadsArePast, UnionIsRead

LEMMA ReportLoadReads ==
    ASSUME ReadInv, ReportLoad
    PROVE  ReadInv'
BY DEF ReadInv, ReportLoad, ReadsArePast, UnionIsRead, LoadIsUnion

LEMMA InitReads == Init => ReadInv
BY SupervisorAssumption
   DEF SupervisorAssumption, Init, NoRows, Unread, ReadInv, ReadsArePast, UnionIsRead, LoadIsUnion

LEMMA StepReads == TypeOK /\ ReadInv /\ [Next]_vars => ReadInv'
<1>. SUFFICES ASSUME TypeOK, ReadInv, [Next]_vars PROVE ReadInv'
  OBVIOUS
<1>1. ASSUME UNCHANGED vars PROVE ReadInv'
  BY <1>1, ReadsUnmoved DEF vars
<1>2. ASSUME NEW k \in Key, NEW v \in Val \union {Absent}, Write(k, v) PROVE ReadInv'
  <2>1. [key |-> k, val |-> v] \in Change
    BY DEF Change
  <2> QED BY <1>2, <2>1, LaterWrites DEF Write
<1>3. ASSUME NEW p \in Prefix, ReadPrefix(p) \/ ReadRefused(p) PROVE ReadInv'
  BY <1>3, ReadPrefixReads, ReadRefusedReads
<1>4. ASSUME ApplyLoad \/ ReportLoad PROVE ReadInv'
  BY <1>4, ApplyLoadReads, ReportLoadReads
<1>5. ASSUME OpenWatches \/ Publish \/ ReportBatch \/ Cancel PROVE ReadInv'
  BY <1>5, ReadsUnmoved DEF OpenWatches, Publish, ReportBatch, Cancel
<1>6. ASSUME NEW p \in Prefix, StageEvent(p) PROVE ReadInv'
  BY <1>6, ReadsUnmoved DEF StageEvent
<1>7. ASSUME NEW w \in pending, CommitWrite(w) \/ WriteFails(w) PROVE ReadInv'
  BY <1>7, ReadsUnmoved DEF CommitWrite, WriteFails
<1>8. ASSUME EndCycle \/ Boot \/ Drained \/ Crash PROVE ReadInv'
  BY <1>8, ReadsStartAgain DEF EndCycle, Boot, Drained, Crash, Forget
<1> QED BY <1>1, <1>2, <1>3, <1>4, <1>5, <1>6, <1>7, <1>8 DEF Next, SupervisorStep

LEMMA ReadInvariance == Spec => [](TypeOK /\ ReadInv)
<1>1. Init => TypeOK /\ ReadInv
  BY InitType, InitReads
<1>2. TypeOK /\ ReadInv /\ [Next]_vars => (TypeOK /\ ReadInv)'
  BY StepType, StepReads
<1> QED BY <1>1, <1>2, PTL DEF Spec

LEMMA LoadedRow ==
    ASSUME TypeOK, ReadInv, phase \in {"loaded", "opening"}, NEW k \in Key,
           \E p \in Under[k] : readRev[p] # Refused
    PROVE  \E p \in Under[k] : readRev[p] >= 0 /\ state[k] = RowIn(writes, k, readRev[p])
<1>1. PICK p \in Under[k] : readRev[p] # Refused
  OBVIOUS
<1>2. p \in Prefix
  BY SupervisorAssumption DEF SupervisorAssumption
<1>3. readRev[p] \in Nat
  BY <1>1, <1>2 DEF TypeOK, ReadInv, LoadIsUnion
<1>4. state[k] = loaded[k]
  BY <1>1 DEF ReadInv, LoadIsUnion
<1> QED BY <1>1, <1>3, <1>4 DEF ReadInv, UnionIsRead

\* Whatever is written while the prefixes are read in turn, and however they
\* nest, a resync applies for each key what one of its reads returned.
THEOREM LoadAlwaysMatches == Spec => []LoadMatchesReads
<1>1. ASSUME TypeOK, ReadInv, NEW k \in Key, phase = "loaded",
             {p \in Under[k] : readRev[p] # Refused} # {}
      PROVE  \E p \in {q \in Under[k] : readRev[q] # Refused} : state[k] = RowAt(k, readRev[p])
  <2>1. PICK p \in Under[k] : readRev[p] >= 0 /\ state[k] = RowIn(writes, k, readRev[p])
    BY <1>1, LoadedRow
  <2> QED BY <2>1, RowAtIn DEF Refused
<1>2. TypeOK /\ ReadInv => LoadMatchesReads
  BY <1>1 DEF LoadMatchesReads
<1> QED BY <1>2, ReadInvariance, PTL

\* The revision a completed read reports is one whose every write the gateway
\* holds, for every key of a prefix that was read.
THEOREM ReadsAlwaysHonest == Spec => []ReadRevisionIsHonest
<1>1. ASSUME TypeOK, ReadInv, phase = "opening", NEW k \in Key,
             \E p \in Under[k] : readRev[p] # Refused
      PROVE  \E now \in reported .. Len(writes) : state[k] = RowAt(k, now)
  <2>1. PICK p \in Under[k] : readRev[p] >= 0 /\ state[k] = RowIn(writes, k, readRev[p])
    BY <1>1, LoadedRow
  <2>2. p \in Prefix
    BY SupervisorAssumption DEF SupervisorAssumption
  <2>3. readRev[p] \in Int /\ readRev[p] # Refused
    BY <1>1, <2>1, <2>2 DEF TypeOK, Unread, Refused
  <2>4. reported \in Int /\ Len(writes) \in Int
    BY <1>1 DEF TypeOK
  <2>5. readRev[p] \in reported .. Len(writes)
    BY <1>1, <2>2, <2>3, <2>4 DEF ReadInv, ReadsArePast, LoadIsUnion
  <2> QED BY <2>1, <2>5, RowAtIn
<1>2. TypeOK /\ ReadInv => ReadRevisionIsHonest
  BY <1>1 DEF ReadRevisionIsHonest
<1> QED BY <1>2, ReadInvariance, PTL

-----------------------------------------------------------------------------
(* The watches of prefixes that do not overlap.                            *)

\* No key lies under two watched prefixes.
DisjointPrefixes == \A k \in Key : \A p, q \in Under[k] : p = q

WritesOf(h, rows) ==
    \A k \in Key : rows[k] # NoRow => rows[k].rev \in 1 .. Len(h) /\ h[rows[k].rev].key = k

\* Every row the supervisor holds, or a file, is of a write etcd accepted.
RowsAreWrites == WritesOf(writes, state) /\ \A f \in Files : WritesOf(writes, f.entries)

\* A read returns nothing older than what the supervisor held when it began.
ReadsAreLater ==
    phase = "reading" =>
        \A k \in Key : \A p \in Under[k] :
            readRev[p] >= 0 /\ state[k] # NoRow => state[k].rev <= readRev[p]

Watching == phase \in {"watching", "staging", "published"}

WatchedUpTo ==
    Watching =>
        \A k \in Key : \A p \in Under[k] :
            next[p] # NoStream =>
                next[p] - 1 <= Len(writes) /\ state[k] = RowIn(writes, k, next[p] - 1)

WatchInv ==
    /\ DisjointPrefixes
    /\ Inv /\ ReadInv
    /\ RowsAreWrites /\ ReadsAreLater /\ WatchedUpTo /\ PinDiesWithWatchedKey

LEMMA UnderType == ASSUME NEW k \in Key PROVE Under[k] \subseteq Prefix
BY SupervisorAssumption DEF SupervisorAssumption

LEMMA WritesOfAppend ==
    ASSUME NEW h \in Seq(Change), NEW c \in Change, NEW rows, WritesOf(h, rows)
    PROVE  WritesOf(Append(h, c), rows)
BY DEF WritesOf

\* What one watch event does to the observed row and the pin of its key.
LEMMA StagedEvent ==
    ASSUME TypeOK, NEW p \in Prefix, StageEvent(p)
    PROVE  \E i \in 1 .. Len(writes), k \in Key :
             /\ next[p] # NoStream /\ next[p] <= i /\ next' = [next EXCEPT ![p] = i + 1]
             /\ writes[i].key = k /\ p \in Under[k]
             /\ \A j \in next[p] .. i - 1 : p \notin Under[writes[j].key]
             /\ state' = [state EXCEPT ![k] = RowIn(writes, k, i)]
             /\ revision' = MaxOf(revision, i)
             /\ stamp' = MaxOf(stamp, i) \/ stamp' = stamp \/ stamp' = MaxOf(stamp, MaxOf(revision, i))
             /\ \A j \in Key : j # k => stale'[j] = stale[j]
             /\ stale'[k] = NoRow \/ stale'[k] = stale[k] \/ stale'[k] = state[k]
             /\ stale'[k] # NoRow => RowIn(writes, k, i) # NoRow
<1>1. PICK i \in Undelivered(p) :
         /\ \A j \in Undelivered(p) : i <= j
         /\ next' = [next EXCEPT ![p] = i + 1]
         /\ LET k == writes[i].key
                row == [val |-> writes[i].val, rev |-> i]
            IN  IF row.val = Absent
                THEN StageDelete(k, i)
                ELSE StageAccepted(k, row) \/ StageRejected(k, row)
  BY DEF StageEvent
<1>2. next[p] # NoStream /\ next[p] \in Nat
  BY DEF StageEvent, TypeOK
<1>3. i \in 1 .. Len(writes) /\ i \in Nat /\ next[p] <= i
  BY <1>2 DEF TypeOK, Undelivered, NoStream
<1> DEFINE k == writes[i].key
<1>4. k \in Key /\ p \in Under[k]
  BY <1>3 DEF TypeOK, Change, Undelivered, KeysUnder
<1>5. \A j \in next[p] .. i - 1 : p \notin Under[writes[j].key]
  <2>. SUFFICES ASSUME NEW j \in next[p] .. i - 1, p \in Under[writes[j].key] PROVE FALSE
    OBVIOUS
  <2>1. j \in next[p] .. Len(writes) /\ j \in 1 .. Len(writes) /\ j < i
    BY <1>2, <1>3 DEF TypeOK, NoStream
  <2>2. writes[j].key \in Key
    <3>1. writes[j] \in Change
      BY <2>1 DEF TypeOK
    <3> QED BY <3>1 DEF Change
  <2>3. j \in Undelivered(p)
    BY <2>1, <2>2 DEF Undelivered, KeysUnder
  <2> QED BY <1>1, <1>3, <2>1, <2>3
<1>6. RowIn(writes, k, i) = IF writes[i].val = Absent THEN NoRow
                            ELSE [val |-> writes[i].val, rev |-> i]
  BY <1>3, <1>4, RowInNext DEF TypeOK
<1>7. CASE writes[i].val = Absent
  <2>1. StageDelete(k, i)
    BY <1>1, <1>7
  <2>2. RowIn(writes, k, i) = NoRow
    BY <1>6, <1>7
  <2>. HIDE DEF k
  <2>3. /\ state' = [state EXCEPT ![k] = RowIn(writes, k, i)]
        /\ revision' = MaxOf(revision, i)
        /\ stamp' = MaxOf(stamp, i) \/ stamp' = MaxOf(stamp, MaxOf(revision, i))
        /\ stale' = [stale EXCEPT ![k] = NoRow]
    BY <2>1, <2>2 DEF StageDelete, Unpin
  <2>4. stale'[k] = NoRow /\ \A j \in Key : j # k => stale'[j] = stale[j]
    BY <2>3, <1>4 DEF TypeOK
  <2> QED BY <1>1, <1>2, <1>3, <1>4, <1>5, <2>3, <2>4 DEF k
<1>8. CASE writes[i].val # Absent
  <2> DEFINE row == [val |-> writes[i].val, rev |-> i]
  <2>1. StageAccepted(k, row) \/ StageRejected(k, row)
    BY <1>1, <1>8
  <2>2. RowIn(writes, k, i) = row /\ row # NoRow /\ row.rev = i
    BY <1>3, <1>6, <1>8, PutIsRow DEF TypeOK
  <2>. HIDE DEF k, row
  <2>3. /\ state' = [state EXCEPT ![k] = RowIn(writes, k, i)]
        /\ revision' = MaxOf(revision, i)
        /\ stamp' = MaxOf(stamp, i) \/ stamp' = stamp
    BY <2>1, <2>2 DEF StageAccepted, StageRejected
  <2>4. \/ stale' = [stale EXCEPT ![k] = NoRow]
        \/ stale' = stale
        \/ stale' = [stale EXCEPT ![k] = state[k]]
    BY <2>1 DEF StageAccepted, StageRejected, Unpin, CaptureLastGood
  <2>5. /\ stale'[k] = NoRow \/ stale'[k] = stale[k] \/ stale'[k] = state[k]
        /\ \A j \in Key : j # k => stale'[j] = stale[j]
    BY <2>4, <1>4 DEF TypeOK
  <2> QED BY <1>1, <1>2, <1>3, <1>4, <1>5, <2>2, <2>3, <2>5 DEF k
<1> QED BY <1>7, <1>8

\* The parts of WatchInv this module adds.
WatchParts == RowsAreWrites /\ ReadsAreLater /\ WatchedUpTo /\ PinDiesWithWatchedKey

LEMMA WriteWatched ==
    ASSUME WatchInv, NEW k \in Key, NEW v \in Val \union {Absent}, Write(k, v)
    PROVE  WatchParts'
<1> DEFINE c == [key |-> k, val |-> v]
<1>1. c \in Change /\ writes' = Append(writes, c) /\ writes \in Seq(Change)
  BY DEF Write, Change, WatchInv, Inv, TypeOK
<1>. HIDE DEF c
<1>2. UNCHANGED <<phase, state, stale, next, readRev, pending, disk>>
  BY DEF Write
<1>3. Len(writes') = Len(writes) + 1 /\ \A i \in 1 .. Len(writes) : writes'[i] = writes[i]
  BY <1>1
<1>4. RowsAreWrites'
  BY <1>1, <1>2, WritesOfAppend DEF WatchInv, RowsAreWrites, Files
<1>5. ReadsAreLater'
  BY <1>2 DEF WatchInv, ReadsAreLater
<1>6. WatchedUpTo'
  <2>. SUFFICES ASSUME Watching, NEW j \in Key, NEW p \in Under[j], next[p] # NoStream
                PROVE  next[p] - 1 <= Len(writes') /\ state[j] = RowIn(writes', j, next[p] - 1)
    BY <1>2 DEF WatchedUpTo, Watching
  <2>1. next[p] \in Nat /\ next[p] # 0
    BY UnderType DEF WatchInv, Inv, TypeOK, NoStream
  <2>2. next[p] - 1 <= Len(writes) /\ state[j] = RowIn(writes, j, next[p] - 1)
    BY DEF WatchInv, WatchedUpTo
  <2>3. next[p] - 1 \in 0 .. Len(writes)
    BY <1>1, <2>1, <2>2
  <2> QED BY <1>1, <1>3, <2>2, <2>3, RowInAppend
<1>7. PinDiesWithWatchedKey'
  <2>. SUFFICES ASSUME Watching, NEW j \in Key, NEW p \in Under[j], next[p] # NoStream,
                       stale[j] # NoRow
                PROVE  /\ state[j] # NoRow
                       /\ \A i \in stale[j].rev .. state[j].rev :
                            writes'[i].key = j /\ writes'[i].val = Absent => i <= readRev[p]
    BY <1>2 DEF PinDiesWithWatchedKey, Watching
  <2>1. /\ state[j] # NoRow
        /\ \A i \in stale[j].rev .. state[j].rev :
             writes[i].key = j /\ writes[i].val = Absent => i <= readRev[p]
    BY DEF WatchInv, PinDiesWithWatchedKey, Watching
  <2>2. state[j].rev \in 1 .. Len(writes)
    BY <2>1 DEF WatchInv, RowsAreWrites, WritesOf
  <2>3. stale[j].rev \in Nat \ {0}
    BY DEF WatchInv, Inv, TypeOK, Row
  <2>4. \A i \in stale[j].rev .. state[j].rev : i \in 1 .. Len(writes)
    BY <1>1, <2>2, <2>3
  <2> QED BY <1>3, <2>1, <2>4
<1> QED BY <1>4, <1>5, <1>6, <1>7 DEF WatchParts

\* Steps that move neither the rows, nor the reads, nor the watches.
LEMMA IdleWatched ==
    ASSUME WatchInv, UNCHANGED <<writes, state, stale, next, readRev>>, Files' \subseteq Files,
           phase' = "reading" => phase = "reading",
           Watching' => Watching
    PROVE  WatchParts'
<1>1. RowsAreWrites'
  BY DEF WatchInv, RowsAreWrites
<1>2. ReadsAreLater'
  BY DEF WatchInv, ReadsAreLater
<1>3. WatchedUpTo' /\ PinDiesWithWatchedKey'
  BY DEF WatchInv, WatchedUpTo, PinDiesWithWatchedKey, Watching
<1> QED BY <1>1, <1>2, <1>3 DEF WatchParts

LEMMA ReadWatched ==
    ASSUME WatchInv, NEW p \in Prefix, ReadPrefix(p) \/ ReadRefused(p)
    PROVE  WatchParts'
<1>1. /\ phase = "reading" /\ phase' = "reading"
      /\ UNCHANGED <<writes, state, stale, next, pending, disk>>
      /\ readRev' = [readRev EXCEPT ![p] = Len(writes)] \/ readRev' = [readRev EXCEPT ![p] = Refused]
  BY DEF ReadPrefix, ReadRefused, IsNextRead
<1>2. ReadsAreLater'
  <2>. SUFFICES ASSUME NEW k \in Key, NEW q \in Under[k], readRev'[q] >= 0, state[k] # NoRow
                PROVE  state[k].rev <= readRev'[q]
    BY <1>1 DEF ReadsAreLater
  <2>1. q \in Prefix
    BY UnderType
  <2>2. readRev'[q] = readRev[q] \/ readRev'[q] = Len(writes) \/ readRev'[q] = Refused
    BY <1>1, <2>1 DEF WatchInv, Inv, TypeOK
  <2>3. state[k].rev \in 1 .. Len(writes)
    BY DEF WatchInv, RowsAreWrites, WritesOf
  <2>4. Len(writes) \in Nat
    BY DEF WatchInv, Inv, TypeOK
  <2> QED BY <1>1, <2>2, <2>3, <2>4 DEF WatchInv, ReadsAreLater, Refused
<1>3. RowsAreWrites'
  BY <1>1 DEF WatchInv, RowsAreWrites, Files
<1>4. WatchedUpTo' /\ PinDiesWithWatchedKey'
  BY <1>1 DEF WatchedUpTo, PinDiesWithWatchedKey, Watching
<1> QED BY <1>2, <1>3, <1>4 DEF WatchParts

LEMMA ApplyLoadWatched ==
    ASSUME WatchInv, ApplyLoad
    PROVE  WatchParts'
<1>1. /\ phase' = "loaded" /\ UNCHANGED <<writes, pending, disk>>
      /\ state' = UnionOfReads
  BY DEF ApplyLoad
<1>2. ASSUME NEW k \in Key, state'[k] # NoRow
      PROVE  state'[k].rev \in 1 .. Len(writes) /\ writes[state'[k].rev].key = k
  <2>1. CASE state'[k] = state[k]
    BY <1>2, <2>1 DEF WatchInv, RowsAreWrites, WritesOf
  <2>2. CASE state'[k] = loaded[k]
    <3>1. PICK p \in Under[k] : readRev[p] >= 0 /\ loaded[k] = RowIn(writes, k, readRev[p])
      BY <1>2, <2>2 DEF WatchInv, ReadInv, UnionIsRead
    <3>2. p \in Prefix
      BY UnderType
    <3>3. readRev[p] \in 0 .. Len(writes) /\ writes \in Seq(Change)
      <4>1. TypeOK /\ writes \in Seq(Change) /\ Len(writes) \in Nat
        BY DEF WatchInv, Inv, TypeOK
      <4> QED BY <3>1, <3>2, <4>1, ReadRevType DEF WatchInv, ReadInv, ReadsArePast, Unread, Refused
    <3>4. LET row == RowIn(writes, k, readRev[p]) IN
            row.rev \in 1 .. readRev[p] /\ LastPutIn(writes, row.rev, k, readRev[p])
      BY <1>2, <2>2, <3>1, <3>3, RowInRow
    <3> QED BY <2>2, <3>1, <3>3, <3>4 DEF LastPutIn
  <2> QED BY <1>1, <2>1, <2>2 DEF UnionOfReads
<1>3. RowsAreWrites'
  BY <1>1, <1>2 DEF WatchInv, RowsAreWrites, WritesOf, Files
<1> QED BY <1>1, <1>3 DEF WatchParts, ReadsAreLater, WatchedUpTo, PinDiesWithWatchedKey, Watching

\* A cache write holds the rows it was spawned with.
LEMMA FlushWatched ==
    ASSUME NEW entries, NEW pins, NEW rev, NEW snap, NEW seen,
           Flush(entries, pins, rev, snap, seen), UNCHANGED <<writes, disk>>,
           \A f \in Files : WritesOf(writes, f.entries), WritesOf(writes, entries)
    PROVE  (\A f \in Files : WritesOf(writes, f.entries))'
<1>1. \A f \in Files' : f \in Files \/ f.entries = entries
  BY FlushFiles
<1> QED BY <1>1 DEF WritesOf

LEMMA ReportWatched ==
    ASSUME WatchInv, ReportLoad \/ ReportBatch
    PROVE  WatchParts'
<1>1. /\ UNCHANGED <<writes, state, stale, next, readRev, disk>>
      /\ \/ phase' = "opening"
         \/ phase = "published" /\ phase' = "watching"
      /\ Flush(state, stale, revision, snapshot, upTo) \/ pending' = pending
  BY DEF ReportLoad, ReportBatch
<1>2. (\A f \in Files : WritesOf(writes, f.entries))'
  <2>1. CASE pending' = pending
    BY <1>1, <2>1 DEF WatchInv, RowsAreWrites, Files
  <2>2. CASE Flush(state, stale, revision, snapshot, upTo)
    BY <1>1, <2>2, FlushWatched DEF WatchInv, RowsAreWrites
  <2> QED BY <1>1, <2>1, <2>2
<1>3. RowsAreWrites'
  BY <1>1, <1>2 DEF WatchInv, RowsAreWrites
<1>4. ReadsAreLater'
  BY <1>1 DEF ReadsAreLater
<1>5. WatchedUpTo' /\ PinDiesWithWatchedKey'
  BY <1>1 DEF WatchInv, WatchedUpTo, PinDiesWithWatchedKey, Watching
<1> QED BY <1>3, <1>4, <1>5 DEF WatchParts

LEMMA CycleWatched ==
    ASSUME WatchInv, NewCycle, UNCHANGED writes,
           phase' \in {"reading", "off"},
           WritesOf(writes, state'),
           (\A f \in Files : WritesOf(writes, f.entries))'
    PROVE  WatchParts'
<1>1. RowsAreWrites'
  BY DEF RowsAreWrites, WritesOf
<1>2. ReadsAreLater'
  BY UnderType DEF ReadsAreLater, NewCycle, Unread
<1> QED BY <1>1, <1>2 DEF WatchParts, WatchedUpTo, PinDiesWithWatchedKey, Watching

LEMMA RestartWatched ==
    ASSUME WatchInv, EndCycle \/ Boot \/ Drained \/ Crash
    PROVE  WatchParts'
<1>1. CASE EndCycle
  BY <1>1, CycleWatched DEF EndCycle, WatchInv, RowsAreWrites, Files
<1>2. CASE Drained \/ Crash
  <2>1. /\ NewCycle /\ UNCHANGED <<writes, disk>> /\ phase' = "off"
        /\ state' = NoRows /\ pending' = {}
    BY <1>2 DEF Drained, Crash, Forget
  <2>2. WritesOf(writes, state')
    BY <2>1 DEF WritesOf, NoRows
  <2>3. (\A f \in Files : WritesOf(writes, f.entries))'
    BY <2>1 DEF WatchInv, RowsAreWrites, Files
  <2> QED BY <2>1, <2>2, <2>3, CycleWatched
<1>3. CASE Boot
  <2>1. NewCycle /\ UNCHANGED <<writes, disk>> /\ phase' = "reading"
    BY <1>3 DEF Boot
  <2>2. CASE UNCHANGED <<state, pending>>
    BY <2>1, <2>2, CycleWatched DEF WatchInv, RowsAreWrites, Files
  <2>3. CASE CacheEnabled /\ disk # NoFile
    <3>1. RestoreFromCache(build')
      BY <1>3, <2>3 DEF Boot
    <3> DEFINE pins == ResyncPins(disk.entries, disk.stale, NoneServed, NoRows, build')
               snap == ResyncSnapshot(disk.entries, pins, build')
    <3>2. state' = disk.entries /\ \E highest : Flush(disk.entries, pins, highest, snap, disk.upTo)
      BY <3>1 DEF RestoreFromCache
    <3>. HIDE DEF pins, snap
    <3>3. WritesOf(writes, disk.entries)
      BY <2>3 DEF WatchInv, RowsAreWrites, Files
    <3>4. (\A f \in Files : WritesOf(writes, f.entries))'
      BY <2>1, <3>2, <3>3, FlushWatched DEF WatchInv, RowsAreWrites
    <3> QED BY <2>1, <3>2, <3>3, <3>4, CycleWatched
  <2> QED BY <1>3, <2>2, <2>3 DEF Boot
<1> QED BY <1>1, <1>2, <1>3

LEMMA OpenWatchesWatched ==
    ASSUME WatchInv, DisjointPrefixes, OpenWatches
    PROVE  WatchParts'
<1>1. /\ phase = "opening" /\ phase' = "watching"
      /\ UNCHANGED <<writes, state, stale, readRev, pending, disk>>
  BY DEF OpenWatches
<1>2. \A p \in Prefix : next'[p] # NoStream => readRev[p] # Refused /\ next'[p] = readRev[p] + 1
  BY DEF OpenWatches
<1>3. ASSUME NEW k \in Key, NEW p \in Under[k], next'[p] # NoStream
      PROVE  /\ readRev[p] \in 0 .. Len(writes)
             /\ next'[p] = readRev[p] + 1
             /\ state[k] = RowIn(writes, k, readRev[p])
  <2>1. p \in Prefix
    BY UnderType
  <2>2. readRev[p] # Refused /\ next'[p] = readRev[p] + 1
    BY <1>2, <1>3, <2>1
  <2>3. \E q \in Under[k] : readRev[q] >= 0 /\ state[k] = RowIn(writes, k, readRev[q])
    BY <1>1, <2>2, LoadedRow DEF WatchInv, Inv
  <2>4. readRev[p] >= 0 /\ state[k] = RowIn(writes, k, readRev[p])
    BY <2>3 DEF DisjointPrefixes
  <2> QED BY <2>1, <2>2, <2>4 DEF WatchInv, Inv, TypeOK, ReadInv, ReadsArePast, Unread, Refused
<1>4. WatchedUpTo'
  BY <1>1, <1>3 DEF WatchedUpTo
<1>5. PinDiesWithWatchedKey'
  <2>. SUFFICES ASSUME NEW k \in Key, NEW p \in Under[k], next'[p] # NoStream, stale[k] # NoRow
                PROVE  /\ state[k] # NoRow
                       /\ \A i \in stale[k].rev .. state[k].rev : i <= readRev[p]
    BY <1>1 DEF PinDiesWithWatchedKey
  <2>1. state[k] # NoRow
    BY DEF WatchInv, Inv, ServedIsExplained, Explained
  <2>2. state[k].rev \in 1 .. readRev[p] /\ readRev[p] \in Nat
    BY <1>3, <2>1, RowInRow DEF WatchInv, Inv, TypeOK
  <2>3. stale[k].rev \in Nat
    BY DEF WatchInv, Inv, TypeOK, Row
  <2> QED BY <2>1, <2>2, <2>3
<1>6. RowsAreWrites' /\ ReadsAreLater'
  BY <1>1 DEF WatchInv, RowsAreWrites, ReadsAreLater, Files
<1> QED BY <1>4, <1>5, <1>6 DEF WatchParts

LEMMA StageEventWatched ==
    ASSUME WatchInv, DisjointPrefixes, NEW p \in Prefix, StageEvent(p)
    PROVE  WatchParts'
<1>1. PICK i \in 1 .. Len(writes), k \in Key :
         /\ next[p] # NoStream /\ next[p] <= i /\ next' = [next EXCEPT ![p] = i + 1]
         /\ writes[i].key = k /\ p \in Under[k]
         /\ \A j \in next[p] .. i - 1 : p \notin Under[writes[j].key]
         /\ state' = [state EXCEPT ![k] = RowIn(writes, k, i)]
         /\ \A j \in Key : j # k => stale'[j] = stale[j]
         /\ stale'[k] = NoRow \/ stale'[k] = stale[k] \/ stale'[k] = state[k]
         /\ stale'[k] # NoRow => RowIn(writes, k, i) # NoRow
  BY StagedEvent DEF WatchInv, Inv
<1>2. /\ Watching /\ phase' = "staging" /\ UNCHANGED <<writes, readRev, pending, disk>>
  BY DEF StageEvent, Watching
<1>3. /\ writes \in Seq(Change) /\ Len(writes) \in Nat
      /\ next \in [Prefix -> Nat] /\ next[p] \in Nat /\ next[p] # 0
      /\ state \in [Key -> Row \union {NoRow}]
      /\ i \in Nat /\ i \in 0 .. Len(writes)
  BY <1>1 DEF WatchInv, Inv, TypeOK, NoStream
<1>4. /\ state'[k] = RowIn(writes, k, i)
      /\ \A j \in Key : j # k => state'[j] = state[j]
      /\ next'[p] = i + 1
      /\ \A q \in Prefix : q # p => next'[q] = next[q]
  BY <1>1, <1>3
\* A key under p has not been written since the event before.
<1>5. ASSUME NEW j \in Key, p \in Under[j]
      PROVE  /\ next[p] - 1 \in 0 .. Len(writes)
             /\ state[j] = RowIn(writes, j, next[p] - 1)
             /\ \A n \in next[p] .. i - 1 : writes[n].key # j
  BY <1>1, <1>2, <1>3, <1>5 DEF WatchInv, WatchedUpTo
<1>6. ASSUME NEW j \in Key, p \in Under[j] PROVE state'[j] = RowIn(writes, j, i)
  <2>1. CASE j = k
    BY <1>4, <2>1
  <2>2. CASE j # k
    <3>1. \A n \in next[p] - 1 + 1 .. i : writes[n].key # j
      BY <1>1, <1>3, <1>5, <1>6, <2>2
    <3>2. RowIn(writes, j, next[p] - 1) = RowIn(writes, j, i)
      BY <1>1, <1>3, <1>5, <1>6, <3>1, RowInSkip
    <3> QED BY <1>4, <1>5, <1>6, <2>2, <3>2
  <2> QED BY <2>1, <2>2
<1>7. WatchedUpTo'
  <2>. SUFFICES ASSUME NEW j \in Key, NEW q \in Under[j], next'[q] # NoStream
                PROVE  next'[q] - 1 <= Len(writes) /\ state'[j] = RowIn(writes, j, next'[q] - 1)
    BY <1>2 DEF WatchedUpTo
  <2>1. CASE q = p
    BY <1>3, <1>4, <1>6, <2>1
  <2>2. CASE q # p
    <3>1. j # k /\ q \in Prefix
      BY <1>1, <2>2, UnderType DEF DisjointPrefixes
    <3> QED BY <1>2, <1>4, <2>2, <3>1 DEF WatchInv, WatchedUpTo
  <2> QED BY <2>1, <2>2
<1>8. ASSUME NEW q \in Under[k], next'[q] # NoStream, stale'[k] # NoRow
      PROVE  /\ state'[k] # NoRow
             /\ \A n \in stale'[k].rev .. state'[k].rev :
                  writes[n].key = k /\ writes[n].val = Absent => n <= readRev[q]
  <2>1. q = p
    BY <1>1 DEF DisjointPrefixes
  <2>2. state'[k] # NoRow /\ state'[k].rev \in 1 .. i
    BY <1>1, <1>3, <1>4, <1>8, RowInRow
  <2>3. state[k] # NoRow
    BY <1>1, <1>8 DEF WatchInv, Inv, ServedIsExplained, Explained
  <2>4. /\ state[k].rev \in 1 .. next[p] - 1
        /\ LastPutIn(writes, state[k].rev, k, next[p] - 1)
    BY <1>1, <1>3, <1>5, <2>3, RowInRow
  <2>5. \A n \in stale'[k].rev .. state[k].rev :
           writes[n].key = k /\ writes[n].val = Absent => n <= readRev[q]
    <3>1. CASE stale'[k] = stale[k]
      BY <1>1, <1>2, <1>8, <2>1, <3>1 DEF WatchInv, PinDiesWithWatchedKey, Watching
    <3>2. CASE stale'[k] = state[k]
      BY <2>4, <3>2 DEF LastPutIn
    <3> QED BY <1>1, <1>8, <3>1, <3>2
  <2>6. stale'[k].rev \in Nat
    BY <1>1, <1>8 DEF WatchInv, Inv, TypeOK, Row
  <2>7. ASSUME NEW n \in stale'[k].rev .. state'[k].rev,
               writes[n].key = k, writes[n].val = Absent
        PROVE  n <= readRev[q]
    <3>1. n \in Nat /\ n <= i
      BY <2>2, <2>6, <2>7
    <3>2. CASE n <= state[k].rev
      BY <2>4, <2>5, <2>6, <2>7, <3>1, <3>2
    <3>3. CASE state[k].rev < n /\ n <= next[p] - 1
      BY <1>3, <2>4, <2>7, <3>1, <3>3 DEF LastPutIn
    <3>4. CASE next[p] <= n /\ n < i
      BY <1>1, <1>3, <1>5, <2>7, <3>1, <3>4
    <3>5. CASE n = i
      <4>1. RowIn(writes, k, i) = NoRow
        BY <1>1, <2>7, <3>5, <1>3, RowInNext
      <4> QED BY <4>1, <1>1, <1>8
    <3> QED BY <1>3, <2>4, <3>1, <3>2, <3>3, <3>4, <3>5
  <2> QED BY <2>2, <2>7
<1>9. PinDiesWithWatchedKey'
  <2>. SUFFICES ASSUME NEW j \in Key, NEW q \in Under[j], next'[q] # NoStream, stale'[j] # NoRow
                PROVE  /\ state'[j] # NoRow
                       /\ \A n \in stale'[j].rev .. state'[j].rev :
                            writes[n].key = j /\ writes[n].val = Absent => n <= readRev[q]
    BY <1>2 DEF PinDiesWithWatchedKey
  <2>1. CASE j = k
    BY <1>8, <2>1
  <2>2. CASE j # k
    <3>1. stale'[j] = stale[j] /\ state'[j] = state[j] /\ next[q] # NoStream
      BY <1>1, <1>4, <2>2, UnderType
    <3> QED BY <1>2, <3>1 DEF WatchInv, PinDiesWithWatchedKey, Watching
  <2> QED BY <2>1, <2>2
<1>10. RowsAreWrites'
  <2>1. RowIn(writes, k, i) # NoRow =>
           LET row == RowIn(writes, k, i) IN row.rev \in 1 .. i /\ LastPutIn(writes, row.rev, k, i)
    BY <1>3, RowInRow
  <2>2. WritesOf(writes, state)'
    BY <1>2, <1>3, <1>4, <2>1 DEF WatchInv, RowsAreWrites, WritesOf, LastPutIn
  <2> QED BY <1>2, <2>2 DEF WatchInv, RowsAreWrites, Files
<1>11. ReadsAreLater'
  BY <1>2 DEF ReadsAreLater
<1> QED BY <1>7, <1>9, <1>10, <1>11 DEF WatchParts

LEMMA InitWatched == Init => WatchParts
BY SupervisorAssumption
   DEF SupervisorAssumption, Init, NoRows, WatchParts, RowsAreWrites, WritesOf, Files,
       ReadsAreLater, WatchedUpTo, PinDiesWithWatchedKey, Watching

LEMMA StepWatched ==
    ASSUME WatchInv, DisjointPrefixes, [Next]_vars
    PROVE  WatchParts'
<1>1. ASSUME UNCHANGED vars PROVE WatchParts'
  BY <1>1, IdleWatched DEF vars, Files, Watching
<1>2. ASSUME NEW k \in Key, NEW v \in Val \union {Absent}, Write(k, v) PROVE WatchParts'
  BY <1>2, WriteWatched
<1>3. ASSUME NEW p \in Prefix, ReadPrefix(p) \/ ReadRefused(p) PROVE WatchParts'
  BY <1>3, ReadWatched
<1>4. ASSUME ApplyLoad PROVE WatchParts'
  BY <1>4, ApplyLoadWatched
<1>5. ASSUME ReportLoad \/ ReportBatch PROVE WatchParts'
  BY <1>5, ReportWatched
<1>6. ASSUME OpenWatches PROVE WatchParts'
  BY <1>6, OpenWatchesWatched
<1>7. ASSUME NEW p \in Prefix, StageEvent(p) PROVE WatchParts'
  BY <1>7, StageEventWatched
<1>8. ASSUME Publish \/ Cancel PROVE WatchParts'
  BY <1>8, IdleWatched DEF Publish, Cancel, Files, Watching
<1>9. ASSUME NEW w \in pending, CommitWrite(w) \/ WriteFails(w) PROVE WatchParts'
  BY <1>9, IdleWatched DEF CommitWrite, WriteFails, Files, Watching
<1>10. ASSUME EndCycle \/ Boot \/ Drained \/ Crash PROVE WatchParts'
  BY <1>10, RestartWatched
<1> QED BY <1>1, <1>2, <1>3, <1>4, <1>5, <1>6, <1>7, <1>8, <1>9, <1>10 DEF Next, SupervisorStep

LEMMA WatchInvariance == Spec /\ DisjointPrefixes => []WatchInv
<1>1. Init /\ DisjointPrefixes => WatchInv
  BY InitExplained, InitReads, InitWatched DEF WatchInv, WatchParts
<1>2. WatchInv /\ [Next]_vars => WatchInv'
  BY StepExplained, StepReads, StepWatched DEF WatchInv, WatchParts, Inv
<1> QED BY <1>1, <1>2, PTL DEF Spec

\* While the watches are up, the observed row of each key is what etcd held
\* just before the event its watch delivers next: no write falls between a
\* prefix's read and its watch, whatever was written while other prefixes
\* were read.
THEOREM NoGapEver == Spec /\ DisjointPrefixes => []WatchesLeaveNoGap
<1>1. WatchInv => WatchesLeaveNoGap
  BY RowAtIn DEF WatchInv, WatchedUpTo, Watching, WatchesLeaveNoGap
<1> QED BY <1>1, WatchInvariance, PTL

\* A pin outlives no deletion of its key that the watch has delivered.
THEOREM PinsAlwaysDie == Spec /\ DisjointPrefixes => []PinDiesWithWatchedKey
<1>1. WatchInv => PinDiesWithWatchedKey
  BY DEF WatchInv
<1> QED BY <1>1, WatchInvariance, PTL

\* Once a watch has nothing left to deliver, and the batch it came in has been
\* published, its keys are served what etcd holds for them.
CaughtUp ==
    \A k \in Key : \A p \in Under[k] :
        /\ phase \in {"published", "watching"}
        /\ next[p] # NoStream
        /\ Undelivered(p) = {}
        => UpToDate(k)

\* Events that were read, coalesced, rejected or deleted on the way leave
\* nothing behind: what is still missing for Converges is that the task is
\* scheduled and the cycles stop ending.
THEOREM QuietIsUpToDate == Spec /\ DisjointPrefixes => []CaughtUp
<1>1. ASSUME WatchInv, phase \in {"published", "watching"}, NEW k \in Key, NEW p \in Under[k],
             next[p] # NoStream, Undelivered(p) = {}
      PROVE  UpToDate(k)
  <2>1. /\ writes \in Seq(Change) /\ Len(writes) \in Nat
        /\ next[p] \in Nat \ {0}
    BY <1>1, UnderType DEF WatchInv, Inv, TypeOK, NoStream
  <2>2. next[p] - 1 <= Len(writes) /\ state[k] = RowIn(writes, k, next[p] - 1)
    BY <1>1 DEF WatchInv, WatchedUpTo, Watching
  <2>3. \A j \in next[p] .. Len(writes) : writes[j].key # k
    BY <1>1 DEF Undelivered, KeysUnder
  <2>4. RowIn(writes, k, next[p] - 1) = RowIn(writes, k, Len(writes))
    BY <2>1, <2>2, <2>3, RowInSkip
  <2>5. state[k] = RowAt(k, Len(writes))
    BY <2>2, <2>4, RowAtIn
  <2>6. Explained(state, stale, snapshot, build)
    BY <1>1, QuietEffective DEF WatchInv, Inv, ServedIsExplained
  <2>7. state[k] = NoRow => stale[k] = NoRow
    BY <2>6 DEF Explained, Loads
  <2>8. snapshot[k] = IF Loads(state[k], build) THEN state[k].val
                      ELSE IF stale[k] # NoRow THEN stale[k].val
                      ELSE Absent
    BY <2>6 DEF Explained
  <2> QED BY <2>5, <2>7, <2>8 DEF UpToDate
<1>2. WatchInv => CaughtUp
  BY <1>1 DEF CaughtUp
<1> QED BY <1>2, WatchInvariance, PTL

LEMMA RowKeeps ==
    ASSUME TypeOK, NEW k \in Key, state'[k] = state[k], state[k] # NoRow
    PROVE  state'[k].rev >= state[k].rev
<1>1. state[k].rev \in Nat
  BY DEF TypeOK, Row
<1> QED BY <1>1

\* The observed row of a key never goes back to an earlier write of it, over
\* batches, cycles and refusals.
THEOREM NeverBackwards == Spec /\ DisjointPrefixes => ObservedNeverRegresses
<1> DEFINE Onward == \A k \in Key :
                        phase' # "off" /\ state[k] # NoRow /\ state'[k] # NoRow
                            => state'[k].rev >= state[k].rev
<1>1. ASSUME WatchInv, state' = state PROVE Onward
  BY <1>1, RowKeeps DEF WatchInv, Inv
<1>2. ASSUME WatchInv, ApplyLoad, NEW k \in Key, state[k] # NoRow, state'[k] # NoRow
      PROVE  state'[k].rev >= state[k].rev
  <2>1. phase = "reading" /\ state' = UnionOfReads
    BY <1>2 DEF ApplyLoad
  <2>2. CASE state'[k] = state[k]
    BY <1>2, <2>2, RowKeeps DEF WatchInv, Inv
  <2>3. CASE state'[k] = loaded[k]
    <3>1. PICK p \in Under[k] : readRev[p] >= 0 /\ loaded[k] = RowIn(writes, k, readRev[p])
      BY <1>2, <2>3 DEF WatchInv, ReadInv, UnionIsRead
    <3>2. p \in Prefix
      BY UnderType
    <3>3. readRev[p] \in 0 .. Len(writes) /\ writes \in Seq(Change)
      <4>1. TypeOK /\ writes \in Seq(Change) /\ Len(writes) \in Nat
        BY <1>2 DEF WatchInv, Inv, TypeOK
      <4> QED BY <1>2, <3>1, <3>2, <4>1, ReadRevType
              DEF WatchInv, ReadInv, ReadsArePast, Unread, Refused
    <3>4. state[k].rev \in 1 .. Len(writes) /\ writes[state[k].rev].key = k
      BY <1>2 DEF WatchInv, RowsAreWrites, WritesOf
    <3>5. state[k].rev <= readRev[p]
      BY <1>2, <2>1, <3>1 DEF WatchInv, ReadsAreLater
    <3>6. state[k].rev \in 1 .. readRev[p]
      BY <3>3, <3>4, <3>5
    <3>7. state[k].rev <= RowIn(writes, k, readRev[p]).rev
      BY <1>2, <2>3, <3>1, <3>3, <3>4, <3>6, RowInLatest
    <3>8. RowIn(writes, k, readRev[p]).rev \in 1 .. readRev[p]
      BY <1>2, <2>3, <3>1, <3>3, RowInRow
    <3> QED BY <2>3, <3>1, <3>3, <3>4, <3>7, <3>8
  <2> QED BY <2>1, <2>2, <2>3 DEF UnionOfReads
<1>3. ASSUME WatchInv, DisjointPrefixes, NEW p \in Prefix, StageEvent(p),
             NEW k \in Key, state[k] # NoRow, state'[k] # NoRow
      PROVE  state'[k].rev >= state[k].rev
  <2>1. PICK i \in 1 .. Len(writes), j \in Key :
           /\ next[p] # NoStream /\ next[p] <= i /\ p \in Under[j]
           /\ state' = [state EXCEPT ![j] = RowIn(writes, j, i)]
    BY <1>3, StagedEvent DEF WatchInv, Inv
  <2>2. /\ writes \in Seq(Change) /\ i \in Nat /\ i \in 0 .. Len(writes)
        /\ next[p] \in Nat /\ next[p] # 0
        /\ state'[j] = RowIn(writes, j, i)
        /\ \A n \in Key : n # j => state'[n] = state[n]
    BY <1>3, <2>1 DEF WatchInv, Inv, TypeOK, NoStream
  <2>3. CASE k # j
    BY <1>3, <2>2, <2>3, RowKeeps DEF WatchInv, Inv
  <2>4. CASE k = j
    <3>1. next[p] - 1 \in 0 .. Len(writes) /\ state[k] = RowIn(writes, k, next[p] - 1)
      BY <1>3, <2>1, <2>2, <2>4 DEF WatchInv, WatchedUpTo, Watching, StageEvent
    <3>2. /\ state[k].rev \in 1 .. next[p] - 1
          /\ LastPutIn(writes, state[k].rev, k, next[p] - 1)
      BY <1>3, <2>2, <3>1, RowInRow
    <3>3. state[k].rev \in 1 .. i /\ writes[state[k].rev].key = k
      BY <2>1, <2>2, <3>2 DEF LastPutIn
    <3>4. state[k].rev <= RowIn(writes, k, i).rev
      BY <1>3, <2>2, <2>4, <3>3, RowInLatest
    <3>5. RowIn(writes, k, i).rev \in 1 .. i
      BY <1>3, <2>2, <2>4, RowInRow
    <3> QED BY <2>2, <2>4, <3>3, <3>4, <3>5
  <2> QED BY <2>3, <2>4
<1>4. ASSUME WatchInv, DisjointPrefixes, Next PROVE Onward
  <2>1. CASE \E k \in Key, v \in Val \union {Absent} : Write(k, v)
    BY <1>1, <1>4, <2>1 DEF Write
  <2>2. CASE \E p \in Prefix : ReadPrefix(p) \/ ReadRefused(p)
    BY <1>1, <1>4, <2>2 DEF ReadPrefix, ReadRefused
  <2>3. CASE ReportLoad \/ OpenWatches \/ Publish \/ ReportBatch \/ EndCycle \/ Cancel
    BY <1>1, <1>4, <2>3 DEF ReportLoad, OpenWatches, Publish, ReportBatch, EndCycle, Cancel
  <2>4. CASE \E w \in pending : CommitWrite(w) \/ WriteFails(w)
    BY <1>1, <1>4, <2>4 DEF CommitWrite, WriteFails
  <2>5. CASE Boot
    BY <1>4, <2>5 DEF Boot, WatchInv, Inv, OffIsForgotten, NoRows
  <2>6. CASE Drained \/ Crash
    BY <2>6 DEF Drained, Crash
  <2>7. CASE ApplyLoad
    BY <1>2, <1>4, <2>7
  <2>8. CASE \E p \in Prefix : StageEvent(p)
    BY <1>3, <1>4, <2>8
  <2>. HIDE DEF Onward
  <2> QED BY <1>4, <2>1, <2>2, <2>3, <2>4, <2>5, <2>6, <2>7, <2>8 DEF Next, SupervisorStep
<1>5. ASSUME WatchInv, UNCHANGED vars PROVE Onward
  BY <1>1, <1>5 DEF vars
<1>6. WatchInv /\ [Next]_vars => [Onward]_vars
  <2>. HIDE DEF Onward
  <2> QED BY <1>4, <1>5 DEF WatchInv
<1> QED BY <1>6, WatchInvariance, PTL DEF Spec, ObservedNeverRegresses

\* A resync takes for each key what an accepted read returned, and leaves the
\* row alone if there was none: a refused catalog deletes nothing and brings
\* nothing back, whatever overlaps it.
THEOREM RefusalNeverDeletes == Spec => RefusalIsNotDeletion
<1> DEFINE Accepted(k) == {p \in Under[k] : readRev[p] # Refused}
           Answered(k) == IF Accepted(k) = {}
                          THEN state'[k] = state[k]
                          ELSE \E p \in Accepted(k) : state'[k] = RowAt(k, readRev[p])
           Kept == phase = "reading" /\ phase' = "loaded" => \A k \in Key : Answered(k)
<1>1. ASSUME TypeOK, ReadInv, ApplyLoad, NEW k \in Key PROVE Answered(k)
  <2>1. state'[k] = IF Carried(k) THEN state[k] ELSE loaded[k]
    BY <1>1 DEF ApplyLoad, UnionOfReads
  <2>2. CASE Accepted(k) = {}
    <3>1. Carried(k)
      BY <2>2, SupervisorAssumption DEF SupervisorAssumption, Carried
    <3> QED BY <2>1, <2>2, <3>1
  <2>3. CASE Accepted(k) # {}
    <3>1. PICK q \in Under[k] : readRev[q] # Refused
      BY <2>3
    <3>2. q \in Prefix /\ readRev[q] # Unread
      BY <1>1, UnderType DEF ApplyLoad
    <3>3. ~(readRev[q] < 0)
      <4>1. readRev[q] \in Nat \union {Unread, Refused}
        BY <1>1, <3>2, ReadRevType
      <4> QED BY <3>1, <3>2, <4>1
    <3>4. PICK p \in Under[k] : readRev[p] >= 0 /\ loaded[k] = RowIn(writes, k, readRev[p])
      BY <1>1, <3>3 DEF ReadInv, UnionIsRead
    <3>5. ~Carried(k)
      BY <3>1 DEF Carried
    <3> QED BY <2>1, <2>3, <3>4, <3>5, RowAtIn DEF Refused
  <2> QED BY <2>2, <2>3
<1>2. ASSUME [Next]_vars, phase = "reading", phase' = "loaded" PROVE ApplyLoad
  BY <1>2 DEF Next, SupervisorStep, vars, Write, ReadPrefix, ReadRefused, ReportLoad, OpenWatches,
              StageEvent, Publish, ReportBatch, EndCycle, CommitWrite, WriteFails, Boot,
              Cancel, Drained, Crash
<1>3. TypeOK /\ ReadInv /\ [Next]_vars => [Kept]_vars
  <2>. HIDE DEF Answered
  <2> QED BY <1>1, <1>2
<1> QED BY <1>3, ReadInvariance, PTL DEF Spec, RefusalIsNotDeletion

-----------------------------------------------------------------------------
(* What is held of each prefix is of one moment.                           *)

HasCut(h, rows, p) ==
    \E now \in 0 .. Len(h) : \A k \in KeysUnder(p) : rows[k] = RowIn(h, k, now)

\* The rows observed under a prefix, and those a cache file holds of it, are
\* what etcd held under it at one moment: not at one moment for all prefixes,
\* but never some documents of an earlier and some of a later moment.
PrefixesAreCuts ==
    \A p \in Prefix :
        HasCut(writes, state, p) /\ \A f \in Files : HasCut(writes, f.entries, p)

LEMMA HasCutAppend ==
    ASSUME NEW h \in Seq(Change), NEW c \in Change, NEW rows, NEW p, HasCut(h, rows, p)
    PROVE  HasCut(Append(h, c), rows, p)
<1>1. PICK now \in 0 .. Len(h) : \A k \in KeysUnder(p) : rows[k] = RowIn(h, k, now)
  BY DEF HasCut
<1>2. \A k \in KeysUnder(p) : rows[k] = RowIn(Append(h, c), k, now)
  BY <1>1, RowInAppend DEF KeysUnder
<1>3. now \in 0 .. Len(Append(h, c))
  OBVIOUS
<1> QED BY <1>2, <1>3 DEF HasCut

LEMMA NoRowsHasCut == ASSUME NEW h \in Seq(Change), NEW p PROVE HasCut(h, NoRows, p)
<1>1. \A k \in Key : RowIn(h, k, 0) = NoRow
  BY RowInNone
<1>2. 0 \in 0 .. Len(h) /\ \A k \in Key : NoRows[k] = NoRow
  BY DEF NoRows
<1> QED BY <1>1, <1>2 DEF HasCut, KeysUnder

LEMMA FlushHasCuts ==
    ASSUME NEW entries, NEW pins, NEW rev, NEW snap, NEW seen, NEW p,
           Flush(entries, pins, rev, snap, seen), UNCHANGED <<writes, disk>>,
           \A f \in Files : HasCut(writes, f.entries, p), HasCut(writes, entries, p)
    PROVE  \A f \in Files' : HasCut(writes, f.entries, p)
<1>1. \A f \in Files' : f \in Files \/ f.entries = entries
  BY FlushFiles
<1> QED BY <1>1

\* A refused prefix keeps its rows, any other gets those of its own read.
LEMMA ApplyLoadHasCut ==
    ASSUME WatchInv, PrefixesAreCuts, ApplyLoad, NEW p \in Prefix
    PROVE  HasCut(writes, state', p)
<1>1. /\ \A q \in Prefix : readRev[q] # Unread
      /\ state' = UnionOfReads
  BY DEF ApplyLoad
<1>2. \A k \in KeysUnder(p) : k \in Key /\ Under[k] = {p}
  BY DEF KeysUnder, WatchInv, DisjointPrefixes
<1>3. CASE readRev[p] = Refused
  <2>1. \A k \in KeysUnder(p) : state'[k] = state[k]
    BY <1>1, <1>2, <1>3 DEF UnionOfReads, Carried
  <2>2. HasCut(writes, state, p)
    BY DEF PrefixesAreCuts
  <2> QED BY <2>1, <2>2 DEF HasCut
<1>4. CASE readRev[p] # Refused
  <2>1. readRev[p] \in 0 .. Len(writes)
    BY <1>1, <1>4 DEF WatchInv, Inv, TypeOK, ReadInv, ReadsArePast, Unread, Refused
  <2>2. \A k \in KeysUnder(p) : state'[k] = loaded[k]
    BY <1>1, <1>2, <1>4 DEF UnionOfReads, Carried
  <2>3. \A k \in KeysUnder(p) : loaded[k] = RowIn(writes, k, readRev[p])
    BY <1>2, <2>1 DEF WatchInv, ReadInv, UnionIsRead
  <2> QED BY <2>1, <2>2, <2>3 DEF HasCut
<1> QED BY <1>3, <1>4

\* An event moves its own prefix up to it, and no other.
LEMMA StageEventHasCut ==
    ASSUME WatchInv, PrefixesAreCuts, NEW p \in Prefix, StageEvent(p), NEW q \in Prefix
    PROVE  HasCut(writes, state', q)
<1>1. PICK i \in 1 .. Len(writes), k \in Key :
         /\ next' = [next EXCEPT ![p] = i + 1]
         /\ p \in Under[k]
         /\ state' = [state EXCEPT ![k] = RowIn(writes, k, i)]
  BY StagedEvent DEF WatchInv, Inv
<1>2. /\ Len(writes) \in Nat /\ i \in 0 .. Len(writes) /\ i + 1 # NoStream
      /\ next'[p] = i + 1
  BY <1>1 DEF WatchInv, Inv, TypeOK, NoStream
<1>3. UNCHANGED writes /\ Watching'
  BY DEF StageEvent, Watching
<1>4. WatchedUpTo'
  BY StageEventWatched DEF WatchInv, WatchParts
<1>5. CASE q = p
  <2>1. ASSUME NEW j \in KeysUnder(p) PROVE state'[j] = RowIn(writes, j, next'[p] - 1)
    <3>1. j \in Key /\ p \in Under[j]
      BY DEF KeysUnder
    <3> QED BY <1>2, <1>3, <1>4, <3>1 DEF WatchedUpTo
  <2>2. next'[p] - 1 = i
    BY <1>2
  <2> QED BY <1>2, <1>5, <2>1, <2>2 DEF HasCut
<1>6. CASE q # p
  <2>1. k \notin KeysUnder(q)
    BY <1>1, <1>6 DEF KeysUnder, WatchInv, DisjointPrefixes
  <2>2. \A j \in KeysUnder(q) : state'[j] = state[j]
    BY <1>1, <2>1 DEF WatchInv, Inv, TypeOK, KeysUnder
  <2>3. HasCut(writes, state, q)
    BY DEF PrefixesAreCuts
  <2> QED BY <2>2, <2>3 DEF HasCut
<1> QED BY <1>5, <1>6

\* A restart restores what a file holds, or starts with nothing.
LEMMA BootHasCuts ==
    ASSUME WatchInv, PrefixesAreCuts, Boot, NEW p \in Prefix
    PROVE  HasCut(writes, state', p) /\ \A f \in Files' : HasCut(writes, f.entries, p)
<1>1. UNCHANGED <<writes, disk>>
  BY DEF Boot
<1>2. CASE UNCHANGED <<state, pending>>
  BY <1>1, <1>2 DEF PrefixesAreCuts, Files
<1>3. CASE CacheEnabled /\ disk # NoFile
  <2>1. RestoreFromCache(build')
    BY <1>3 DEF Boot
  <2> DEFINE pins == ResyncPins(disk.entries, disk.stale, NoneServed, NoRows, build')
             snap == ResyncSnapshot(disk.entries, pins, build')
  <2>2. PICK highest : Flush(disk.entries, pins, highest, snap, disk.upTo)
    BY <2>1 DEF RestoreFromCache
  <2>3. state' = disk.entries
    BY <2>1 DEF RestoreFromCache
  <2>. HIDE DEF pins, snap
  <2>4. HasCut(writes, disk.entries, p) /\ \A f \in Files : HasCut(writes, f.entries, p)
    BY <1>3 DEF PrefixesAreCuts, Files
  <2>5. \A f \in Files' : HasCut(writes, f.entries, p)
    BY <1>1, <2>2, <2>4, FlushHasCuts
  <2> QED BY <2>3, <2>4, <2>5
<1> QED BY <1>2, <1>3 DEF Boot

\* Steps that leave the rows alone and write nothing new to a file.
LEMMA IdleHasCuts ==
    ASSUME PrefixesAreCuts, UNCHANGED <<writes, state>>, Files' \subseteq Files
    PROVE  PrefixesAreCuts'
BY DEF PrefixesAreCuts, HasCut

LEMMA StepHasCuts ==
    ASSUME WatchInv, PrefixesAreCuts, [Next]_vars
    PROVE  PrefixesAreCuts'
<1>1. ASSUME UNCHANGED vars PROVE PrefixesAreCuts'
  BY <1>1, IdleHasCuts DEF vars, Files
<1>2. ASSUME NEW k \in Key, NEW v \in Val \union {Absent}, Write(k, v) PROVE PrefixesAreCuts'
  <2> DEFINE c == [key |-> k, val |-> v]
  <2>1. c \in Change /\ writes' = Append(writes, c) /\ writes \in Seq(Change)
    BY <1>2 DEF Write, Change, WatchInv, Inv, TypeOK
  <2>2. UNCHANGED <<state, pending, disk>>
    BY <1>2 DEF Write
  <2>. HIDE DEF c
  <2> QED BY <2>1, <2>2, HasCutAppend DEF PrefixesAreCuts, Files
<1>3. ASSUME NEW p \in Prefix, ReadPrefix(p) \/ ReadRefused(p) PROVE PrefixesAreCuts'
  BY <1>3, IdleHasCuts DEF ReadPrefix, ReadRefused, Files
<1>4. ASSUME ApplyLoad PROVE PrefixesAreCuts'
  <2>1. UNCHANGED <<writes, pending, disk>>
    BY <1>4 DEF ApplyLoad
  <2> QED BY <1>4, <2>1, ApplyLoadHasCut DEF PrefixesAreCuts, Files
<1>5. ASSUME ReportLoad \/ ReportBatch PROVE PrefixesAreCuts'
  <2>1. /\ UNCHANGED <<writes, state, disk>>
        /\ Flush(state, stale, revision, snapshot, upTo) \/ pending' = pending
    BY <1>5 DEF ReportLoad, ReportBatch
  <2>2. ASSUME NEW p \in Prefix PROVE \A f \in Files' : HasCut(writes, f.entries, p)
    <3>1. HasCut(writes, state, p) /\ \A f \in Files : HasCut(writes, f.entries, p)
      BY DEF PrefixesAreCuts
    <3>2. CASE pending' = pending
      BY <2>1, <3>1, <3>2 DEF Files
    <3>3. CASE Flush(state, stale, revision, snapshot, upTo)
      BY <2>1, <3>1, <3>3, FlushHasCuts
    <3> QED BY <2>1, <3>2, <3>3
  <2> QED BY <2>1, <2>2 DEF PrefixesAreCuts
<1>6. ASSUME NEW p \in Prefix, StageEvent(p) PROVE PrefixesAreCuts'
  <2>1. UNCHANGED <<writes, pending, disk>>
    BY <1>6 DEF StageEvent
  <2> QED BY <1>6, <2>1, StageEventHasCut DEF PrefixesAreCuts, Files
<1>7. ASSUME OpenWatches \/ EndCycle \/ Publish \/ Cancel PROVE PrefixesAreCuts'
  BY <1>7, IdleHasCuts DEF OpenWatches, EndCycle, Publish, Cancel, Files
<1>8. ASSUME NEW w \in pending, CommitWrite(w) \/ WriteFails(w) PROVE PrefixesAreCuts'
  <2>1. UNCHANGED <<writes, state>>
    BY <1>8 DEF CommitWrite, WriteFails
  <2>2. pending' \subseteq pending /\ (disk' = disk \/ disk' = w)
    BY <1>8 DEF CommitWrite, WriteFails
  <2>3. Files' \subseteq Files
    BY <2>2 DEF Files
  <2> QED BY <2>1, <2>3, IdleHasCuts
<1>9. ASSUME Boot PROVE PrefixesAreCuts'
  <2>1. UNCHANGED writes
    BY <1>9 DEF Boot
  <2> QED BY <1>9, <2>1, BootHasCuts DEF PrefixesAreCuts
<1>10. ASSUME Drained \/ Crash PROVE PrefixesAreCuts'
  <2>1. UNCHANGED <<writes, disk>> /\ state' = NoRows /\ pending' = {}
    BY <1>10 DEF Drained, Crash, Forget
  <2>2. writes \in Seq(Change)
    BY DEF WatchInv, Inv, TypeOK
  <2> QED BY <2>1, <2>2, NoRowsHasCut DEF PrefixesAreCuts, Files
<1> QED BY <1>1, <1>2, <1>3, <1>4, <1>5, <1>6, <1>7, <1>8, <1>9, <1>10 DEF Next, SupervisorStep

\* Whatever prefixes are refused and whenever each of them is read, watched,
\* cached and restored, what is observed of a prefix, and what a file holds of
\* it, is the prefix as it was at one moment.
THEOREM EachPrefixIsCut == Spec /\ DisjointPrefixes => []PrefixesAreCuts
<1>1. Init => PrefixesAreCuts
  <2>1. ASSUME Init PROVE writes \in Seq(Change) /\ state = NoRows /\ Files = {}
    BY <2>1 DEF Init, Files
  <2> QED BY <2>1, NoRowsHasCut DEF PrefixesAreCuts
<1>2. WatchInv /\ PrefixesAreCuts /\ [Next]_vars => PrefixesAreCuts'
  BY StepHasCuts
<1> QED BY <1>1, <1>2, WatchInvariance, PTL DEF Spec

-----------------------------------------------------------------------------
(* A gateway that watches several prefixes: what one revision says of them. *)

LEMMA FileRevType == ASSUME TypeOK, NEW f \in Files PROVE f.rev \in Nat
BY DEF TypeOK, Files, CacheFile

\* NothingMissingUnder, of a history given.
NothingMissingIn(h, p, rows, r) ==
    \E now \in r .. Len(h) : \A k \in KeysUnder(p) : rows[k] = RowIn(h, k, now)

LEMMA MissingIn ==
    \A p, rows, r : NothingMissingUnder(p, rows, r) <=> NothingMissingIn(writes, p, rows, r)
BY RowAtIn DEF NothingMissingUnder, NothingMissingIn

Streams == [p \in Prefix |-> IF Watching THEN next[p] ELSE NoStream]

\* The prefix that backs a claim has not only been applied up to it: its stream
\* has delivered the claim, and so takes no row back behind it.
Backed(h, rows, streams, r) ==
    r # 0 => \E p \in Prefix :
                /\ NothingMissingIn(h, p, rows, r)
                /\ streams[p] # NoStream => r < streams[p]

\* What has been claimed, or is to be when the load or the batch is reported.
Claims == {revision, stamp} \union IF phase = "loaded" THEN {} ELSE {applied, reported}

ClaimsAgree ==
    /\ phase \notin {"staging", "published"} => stamp = 0
    /\ phase = "opening" => applied = revision

ClaimsAreBacked == \A r \in Claims : Backed(writes, state, Streams, r)

FilesAreBacked ==
    \A f \in Files :
        f.rev # 0 => \E p \in Prefix : NothingMissingIn(writes, p, f.entries, f.rev)

BackedParts == ClaimsAreBacked /\ FilesAreBacked /\ ClaimsAgree

BackedInv == WatchInv /\ PrefixesAreCuts /\ BackedParts

LEMMA BackedTypes ==
    ASSUME BackedInv
    PROVE  /\ writes \in Seq(Change) /\ Len(writes) \in Nat
           /\ revision \in Nat /\ stamp \in Nat /\ applied \in Nat /\ reported \in Nat
           /\ Claims \subseteq Nat
           /\ \A p \in Prefix : next[p] \in Nat
           /\ \A f \in Files : f.rev \in Nat
<1>1. TypeOK
  BY DEF BackedInv, WatchInv, Inv
<1>2. \A f \in Files : f.rev \in Nat
  BY <1>1, FileRevType
<1> QED BY <1>1, <1>2 DEF TypeOK, Claims

\* A write adds to what is missing only after the revisions claimed.
LEMMA NothingMissingLasts ==
    ASSUME NEW h \in Seq(Change), NEW c \in Change, NEW p, NEW rows, NEW r \in Nat,
           NothingMissingIn(h, p, rows, r)
    PROVE  NothingMissingIn(Append(h, c), p, rows, r)
<1>1. PICK now \in r .. Len(h) : \A k \in KeysUnder(p) : rows[k] = RowIn(h, k, now)
  BY DEF NothingMissingIn
<1>2. now \in 0 .. Len(h) /\ now \in r .. Len(Append(h, c))
  OBVIOUS
<1>3. \A k \in KeysUnder(p) : rows[k] = RowIn(Append(h, c), k, now)
  BY <1>1, <1>2, RowInAppend DEF KeysUnder
<1> QED BY <1>2, <1>3 DEF NothingMissingIn

\* Nothing new is claimed, and rows and streams stay as they are.
LEMMA IdleBacked ==
    ASSUME BackedInv, UNCHANGED <<writes, state>>, Files' \subseteq Files,
           \A p \in Prefix : Streams'[p] # NoStream => Streams'[p] = Streams[p],
           Claims' \subseteq Claims \union {0}, ClaimsAgree'
    PROVE  BackedParts'
<1>1. ClaimsAreBacked'
  <2>. SUFFICES ASSUME NEW r \in Claims' PROVE Backed(writes, state, Streams', r)
    BY DEF ClaimsAreBacked
  <2>1. r # 0 => Backed(writes, state, Streams, r)
    BY DEF BackedInv, BackedParts, ClaimsAreBacked
  <2> QED BY <2>1 DEF Backed
<1>2. FilesAreBacked'
  BY DEF BackedInv, BackedParts, FilesAreBacked
<1> QED BY <1>1, <1>2 DEF BackedParts

LEMMA WriteBacked ==
    ASSUME BackedInv, NEW k \in Key, NEW v \in Val \union {Absent}, Write(k, v)
    PROVE  BackedParts'
<1> DEFINE c == [key |-> k, val |-> v]
<1>1. c \in Change /\ writes' = Append(writes, c)
  BY DEF Write, Change
<1>. HIDE DEF c
<1>2. /\ UNCHANGED <<phase, state, revision, applied, reported, next, stamp, pending, disk>>
      /\ Streams' = Streams /\ Claims' = Claims /\ Files' = Files
  BY DEF Write, Streams, Watching, Claims, Files
<1>3. writes \in Seq(Change) /\ Claims \subseteq Nat /\ \A f \in Files : f.rev \in Nat
  BY BackedTypes
<1>4. ClaimsAreBacked'
  <2>. SUFFICES ASSUME NEW r \in Claims, r # 0 PROVE Backed(writes', state, Streams, r)
    BY <1>2 DEF ClaimsAreBacked, Backed
  <2>1. PICK p \in Prefix : /\ NothingMissingIn(writes, p, state, r)
                            /\ Streams[p] # NoStream => r < Streams[p]
    BY DEF BackedInv, BackedParts, ClaimsAreBacked, Backed
  <2>2. NothingMissingIn(writes', p, state, r)
    BY <1>1, <1>3, <2>1, NothingMissingLasts
  <2> QED BY <2>1, <2>2 DEF Backed
<1>5. FilesAreBacked'
  <2>. SUFFICES ASSUME NEW f \in Files, f.rev # 0
                PROVE  \E p \in Prefix : NothingMissingIn(writes', p, f.entries, f.rev)
    BY <1>2 DEF FilesAreBacked
  <2>1. PICK p \in Prefix : NothingMissingIn(writes, p, f.entries, f.rev)
    BY DEF BackedInv, BackedParts, FilesAreBacked
  <2>2. NothingMissingIn(writes', p, f.entries, f.rev)
    BY <1>1, <1>3, <2>1, NothingMissingLasts
  <2> QED BY <2>2
<1>6. ClaimsAgree'
  BY <1>2 DEF BackedInv, BackedParts, ClaimsAgree
<1> QED BY <1>4, <1>5, <1>6 DEF BackedParts

\* The revision of a load is no later than the read of any prefix in it.
LEMMA ApplyLoadBacked ==
    ASSUME BackedInv, ApplyLoad
    PROVE  BackedParts'
<1>1. /\ phase = "reading" /\ phase' = "loaded"
      /\ UNCHANGED <<writes, readRev, loaded, stamp, pending, disk>>
      /\ state' = UnionOfReads
      /\ \A p \in Prefix : readRev[p] # Unread
      /\ IsAppliedRevision(revision')
  BY DEF ApplyLoad
<1>2. stamp = 0 /\ Claims' = {revision', 0}
  BY <1>1 DEF BackedInv, BackedParts, ClaimsAgree, Claims
<1>3. \A p \in Prefix : Streams'[p] = NoStream
  BY <1>1 DEF Streams, Watching
<1>4. ASSUME revision' # 0 PROVE Backed(writes, state', Streams', revision')
  <2>1. PICK p \in Prefix : readRev[p] # Refused /\ revision' = readRev[p]
    BY <1>1, <1>4 DEF IsAppliedRevision, ReadRevisions
  <2>2. readRev[p] \in 0 .. Len(writes) /\ Len(writes) \in Nat
    BY <1>1, <2>1 DEF BackedInv, WatchInv, Inv, TypeOK, ReadInv, ReadsArePast, Unread, Refused
  <2>3. ASSUME NEW k \in KeysUnder(p) PROVE state'[k] = RowIn(writes, k, readRev[p])
    <3>1. k \in Key /\ Under[k] = {p}
      BY DEF KeysUnder, BackedInv, WatchInv, DisjointPrefixes
    <3>2. state'[k] = loaded[k]
      BY <1>1, <2>1, <3>1 DEF UnionOfReads, Carried
    <3>3. loaded[k] = RowIn(writes, k, readRev[p])
      BY <2>2, <3>1 DEF BackedInv, WatchInv, ReadInv, UnionIsRead
    <3> QED BY <3>2, <3>3
  <2>4. NothingMissingIn(writes, p, state', revision')
    BY <2>1, <2>2, <2>3 DEF NothingMissingIn
  <2> QED BY <1>3, <2>4 DEF Backed
<1>5. ClaimsAreBacked'
  BY <1>1, <1>2, <1>4 DEF ClaimsAreBacked, Backed
<1>6. FilesAreBacked' /\ ClaimsAgree'
  BY <1>1, <1>2 DEF BackedInv, BackedParts, FilesAreBacked, Files, ClaimsAgree
<1> QED BY <1>5, <1>6 DEF BackedParts

\* What is written to a file is backed by the prefix that backs its revision.
LEMMA FlushBacked ==
    ASSUME NEW entries, NEW pins, NEW rev, NEW snap, NEW seen,
           Flush(entries, pins, rev, snap, seen), UNCHANGED <<writes, disk>>, FilesAreBacked,
           rev # 0 => \E p \in Prefix : NothingMissingIn(writes, p, entries, rev)
    PROVE  FilesAreBacked'
<1> DEFINE f == [entries |-> entries, stale |-> pins, rev |-> rev, served |-> snap, upTo |-> seen]
<1>1. Files' \subseteq Files \union {f}
  BY DEF Flush, Files
<1>2. f.rev = rev /\ f.entries = entries
  OBVIOUS
<1>. HIDE DEF f
<1> QED BY <1>1, <1>2 DEF FilesAreBacked

LEMMA ReportBacked ==
    ASSUME BackedInv, ReportLoad \/ ReportBatch
    PROVE  BackedParts'
<1>1. /\ UNCHANGED <<writes, state, revision, next, disk>>
      /\ reported' = revision
      /\ \/ ReportLoad /\ phase = "loaded" /\ phase' = "opening"
            /\ applied' = revision /\ stamp' = stamp
         \/ ReportBatch /\ phase = "published" /\ phase' = "watching"
            /\ applied' = MaxOf(applied, stamp) /\ stamp' = 0
      /\ Flush(state, stale, revision, snapshot, upTo) \/ pending' = pending
  BY DEF ReportLoad, ReportBatch
<1>2. Claims' \subseteq Claims \union {0}
  BY <1>1 DEF Claims, MaxOf
<1>3. \A p \in Prefix : Streams'[p] # NoStream => Streams'[p] = Streams[p]
  BY <1>1 DEF Streams, Watching
<1>4. ClaimsAgree'
  BY <1>1 DEF BackedInv, BackedParts, ClaimsAgree
<1>5. CASE pending' = pending
  BY <1>1, <1>2, <1>3, <1>4, <1>5, IdleBacked DEF Files
<1>6. CASE Flush(state, stale, revision, snapshot, upTo)
  <2>1. ClaimsAreBacked'
    <3>. SUFFICES ASSUME NEW r \in Claims' PROVE Backed(writes, state, Streams', r)
      BY <1>1 DEF ClaimsAreBacked
    <3>1. r # 0 => Backed(writes, state, Streams, r)
      BY <1>2 DEF BackedInv, BackedParts, ClaimsAreBacked
    <3> QED BY <1>3, <3>1 DEF Backed
  <2>2. Backed(writes, state, Streams, revision)
    BY DEF BackedInv, BackedParts, ClaimsAreBacked, Claims
  <2>3. FilesAreBacked'
    BY <1>1, <1>6, <2>2, FlushBacked DEF Backed, BackedInv, BackedParts
  <2> QED BY <1>4, <2>1, <2>3 DEF BackedParts
<1> QED BY <1>1, <1>5, <1>6

\* Each stream begins behind the read of its prefix, which no claim is after.
LEMMA OpenWatchesBacked ==
    ASSUME BackedInv, OpenWatches
    PROVE  BackedParts'
<1>1. /\ phase = "opening" /\ phase' = "watching"
      /\ UNCHANGED <<writes, state, revision, applied, reported, stamp, pending, disk>>
  BY DEF OpenWatches
<1>2. \A p \in Prefix : next'[p] # NoStream => readRev[p] # Refused /\ next'[p] = readRev[p] + 1
  BY DEF OpenWatches
<1>3. Claims = {revision, 0} /\ Claims' = Claims
  BY <1>1 DEF Claims, BackedInv, BackedParts, ClaimsAgree, WatchInv, ReadInv, LoadIsUnion
<1>4. ASSUME NEW p \in Prefix, Streams'[p] # NoStream PROVE revision < Streams'[p]
  <2>1. Streams'[p] = next'[p]
    BY <1>1 DEF Streams, Watching
  <2>2. readRev[p] # Refused /\ Streams'[p] = readRev[p] + 1
    BY <1>2, <1>4, <2>1
  <2>3. readRev[p] \in Nat /\ revision \in Nat /\ revision <= readRev[p]
    BY <1>1, <2>2 DEF BackedInv, WatchInv, Inv, TypeOK, ReadInv, LoadIsUnion
  <2> QED BY <2>2, <2>3
<1>5. ClaimsAreBacked'
  <2>1. Backed(writes, state, Streams, revision)
    BY DEF BackedInv, BackedParts, ClaimsAreBacked, Claims
  <2>2. Backed(writes, state, Streams', revision)
    BY <1>4, <2>1 DEF Backed
  <2> QED BY <1>1, <1>3, <2>2 DEF ClaimsAreBacked, Backed
<1> QED BY <1>1, <1>5 DEF BackedInv, BackedParts, FilesAreBacked, Files, ClaimsAgree

\* An event that is claimed is backed by its own prefix.
LEMMA StageEventBacked ==
    ASSUME BackedInv, NEW p \in Prefix, StageEvent(p)
    PROVE  BackedParts'
<1>1. PICK i \in 1 .. Len(writes), k \in Key :
         /\ next[p] # NoStream /\ next[p] <= i /\ next' = [next EXCEPT ![p] = i + 1]
         /\ p \in Under[k]
         /\ state' = [state EXCEPT ![k] = RowIn(writes, k, i)]
         /\ revision' = MaxOf(revision, i)
         /\ stamp' = MaxOf(stamp, i) \/ stamp' = stamp \/ stamp' = MaxOf(stamp, MaxOf(revision, i))
  BY StagedEvent DEF BackedInv, WatchInv, Inv
<1>2. /\ Watching /\ phase' = "staging" /\ Watching' /\ phase # "loaded"
      /\ UNCHANGED <<writes, applied, reported, pending, disk>>
  BY DEF StageEvent, Watching
<1>3. /\ Len(writes) \in Nat /\ i \in Nat /\ i \in 0 .. Len(writes) /\ i + 1 # NoStream
      /\ next[p] \in Nat /\ Claims \subseteq Nat
  BY <1>1, BackedTypes DEF NoStream
<1>4. Claims' \subseteq Claims \union {i}
  BY <1>1, <1>2 DEF Claims, MaxOf
<1>5. /\ Streams[p] = next[p] /\ Streams'[p] = i + 1
      /\ \A q \in Prefix : q # p => Streams'[q] = Streams[q]
  BY <1>1, <1>2 DEF Streams, BackedInv, WatchInv, Inv, TypeOK
<1>6. ASSUME NEW r \in Nat, r <= i PROVE Backed(writes, state', Streams', r)
  <2>1. WatchedUpTo'
    BY StageEventWatched DEF BackedInv, WatchInv, WatchParts
  <2>2. ASSUME NEW j \in KeysUnder(p) PROVE state'[j] = RowIn(writes, j, i)
    <3>1. j \in Key /\ p \in Under[j]
      BY DEF KeysUnder
    <3>2. next'[p] = i + 1
      BY <1>2, <1>5 DEF Streams
    <3>3. next'[p] # NoStream /\ next'[p] - 1 = i
      BY <1>3, <3>2
    <3> QED BY <1>2, <2>1, <3>1, <3>3 DEF WatchedUpTo
  <2>3. NothingMissingIn(writes, p, state', r)
    BY <1>3, <1>6, <2>2 DEF NothingMissingIn
  <2>4. r < Streams'[p]
    BY <1>3, <1>5, <1>6
  <2> QED BY <2>3, <2>4 DEF Backed
<1>7. ASSUME NEW r \in Claims, r # 0 PROVE Backed(writes, state', Streams', r)
  <2>1. PICK q \in Prefix : /\ NothingMissingIn(writes, q, state, r)
                            /\ Streams[q] # NoStream => r < Streams[q]
    BY <1>7 DEF BackedInv, BackedParts, ClaimsAreBacked, Backed
  <2>2. CASE q = p
    <3>1. r \in Nat /\ r <= i
      BY <1>1, <1>3, <1>5, <2>1, <2>2
    <3> QED BY <1>6, <3>1
  <2>3. CASE q # p
    <3>1. k \notin KeysUnder(q)
      BY <1>1, <2>3 DEF KeysUnder, BackedInv, WatchInv, DisjointPrefixes
    <3>2. \A j \in KeysUnder(q) : state'[j] = state[j]
      BY <1>1, <3>1 DEF BackedInv, WatchInv, Inv, TypeOK, KeysUnder
    <3>3. NothingMissingIn(writes, q, state', r)
      BY <2>1, <3>2 DEF NothingMissingIn
    <3> QED BY <1>5, <2>1, <2>3, <3>3 DEF Backed
  <2> QED BY <2>2, <2>3
<1>8. ClaimsAreBacked'
  <2>. SUFFICES ASSUME NEW r \in Claims' PROVE Backed(writes, state', Streams', r)
    BY <1>2 DEF ClaimsAreBacked
  <2>1. CASE r = i
    BY <1>3, <1>6, <2>1
  <2>2. CASE r # i
    BY <1>4, <1>7, <2>2 DEF Backed
  <2> QED BY <2>1, <2>2
<1> QED BY <1>2, <1>8 DEF BackedInv, BackedParts, FilesAreBacked, Files, ClaimsAgree

\* A process that restores a file claims what the file claims, and the highest
\* of its rows, which the row's own prefix backs.
LEMMA RestoreBacked ==
    ASSUME BackedInv, Boot, CacheEnabled, disk # NoFile
    PROVE  BackedParts'
<1>1. /\ UNCHANGED <<writes, stamp, disk>> /\ phase = "off" /\ phase' = "reading"
      /\ RestoreFromCache(build')
  BY DEF Boot
<1>2. disk \in Files /\ stamp = 0
  BY <1>1 DEF Files, BackedInv, BackedParts, ClaimsAgree
<1> DEFINE pins == ResyncPins(disk.entries, disk.stale, NoneServed, NoRows, build')
           snap == ResyncSnapshot(disk.entries, pins, build')
<1>3. PICK highest \in RowRevisions(disk.entries) \union {0} :
         applied' = highest /\ Flush(disk.entries, pins, highest, snap, disk.upTo)
  BY <1>1 DEF RestoreFromCache
<1>4. state' = disk.entries /\ revision' = disk.rev /\ reported' = disk.rev
  BY <1>1 DEF RestoreFromCache
<1>. HIDE DEF pins, snap
<1>5. disk.rev # 0 => \E p \in Prefix : NothingMissingIn(writes, p, disk.entries, disk.rev)
  BY <1>2 DEF BackedInv, BackedParts, FilesAreBacked
<1>6. ASSUME highest # 0
      PROVE  \E p \in Prefix : NothingMissingIn(writes, p, disk.entries, highest)
  <2>1. PICK k \in Key : disk.entries[k] # NoRow /\ highest = disk.entries[k].rev
    BY <1>3, <1>6 DEF RowRevisions
  <2>2. PICK p \in Prefix : p \in Under[k]
    BY SupervisorAssumption DEF SupervisorAssumption
  <2>3. PICK now \in 0 .. Len(writes) : \A j \in KeysUnder(p) : disk.entries[j] = RowIn(writes, j, now)
    BY <1>2 DEF BackedInv, PrefixesAreCuts, HasCut
  <2>4. disk.entries[k] = RowIn(writes, k, now)
    BY <2>2, <2>3 DEF KeysUnder
  <2>5. writes \in Seq(Change) /\ Len(writes) \in Nat
    BY BackedTypes
  <2>6. highest \in 1 .. now
    BY <2>1, <2>4, <2>5, RowInRow
  <2>7. now \in highest .. Len(writes)
    BY <2>5, <2>6
  <2> QED BY <2>3, <2>7 DEF NothingMissingIn
<1>7. FilesAreBacked'
  BY <1>1, <1>3, <1>6, FlushBacked DEF BackedInv, BackedParts
<1>8. Claims' \subseteq {disk.rev, highest, 0}
  BY <1>1, <1>2, <1>3, <1>4 DEF Claims
<1>9. \A p \in Prefix : Streams'[p] = NoStream
  BY <1>1 DEF Streams, Watching
<1>10. ClaimsAreBacked'
  BY <1>1, <1>4, <1>5, <1>6, <1>8, <1>9 DEF ClaimsAreBacked, Backed
<1>11. ClaimsAgree'
  BY <1>1, <1>2 DEF ClaimsAgree
<1> QED BY <1>7, <1>10, <1>11 DEF BackedParts

LEMMA ForgetBacked ==
    ASSUME BackedInv, Forget, UNCHANGED <<writes, disk>>, phase' = "off"
    PROVE  BackedParts'
<1>1. /\ revision' = 0 /\ applied' = 0 /\ reported' = 0 /\ stamp' = 0 /\ pending' = {}
  BY DEF Forget
<1>2. Claims' = {0} /\ Files' \subseteq Files
  BY <1>1 DEF Claims, Files
<1> QED BY <1>1, <1>2 DEF BackedInv, BackedParts, ClaimsAreBacked, Backed, FilesAreBacked, ClaimsAgree

LEMMA StepBacked ==
    ASSUME BackedInv, [Next]_vars
    PROVE  BackedParts'
<1>. USE DEF Streams, Watching, Claims, Files
<1>1. ASSUME NEW k \in Key, NEW v \in Val \union {Absent}, Write(k, v) PROVE BackedParts'
  BY <1>1, WriteBacked
<1>2. ASSUME NEW p \in Prefix, ReadPrefix(p) \/ ReadRefused(p) PROVE BackedParts'
  <2>1. ClaimsAgree'
    BY <1>2 DEF ReadPrefix, ReadRefused, BackedInv, BackedParts, ClaimsAgree
  <2> QED BY <1>2, <2>1, IdleBacked DEF ReadPrefix, ReadRefused
<1>3. ASSUME NEW w \in pending, CommitWrite(w) \/ WriteFails(w) PROVE BackedParts'
  <2>1. ClaimsAgree'
    BY <1>3 DEF CommitWrite, WriteFails, BackedInv, BackedParts, ClaimsAgree
  <2> QED BY <1>3, <2>1, IdleBacked DEF CommitWrite, WriteFails
<1>4. ASSUME Publish \/ Cancel \/ EndCycle \/ UNCHANGED vars PROVE BackedParts'
  <2>1. ClaimsAgree'
    BY <1>4 DEF Publish, Cancel, EndCycle, vars, BackedInv, BackedParts, ClaimsAgree
  <2> QED BY <1>4, <2>1, IdleBacked DEF Publish, Cancel, EndCycle, vars
<1>5. ASSUME Boot, ~(CacheEnabled /\ disk # NoFile) PROVE BackedParts'
  <2>1. ClaimsAgree'
    BY <1>5 DEF Boot, BackedInv, BackedParts, ClaimsAgree
  <2> QED BY <1>5, <2>1, IdleBacked DEF Boot
<1>6. ASSUME Drained \/ Crash PROVE BackedParts'
  BY <1>6, ForgetBacked DEF Drained, Crash
<1> QED BY <1>1, <1>2, <1>3, <1>4, <1>5, <1>6, ApplyLoadBacked, ReportBacked, OpenWatchesBacked,
           StageEventBacked, RestoreBacked DEF Next, SupervisorStep

LEMMA InitBacked == Init => BackedParts
BY DEF Init, BackedParts, ClaimsAreBacked, Claims, Backed, FilesAreBacked, Files, ClaimsAgree

\* Over any number of prefixes that do not overlap, a revision in a heartbeat, on
\* /status/config or in a cache file is never one that no part of the
\* configuration has reached: some prefix is applied, or saved, up to it without
\* a gap, whatever was refused, restarted or restored.
THEOREM ClaimsHaveAPrefix == Spec /\ DisjointPrefixes => []ClaimsAreOfAPrefix
<1>1. BackedInv /\ WatchInv' /\ PrefixesAreCuts' /\ [Next]_vars => BackedInv'
  BY StepBacked DEF BackedInv
<1>2. BackedInv => ClaimsAreOfAPrefix
  BY MissingIn DEF BackedInv, BackedParts, ClaimsAreBacked, Claims, Backed, FilesAreBacked,
                   ClaimsAreOfAPrefix
<1> QED BY <1>1, <1>2, InitBacked, WatchInvariance, EachPrefixIsCut, PTL DEF Spec, BackedInv

=============================================================================
