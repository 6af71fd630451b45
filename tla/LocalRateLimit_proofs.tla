------------------------ MODULE LocalRateLimit_proofs ------------------------
(***************************************************************************)
(* Proofs about LocalRateLimit for any requests, keys, layers, windows,    *)
(* limits and bounds, and however old the clock readings are.              *)
(***************************************************************************)
EXTENDS LocalRateLimit, FiniteSetTheorems, TLAPS

-----------------------------------------------------------------------------
(* The operators the model is built from.                                  *)

LEMMA BucketType ==
    ASSUME NEW d \in Dim, NEW now \in 0 .. MaxTime
    PROVE  Bucket(d, now) \in Nat /\ Bucket(d, now) \in Buckets
<1>1. Window[d] \in Nat \ {0} /\ now \in Nat
  BY RateLimitAssumption DEF RateLimitAssumption
<1>2. now \div Window[d] \in Nat
  BY <1>1
<1> QED BY <1>2 DEF Bucket, Buckets

\* Buckets follow the clock.
LEMMA BucketOrder ==
    ASSUME NEW d \in Dim, NEW a \in Nat, NEW b \in Nat, a <= b
    PROVE  Bucket(d, a) \in Nat /\ Bucket(d, b) \in Nat /\ Bucket(d, a) <= Bucket(d, b)
<1> DEFINE w == Window[d]
           q == a \div w
           s == b \div w
<1>1. w \in Nat /\ w > 0
  BY RateLimitAssumption DEF RateLimitAssumption
<1>. HIDE DEF w
<1>2. q \in Nat /\ s \in Nat
  BY <1>1
<1>3. w * q <= a /\ b < w * s + w
  BY <1>1
<1>. HIDE DEF q, s
<1>4. ASSUME s < q PROVE FALSE
  <2>1. s + 1 <= q
    BY <1>2, <1>4
  <2>2. w * (s + 1) <= w * q
    BY <1>1, <1>2, <2>1
  <2>3. w * (s + 1) = w * s + w
    BY <1>1, <1>2
  <2>4. w * q \in Nat /\ w * s \in Nat
    BY <1>1, <1>2
  <2> QED BY <1>1, <1>2, <1>3, <2>2, <2>3, <2>4
<1>5. q <= s
  BY <1>2, <1>4
<1> QED BY <1>2, <1>5 DEF q, s, w, Bucket

LEMMA BucketMonotone ==
    ASSUME NEW d \in Dim, NEW now \in Nat
    PROVE  Bucket(d, now) <= Bucket(d, now + 1)
BY BucketOrder

\* Every check is of one of the dimensions.
LEMMA CheckIsDim ==
    ASSUME NEW n \in DOMAIN Checks
    PROVE  Checks[n] \in Dim
<1>1. TokenDims \in Seq(Dim) /\ RequestDims \in Seq(Dim)
  BY RateLimitAssumption DEF RateLimitAssumption, Dim
<1>2. Checks \in Seq(Dim)
  BY <1>1 DEF Checks
<1> QED BY <1>2

\* A request has no key twice among its layers.
LEMMA LayerKey ==
    ASSUME NEW r \in Request, NEW i \in 1 .. Len(Layers[r])
    PROVE  /\ Layers[r][i] \in Key
           /\ \A j \in 1 .. Len(Layers[r]) : Layers[r][j] = Layers[r][i] => j = i
<1>1. Layers[r] \in Seq(Key)
  BY RateLimitAssumption DEF RateLimitAssumption
<1>2. DOMAIN Layers[r] = 1 .. Len(Layers[r])
  BY <1>1
<1>3. \A a, b \in DOMAIN Layers[r] : Layers[r][a] = Layers[r][b] => a = b
  BY RateLimitAssumption DEF RateLimitAssumption
<1> QED BY <1>1, <1>2, <1>3

\* What a thread may have read from the clock is a past second.
LEMMA ReadingType ==
    ASSUME clock \in 0 .. MaxTime, NEW now \in Readings
    PROVE  now \in 0 .. MaxTime
BY RateLimitAssumption DEF Readings, RateLimitAssumption

\* Using counters keeps them counters.
LEMMA UseType ==
    ASSUME window \in [Key -> [Dim -> Nat]], count \in [Key -> [Dim -> Nat]],
           spent \in [Key -> [Dim -> [Buckets -> Nat]]],
           wiped \in [Key -> [Dim -> [Buckets -> Nat]]],
           NEW k \in Key, NEW ds, NEW now \in 0 .. MaxTime, NEW gaining,
           NEW n \in Nat, Use(k, ds, now, gaining, n)
    PROVE  /\ window' \in [Key -> [Dim -> Nat]] /\ count' \in [Key -> [Dim -> Nat]]
           /\ wiped' \in [Key -> [Dim -> [Buckets -> Nat]]]
<1>1. \A d \in Dim : Bucket(d, now) \in Nat
  BY BucketType
<1>2. \A d \in Dim : Rolled(k, d, now) \in Nat
  BY DEF Rolled
<1>3. wiped' \in [Key -> [Dim -> [Buckets -> Nat]]]
  <2>. DEFINE wipe(d, b) == /\ d \in ds
                            /\ Bucket(d, now) < window[k][d]
                            /\ b \in Bucket(d, now) .. window[k][d]
              row == [d \in Dim |-> [b \in Buckets |->
                         IF wipe(d, b) THEN spent[k][d][b] ELSE wiped[k][d][b]]]
  <2>1. wiped' = [wiped EXCEPT ![k] = row]
    BY DEF Use, Wipe
  <2>. HIDE DEF wipe
  <2>2. row \in [Dim -> [Buckets -> Nat]]
    OBVIOUS
  <2>. HIDE DEF row
  <2> QED BY <2>1, <2>2
<1>4. window' \in [Key -> [Dim -> Nat]] /\ count' \in [Key -> [Dim -> Nat]]
  BY <1>1, <1>2 DEF Use
<1> QED BY <1>3, <1>4

LEMMA RecordType ==
    ASSUME spent \in [Key -> [Dim -> [Buckets -> Nat]]],
           NEW k \in Key, NEW gaining, NEW now \in 0 .. MaxTime, NEW n \in Nat,
           Record(k, gaining, now, n)
    PROVE  spent' \in [Key -> [Dim -> [Buckets -> Nat]]]
BY DEF Record

LEMMA SlotType ==
    ASSUME inFlight \in [Key -> Nat], NEW k \in Key, TakeSlot(k) \/ ReturnSlot(k)
    PROVE  inFlight' \in [Key -> Nat]
BY DEF TakeSlot, ReturnSlot, Saturating

-----------------------------------------------------------------------------
(* Type correctness.                                                       *)

USE DEF counters

LEMMA InitType == Init => TypeOK
<1>. SUFFICES ASSUME Init PROVE TypeOK
  OBVIOUS
<1>1. clock \in 0 .. MaxTime /\ 0 \in 0 .. MaxTokens
  BY RateLimitAssumption DEF RateLimitAssumption, Init
<1>2. \A r \in Request : Layers[r] \in Seq(Key) /\ Len(Layers[r]) > 0
  BY RateLimitAssumption DEF RateLimitAssumption
<1> QED BY <1>1, <1>2 DEF Init, TypeOK, Stage

LEMMA ReserveType ==
    ASSUME TypeOK, NEW r \in Request, Reserve(r)
    PROVE  TypeOK'
<1> DEFINE k == Layers[r][last[r] + 1]
<1>1. last[r] + 1 \in 1 .. Len(Layers[r]) /\ k \in Key
  <2>1. last[r] + 1 \in 1 .. Len(Layers[r])
    BY RateLimitAssumption DEF TypeOK, Reserve, RateLimitAssumption
  <2> QED BY <2>1, LayerKey
<1>2. ASSUME TurnAway(r), UNCHANGED <<clock, inFlight, first, last, billed, tokens, spent>>,
             window' \in [Key -> [Dim -> Nat]], count' \in [Key -> [Dim -> Nat]],
             wiped' \in [Key -> [Dim -> [Buckets -> Nat]]]
      PROVE  TypeOK'
  BY <1>2 DEF TypeOK, Reserve, TurnAway, Stage
<1>3. CASE RefuseSlot(r, k)
  BY <1>2, <1>3 DEF RefuseSlot, TypeOK
<1>4. ASSUME NEW now \in Readings, RefuseWindow(r, k, now) PROVE TypeOK'
  <2>1. now \in 0 .. MaxTime
    BY ReadingType DEF TypeOK
  <2>2. PICK n \in DOMAIN Checks : Use(k, Checked(k, n), now, {}, 0)
    BY <1>4 DEF RefuseWindow
  <2>3. /\ window' \in [Key -> [Dim -> Nat]] /\ count' \in [Key -> [Dim -> Nat]]
        /\ wiped' \in [Key -> [Dim -> [Buckets -> Nat]]]
    <3>. HIDE DEF k
    <3> QED BY <1>1, <2>1, <2>2, UseType DEF TypeOK
  <2> QED BY <1>2, <1>4, <2>3 DEF RefuseWindow
<1>5. ASSUME NEW now \in Readings, Admit(r, k, now) PROVE TypeOK'
  <2>1. now \in 0 .. MaxTime
    BY ReadingType DEF TypeOK
  <2>2. /\ window' \in [Key -> [Dim -> Nat]] /\ count' \in [Key -> [Dim -> Nat]]
        /\ spent' \in [Key -> [Dim -> [Buckets -> Nat]]]
        /\ wiped' \in [Key -> [Dim -> [Buckets -> Nat]]]
        /\ inFlight' \in [Key -> Nat]
    <3>. HIDE DEF k
    <3> QED BY <1>1, <1>5, <2>1, UseType, RecordType, SlotType DEF TypeOK, Admit
  <2>3. /\ pc' = [pc EXCEPT ![r] = IF last[r] + 1 = Len(Layers[r]) THEN "serving" ELSE @]
        /\ last' = [last EXCEPT ![r] = @ + 1]
        /\ UNCHANGED <<clock, first, billed, tokens>>
        /\ pc[r] = "reserving"
    BY <1>5 DEF Admit, Reserve
  <2> QED BY <1>1, <2>2, <2>3, Z3 DEF TypeOK, Stage
<1> QED BY <1>3, <1>4, <1>5 DEF Reserve

\* Billing and letting go concern a layer the request has.
LEMMA LayerHeld ==
    ASSUME TypeOK, NEW r \in Request
    PROVE  /\ pc[r] \in {"committing", "dropping"} =>
                /\ first[r] \in 1 .. Len(Layers[r]) /\ first[r] <= last[r]
                /\ Layers[r][first[r]] \in Key
           /\ pc[r] = "billing" =>
                /\ billed[r] + 1 \in 1 .. Len(Layers[r]) /\ billed[r] + 1 <= last[r]
                /\ first[r] = 1
                /\ Layers[r][billed[r] + 1] \in Key
<1>1. Layers[r] \in Seq(Key) /\ Len(Layers[r]) \in Nat
  BY RateLimitAssumption DEF RateLimitAssumption
<1>2. pc[r] \in {"committing", "dropping"} =>
         first[r] \in 1 .. Len(Layers[r]) /\ first[r] <= last[r]
  BY <1>1 DEF TypeOK
<1>3. pc[r] = "billing" =>
         /\ billed[r] + 1 \in 1 .. Len(Layers[r]) /\ billed[r] + 1 <= last[r]
         /\ first[r] = 1
  BY <1>1 DEF TypeOK
<1> QED BY <1>2, <1>3, LayerKey

LEMMA AddTokensType ==
    ASSUME TypeOK, NEW k \in Key, NEW now \in Readings, NEW n \in 0 .. MaxTokens,
           AddTokens(k, now, n)
    PROVE  /\ window' \in [Key -> [Dim -> Nat]] /\ count' \in [Key -> [Dim -> Nat]]
           /\ spent' \in [Key -> [Dim -> [Buckets -> Nat]]]
           /\ wiped' \in [Key -> [Dim -> [Buckets -> Nat]]]
<1>1. now \in 0 .. MaxTime /\ n \in Nat
  BY ReadingType DEF TypeOK
<1> QED BY <1>1, UseType, RecordType DEF TypeOK, AddTokens

LEMMA LettingGoType ==
    ASSUME TypeOK, NEW r \in Request, CommitLayer(r) \/ DropLayer(r)
    PROVE  TypeOK'
<1> DEFINE k == Layers[r][first[r]]
<1>1. k \in Key
  BY LayerHeld DEF CommitLayer, DropLayer
<1>2. /\ window' \in [Key -> [Dim -> Nat]] /\ count' \in [Key -> [Dim -> Nat]]
      /\ spent' \in [Key -> [Dim -> [Buckets -> Nat]]]
      /\ wiped' \in [Key -> [Dim -> [Buckets -> Nat]]]
  <2>1. CASE DropLayer(r)
    BY <2>1 DEF DropLayer, TypeOK
  <2>2. CASE CommitLayer(r)
    <3>1. PICK now \in Readings : AddTokens(k, now, tokens[r])
      BY <2>2 DEF CommitLayer
    <3>2. tokens[r] \in 0 .. MaxTokens
      BY DEF TypeOK
    <3>. HIDE DEF k
    <3> QED BY <1>1, <3>1, <3>2, AddTokensType
  <2> QED BY <2>1, <2>2
<1>3. inFlight' \in [Key -> Nat]
  <2>1. ReturnSlot(k)
    BY DEF CommitLayer, DropLayer
  <2>. HIDE DEF k
  <2> QED BY <1>1, <2>1, SlotType DEF TypeOK
<1>4. LetGo(r) /\ UNCHANGED <<clock, last, billed, tokens>>
      /\ pc[r] \in {"committing", "dropping"}
  BY DEF CommitLayer, DropLayer
<1> QED BY <1>2, <1>3, <1>4 DEF TypeOK, LetGo, Stage

LEMMA BillLayerType ==
    ASSUME TypeOK, NEW r \in Request, BillLayer(r)
    PROVE  TypeOK'
<1> DEFINE k == Layers[r][billed[r] + 1]
<1>1. k \in Key /\ tokens[r] \in 0 .. MaxTokens
  BY LayerHeld DEF BillLayer, TypeOK
<1>2. PICK now \in Readings : AddTokens(k, now, tokens[r])
  BY DEF BillLayer
<1>3. /\ window' \in [Key -> [Dim -> Nat]] /\ count' \in [Key -> [Dim -> Nat]]
      /\ spent' \in [Key -> [Dim -> [Buckets -> Nat]]]
      /\ wiped' \in [Key -> [Dim -> [Buckets -> Nat]]]
  <2>. HIDE DEF k
  <2> QED BY <1>1, <1>2, AddTokensType
<1> QED BY <1>3 DEF BillLayer, TypeOK, Stage

LEMMA TypeInductive == TypeOK /\ [Next]_vars => TypeOK'
<1>. SUFFICES ASSUME TypeOK, [Next]_vars PROVE TypeOK'
  OBVIOUS
<1>1. CASE UNCHANGED vars
  BY <1>1 DEF TypeOK, vars
<1>2. ASSUME NEW r \in Request, Finish(r) PROVE TypeOK'
  BY <1>2 DEF Finish, TypeOK, Stage
<1>3. ASSUME NEW r \in Request, Cancel(r) \/ StartStream(r) PROVE TypeOK'
  BY <1>3 DEF Cancel, StartStream, TypeOK, Stage
<1>4. ASSUME NEW r \in Request, EndStream(r) PROVE TypeOK'
  BY <1>4 DEF EndStream, TypeOK, Stage
<1>5. ASSUME NEW k \in Key, Peek(k) PROVE TypeOK'
  <2>1. PICK now \in Readings : Use(k, PeekDims, now, {}, 0)
    BY <1>5 DEF Peek
  <2>2. now \in 0 .. MaxTime
    BY ReadingType DEF TypeOK
  <2>3. /\ window' \in [Key -> [Dim -> Nat]] /\ count' \in [Key -> [Dim -> Nat]]
        /\ wiped' \in [Key -> [Dim -> [Buckets -> Nat]]]
    BY <2>1, <2>2, UseType DEF TypeOK
  <2> QED BY <1>5, <2>3 DEF Peek, TypeOK
<1>6. CASE Tick
  BY <1>6, RateLimitAssumption DEF Tick, TypeOK, RateLimitAssumption
<1> QED BY <1>1, <1>2, <1>3, <1>4, <1>5, <1>6,
           ReserveType, BillLayerType, LettingGoType DEF Next, RequestStep

\* Every reachable state is well typed, and a request at some stage has come
\* through the stages before it.
THEOREM TypeCorrect == Spec => []TypeOK
<1> QED BY InitType, TypeInductive, PTL DEF Spec

-----------------------------------------------------------------------------
(* Slots.                                                                  *)

LEMMA HoldersFinite ==
    ASSUME NEW k \in Key
    PROVE  IsFiniteSet(Holders(k)) /\ Cardinality(Holders(k)) \in Nat
<1>1. IsFiniteSet(Request) /\ Holders(k) \in SUBSET Request
  BY RateLimitAssumption DEF RateLimitAssumption, Holders
<1>2. IsFiniteSet(Holders(k))
  BY <1>1, FS_Subset
<1> QED BY <1>2, FS_CardinalityType

\* Admitting a request makes it a holder of that layer's key, which it was
\* not, and changes no other key's holders.
LEMMA AdmitHolders ==
    ASSUME TypeOK, NEW r \in Request, pc[r] = "reserving",
           NEW k, k = Layers[r][last[r] + 1],
           NEW now \in Readings, Admit(r, k, now)
    PROVE  /\ k \in Key
           /\ r \notin Holders(k)
           /\ Holders(k)' = Holders(k) \union {r}
           /\ \A j \in Key \ {k} : Holders(j)' = Holders(j)
<1>1. /\ last[r] \in Nat /\ Len(Layers[r]) \in Nat
      /\ last[r] + 1 \in 1 .. Len(Layers[r]) /\ first[r] = 1
  BY RateLimitAssumption DEF TypeOK, RateLimitAssumption
<1>2. k \in Key /\ \A i \in 1 .. last[r] : Layers[r][i] # k
  BY <1>1, LayerKey
<1>3. first' = first /\ last' = [last EXCEPT ![r] = @ + 1]
  BY DEF Admit
<1>4. last'[r] = last[r] + 1 /\ \A q \in Request \ {r} : last'[q] = last[q]
  BY <1>3 DEF TypeOK
<1>5. \A q \in Request \ {r}, j \in Key : Holds(q, j)' <=> Holds(q, j)
  BY <1>3, <1>4 DEF Holds
<1>6. \A j \in Key : Holds(r, j)' <=> (Holds(r, j) \/ j = k)
  <2>1. first'[r] .. last'[r] = (first[r] .. last[r]) \union {last[r] + 1}
    BY <1>1, <1>3, <1>4
  <2> QED BY <2>1 DEF Holds
<1>7. ~Holds(r, k)
  BY <1>1, <1>2 DEF Holds
<1> QED BY <1>2, <1>5, <1>6, <1>7 DEF Holders

\* Letting go of a layer ends one request's hold of its key and no other.
LEMMA LetGoHolders ==
    ASSUME TypeOK, NEW r \in Request, CommitLayer(r) \/ DropLayer(r),
           NEW k, k = Layers[r][first[r]]
    PROVE  /\ k \in Key
           /\ r \in Holders(k)
           /\ Holders(k)' = Holders(k) \ {r}
           /\ \A j \in Key \ {k} : Holders(j)' = Holders(j)
<1>1. /\ pc[r] \in {"committing", "dropping"}
      /\ last' = last /\ first' = [first EXCEPT ![r] = @ + 1]
  BY DEF CommitLayer, DropLayer, LetGo
<1>2. /\ first[r] \in 1 .. Len(Layers[r]) /\ first[r] <= last[r] /\ k \in Key
      /\ last[r] \in Nat /\ last[r] <= Len(Layers[r])
  BY <1>1, LayerHeld DEF TypeOK
<1>3. \A i \in 1 .. Len(Layers[r]) : Layers[r][i] = k => i = first[r]
  BY <1>2, LayerKey
<1>4. first'[r] = first[r] + 1 /\ \A q \in Request \ {r} : first'[q] = first[q]
  BY <1>1 DEF TypeOK
<1>5. \A q \in Request \ {r}, j \in Key : Holds(q, j)' <=> Holds(q, j)
  BY <1>1, <1>4 DEF Holds
<1>6. Len(Layers[r]) \in Nat
  BY RateLimitAssumption DEF RateLimitAssumption
<1>7. first[r] .. last[r] = {first[r]} \union (first'[r] .. last'[r])
  BY <1>1, <1>2, <1>4, <1>6
<1>8. \A i \in first'[r] .. last'[r] : Layers[r][i] # k
  BY <1>1, <1>2, <1>3, <1>4, <1>6
<1>9. Holds(r, k) /\ ~Holds(r, k)'
  BY <1>7, <1>8 DEF Holds
<1>10. \A j \in Key \ {k} : Holds(r, j)' <=> Holds(r, j)
  BY <1>7 DEF Holds
<1> QED BY <1>2, <1>5, <1>9, <1>10 DEF Holders

\* The other steps move no request into or out of a key.
LEMMA HoldersKept ==
    ASSUME UNCHANGED <<first, last>>, NEW k \in Key
    PROVE  Holders(k)' = Holders(k)
BY DEF Holders, Holds

\* Every step of the limiter admits a request to a key, lets one go of a key,
\* or leaves who holds which key, and the slots, as they are.
LEMMA SlotSteps ==
    ASSUME TypeOK, [Next]_vars
    PROVE  \/ \E r \in Request, now \in Readings :
                pc[r] = "reserving" /\ Admit(r, Layers[r][last[r] + 1], now)
           \/ \E r \in Request : CommitLayer(r) \/ DropLayer(r)
           \/ UNCHANGED <<inFlight, first, last>>
<1>1. ASSUME NEW r \in Request, Reserve(r)
      PROVE  \/ \E now \in Readings :
                  pc[r] = "reserving" /\ Admit(r, Layers[r][last[r] + 1], now)
             \/ UNCHANGED <<inFlight, first, last>>
  BY <1>1 DEF Reserve, RefuseSlot, RefuseWindow
<1>2. ASSUME NEW r \in Request,
             Finish(r) \/ Cancel(r) \/ StartStream(r) \/ EndStream(r) \/ BillLayer(r)
      PROVE  UNCHANGED <<inFlight, first, last>>
  BY <1>2 DEF Finish, Cancel, StartStream, EndStream, BillLayer
<1>3. ASSUME NEW k \in Key, Peek(k) PROVE UNCHANGED <<inFlight, first, last>>
  BY <1>3 DEF Peek
<1>4. ASSUME Tick PROVE UNCHANGED <<inFlight, first, last>>
  BY <1>4 DEF Tick
<1>5. ASSUME UNCHANGED vars PROVE UNCHANGED <<inFlight, first, last>>
  BY <1>5 DEF vars
<1> QED BY <1>1, <1>2, <1>3, <1>4, <1>5 DEF Next, RequestStep

SlotInv == TypeOK /\ HoldsAreCounted /\ WithinConcurrency

LEMMA SlotInit == Init => SlotInv
<1>. SUFFICES ASSUME Init PROVE HoldsAreCounted /\ WithinConcurrency
  BY InitType DEF SlotInv
<1>1. \A k \in Key : Holders(k) = {}
  BY DEF Init, Holders, Holds
<1>2. \A k \in Key : Cardinality(Holders(k)) = 0
  BY <1>1, FS_EmptySet
<1>3. \A k \in Key : Concurrency[k] # Unlimited => 0 <= Concurrency[k]
  BY RateLimitAssumption DEF RateLimitAssumption
<1> QED BY <1>2, <1>3 DEF Init, HoldsAreCounted, WithinConcurrency

LEMMA SlotInductive == SlotInv /\ [Next]_vars => SlotInv'
<1>. SUFFICES ASSUME SlotInv, [Next]_vars PROVE HoldsAreCounted' /\ WithinConcurrency'
  BY TypeInductive DEF SlotInv
<1>1. TypeOK
  BY DEF SlotInv
<1>2. \A k \in Key : /\ inFlight[k] = Cardinality(Holders(k)) /\ inFlight[k] \in Nat
                     /\ IsFiniteSet(Holders(k))
                     /\ Concurrency[k] # Unlimited => inFlight[k] <= Concurrency[k]
                     /\ Concurrency[k] \in Nat \union {Unlimited}
  BY HoldersFinite, RateLimitAssumption
     DEF SlotInv, HoldsAreCounted, WithinConcurrency, RateLimitAssumption
<1>3. ASSUME NEW r \in Request, NEW now \in Readings, pc[r] = "reserving",
             Admit(r, Layers[r][last[r] + 1], now)
      PROVE  HoldsAreCounted' /\ WithinConcurrency'
  <2>0. PICK k : k = Layers[r][last[r] + 1]
    OBVIOUS
  <2>1. /\ k \in Key /\ r \notin Holders(k)
        /\ Holders(k)' = Holders(k) \union {r}
        /\ \A j \in Key \ {k} : Holders(j)' = Holders(j)
    BY <1>1, <1>3, <2>0, AdmitHolders
  <2>2. ~AtCapacity(k) /\ TakeSlot(k)
    BY <1>3, <2>0 DEF Admit
  <2>3. Cardinality(Holders(k) \union {r}) = Cardinality(Holders(k)) + 1
    BY <1>2, <2>1, FS_AddElement
  <2>4. inFlight' = [inFlight EXCEPT ![k] = @ + 1] /\ inFlight \in [Key -> Nat]
    BY <1>1, <2>2 DEF TakeSlot, TypeOK
  <2>5. \A j \in Key : inFlight'[j] = Cardinality(Holders(j)')
    BY <1>2, <2>1, <2>3, <2>4
  <2>6. Concurrency[k] # Unlimited => inFlight[k] + 1 <= Concurrency[k]
    BY <1>2, <2>1, <2>2 DEF AtCapacity
  <2>7. \A j \in Key : Concurrency[j] # Unlimited => inFlight'[j] <= Concurrency[j]
    BY <1>2, <2>1, <2>4, <2>6
  <2> QED BY <2>5, <2>7 DEF HoldsAreCounted, WithinConcurrency
<1>4. ASSUME NEW r \in Request, CommitLayer(r) \/ DropLayer(r)
      PROVE  HoldsAreCounted' /\ WithinConcurrency'
  <2>0. PICK k : k = Layers[r][first[r]]
    OBVIOUS
  <2>1. /\ k \in Key /\ r \in Holders(k)
        /\ Holders(k)' = Holders(k) \ {r}
        /\ \A j \in Key \ {k} : Holders(j)' = Holders(j)
    BY <1>1, <1>4, <2>0, LetGoHolders
  <2>2. ReturnSlot(k)
    BY <1>4, <2>0 DEF CommitLayer, DropLayer
  <2>3. /\ Cardinality(Holders(k) \ {r}) = Cardinality(Holders(k)) - 1
        /\ Cardinality(Holders(k) \ {r}) \in Nat
    <3>1. IsFiniteSet(Holders(k) \ {r})
      BY <1>2, <2>1, FS_RemoveElement
    <3> QED BY <1>2, <2>1, <3>1, FS_RemoveElement, FS_CardinalityType
  <2>4. inFlight[k] > 0
    BY <1>2, <2>1, <2>3
  <2>5. inFlight' = [inFlight EXCEPT ![k] = @ - 1] /\ inFlight \in [Key -> Nat]
    BY <1>1, <2>1, <2>2, <2>4 DEF ReturnSlot, Saturating, TypeOK
  <2>6. \A j \in Key : inFlight'[j] = Cardinality(Holders(j)')
    BY <1>2, <2>1, <2>3, <2>5
  <2>7. \A j \in Key : Concurrency[j] # Unlimited => inFlight'[j] <= Concurrency[j]
    BY <1>2, <2>1, <2>4, <2>5
  <2> QED BY <2>6, <2>7 DEF HoldsAreCounted, WithinConcurrency
<1>5. ASSUME UNCHANGED <<inFlight, first, last>>
      PROVE  HoldsAreCounted' /\ WithinConcurrency'
  <2>1. \A k \in Key : Holders(k)' = Holders(k)
    BY <1>5, HoldersKept
  <2> QED BY <1>2, <1>5, <2>1 DEF HoldsAreCounted, WithinConcurrency
<1> QED BY <1>1, <1>3, <1>4, <1>5, SlotSteps

LEMMA SlotInvariance == Spec => []SlotInv
<1> QED BY SlotInit, SlotInductive, PTL DEF Spec

\* in_flight counts exactly the requests that hold the key, whatever is
\* refused, committed, dropped, cancelled or streamed, and however stale the
\* clock readings are.
THEOREM SlotsCounted == Spec => []HoldsAreCounted
<1>1. SlotInv => HoldsAreCounted
  BY DEF SlotInv
<1> QED BY <1>1, SlotInvariance, PTL

\* No key is ever held by more requests than its concurrency limit.
THEOREM ConcurrencyKept == Spec => []WithinConcurrency
<1>1. SlotInv => WithinConcurrency
  BY DEF SlotInv
<1> QED BY <1>1, SlotInvariance, PTL

-----------------------------------------------------------------------------
(* Requests come to an end.                                                *)

LEMMA RemainingType ==
    ASSUME TypeOK, NEW r \in Request
    PROVE  /\ Remaining(r) \in Nat
           /\ Remaining(r) = 0 <=> pc[r] = "done"
<1>1. /\ Len(Layers[r]) \in Nat /\ last[r] \in Nat /\ first[r] \in Nat \ {0}
      /\ billed[r] \in Nat /\ last[r] <= Len(Layers[r]) /\ pc[r] \in Stage
  BY RateLimitAssumption DEF RateLimitAssumption, TypeOK
<1>2. CASE pc[r] = "reserving"
  BY <1>1, <1>2 DEF TypeOK, Remaining
<1>3. CASE pc[r] \in {"serving", "streaming"}
  BY <1>1, <1>3 DEF TypeOK, Remaining
<1>4. CASE pc[r] = "billing"
  <2>1. billed[r] < last[r]
    BY <1>4 DEF TypeOK
  <2> QED BY <1>1, <1>4, <2>1 DEF Remaining
<1>5. CASE pc[r] \in {"committing", "dropping", "done"}
  <2>1. pc[r] # "done" => first[r] <= last[r]
    BY <1>5 DEF TypeOK
  <2>2. pc[r] = "done" => first[r] = last[r] + 1
    BY DEF TypeOK
  <2>3. Remaining(r) = last[r] + 1 - first[r]
    BY <1>5 DEF Remaining
  <2>4. pc[r] # "done" => last[r] + 1 - first[r] \in Nat \ {0}
    BY <1>1, <2>1
  <2>5. pc[r] = "done" => last[r] + 1 - first[r] = 0
    BY <1>1, <2>2
  <2> QED BY <2>3, <2>4, <2>5
<1> QED BY <1>1, <1>2, <1>3, <1>4, <1>5 DEF Stage

\* A step of one request moves no other.
LEMMA OthersStay ==
    ASSUME TypeOK, NEW r \in Request, RequestStep(r), NEW q \in Request, q # r
    PROVE  <<pc[q], first[q], last[q], billed[q]>>' = <<pc[q], first[q], last[q], billed[q]>>
<1>1. pc' = pc \/ \E v : pc' = [pc EXCEPT ![r] = v]
  BY DEF RequestStep, Reserve, RefuseSlot, RefuseWindow, Admit, TurnAway, Finish,
         Cancel, StartStream, EndStream, BillLayer, CommitLayer, DropLayer, LetGo
<1>2. /\ first' = first \/ first' = [first EXCEPT ![r] = @ + 1]
      /\ last' = last \/ last' = [last EXCEPT ![r] = @ + 1]
      /\ billed' = billed \/ billed' = [billed EXCEPT ![r] = @ + 1]
  BY DEF RequestStep, Reserve, RefuseSlot, RefuseWindow, Admit, Finish,
         Cancel, StartStream, EndStream, BillLayer, CommitLayer, DropLayer, LetGo
<1> QED BY <1>1, <1>2 DEF TypeOK

\* Each step of a request is one less to take.
LEMMA StepsCount ==
    ASSUME TypeOK, NEW r \in Request, RequestStep(r)
    PROVE  Remaining(r)' < Remaining(r)
<1>1. /\ Len(Layers[r]) \in Nat /\ last[r] \in Nat /\ first[r] \in Nat \ {0}
      /\ billed[r] \in Nat /\ last[r] <= Len(Layers[r])
  BY RateLimitAssumption DEF RateLimitAssumption, TypeOK
<1>2. CASE Reserve(r)
  <2>1. pc[r] = "reserving" /\ last[r] < Len(Layers[r]) /\ first[r] = 1
    BY <1>2 DEF Reserve, TypeOK
  <2>2. ASSUME TurnAway(r), UNCHANGED <<first, last, billed>>
        PROVE  Remaining(r)' < Remaining(r)
    <3>1. pc'[r] = IF last[r] = 0 THEN "done" ELSE "dropping"
      BY <2>2 DEF TurnAway, TypeOK
    <3> QED BY <1>1, <2>1, <2>2, <3>1 DEF Remaining
  <2>3. ASSUME NEW k, NEW now, Admit(r, k, now) PROVE Remaining(r)' < Remaining(r)
    <3>1. /\ pc'[r] = IF last[r] + 1 = Len(Layers[r]) THEN "serving" ELSE "reserving"
          /\ last'[r] = last[r] + 1
      BY <2>1, <2>3 DEF Admit, TypeOK
    <3> QED BY <1>1, <2>1, <3>1 DEF Remaining
  <2> QED BY <1>2, <2>2, <2>3 DEF Reserve, RefuseSlot, RefuseWindow
<1>3. CASE Finish(r) \/ Cancel(r)
  <2>1. /\ pc[r] = "serving" /\ pc'[r] \in {"committing", "dropping"} /\ first[r] = 1
        /\ UNCHANGED <<first, last, billed>>
    BY <1>3 DEF Finish, Cancel, TypeOK
  <2> QED BY <1>1, <2>1 DEF Remaining
<1>4. CASE StartStream(r)
  <2>1. pc[r] = "serving" /\ pc'[r] = "streaming" /\ UNCHANGED <<first, last, billed>>
    BY <1>4 DEF StartStream, TypeOK
  <2> QED BY <1>1, <2>1 DEF Remaining
<1>5. CASE EndStream(r)
  <2>1. /\ pc[r] = "streaming" /\ pc'[r] \in {"dropping", "billing"} /\ first[r] = 1
        /\ billed[r] = 0 /\ UNCHANGED <<first, last, billed>>
    BY <1>5 DEF EndStream, TypeOK
  <2> QED BY <1>1, <2>1 DEF Remaining
<1>6. CASE BillLayer(r)
  <2>1. /\ pc[r] = "billing" /\ billed[r] < last[r] /\ first[r] = 1
        /\ billed'[r] = billed[r] + 1 /\ UNCHANGED <<first, last>>
        /\ pc'[r] = IF billed[r] + 1 = last[r] THEN "dropping" ELSE "billing"
    BY <1>6 DEF BillLayer, TypeOK
  <2> QED BY <1>1, <2>1 DEF Remaining
<1>7. CASE CommitLayer(r) \/ DropLayer(r)
  <2>1. /\ pc[r] \in {"committing", "dropping"} /\ first[r] <= last[r]
        /\ first'[r] = first[r] + 1 /\ UNCHANGED <<last, billed>>
        /\ pc'[r] \in {pc[r], "done"}
    BY <1>7 DEF CommitLayer, DropLayer, LetGo, TypeOK
  <2> QED BY <1>1, <2>1 DEF Remaining
<1> QED BY <1>2, <1>3, <1>4, <1>5, <1>6, <1>7 DEF RequestStep

\* Every request has a bounded number of steps to take, at most three for each
\* layer and two more, and each of its steps is one of them: that threads are
\* scheduled is all that SlotsReturn asks for beyond this.
THEOREM RequestsWindDown == Spec => WindsDown
<1> DEFINE Step == \A r \in Request :
             <<pc[r], first[r], last[r], billed[r]>>' = <<pc[r], first[r], last[r], billed[r]>>
                \/ Remaining(r)' < Remaining(r)
<1>1. TypeOK /\ [Next]_vars => [Step]_vars
  <2>. SUFFICES ASSUME TypeOK, [Next]_vars PROVE Step \/ UNCHANGED vars
    OBVIOUS
  <2>1. ASSUME NEW q \in Request, RequestStep(q) PROVE Step
    BY <2>1, StepsCount, OthersStay
  <2>2. ASSUME UNCHANGED <<pc, first, last, billed>> PROVE Step
    BY <2>2
  <2>. HIDE DEF Step
  <2> QED BY <2>1, <2>2 DEF Next, Peek, Tick
<1>2. Spec => [][Step]_vars
  <2>. HIDE DEF Step
  <2> QED BY <1>1, TypeCorrect, PTL DEF Spec
<1>3. WindsDown <=> [][Step]_vars
  BY DEF WindsDown
<1> QED BY <1>2, <1>3

\* When no request has a step to take any more, every slot has been returned.
THEOREM SlotsReturned == Spec => []ReturnedWhenDone
<1>1. SlotInv => ReturnedWhenDone
  <2>. SUFFICES ASSUME SlotInv, \A r \in Request : Remaining(r) = 0, NEW k \in Key
                PROVE  inFlight[k] = 0
    BY DEF ReturnedWhenDone
  <2>1. \A r \in Request : pc[r] = "done" /\ first[r] = last[r] + 1 /\ last[r] \in Nat
    BY RemainingType DEF SlotInv, TypeOK
  <2>2. \A r \in Request : first[r] .. last[r] = {}
    BY <2>1
  <2>3. Holders(k) = {}
    BY <2>2 DEF Holders, Holds
  <2> QED BY <2>3, FS_EmptySet DEF SlotInv, HoldsAreCounted
<1> QED BY <1>1, SlotInvariance, PTL

-----------------------------------------------------------------------------
(* How a step uses the counters, whatever it read from the clock.          *)

\* The history gains n, in the windows of "now", of the dimensions gaining of k.
SpendsAt(k, gaining, n, now) ==
    \A j \in Key, d \in Dim, b \in Buckets :
        spent'[j][d][b] = spent[j][d][b]
                          + (IF j = k /\ d \in gaining /\ b = Bucket(d, now)
                             THEN n ELSE 0)

LEMMA RecordSpends ==
    ASSUME TypeOK, NEW k \in Key, NEW gaining, NEW n \in Nat, NEW now,
           Record(k, gaining, now, n)
    PROVE  SpendsAt(k, gaining, n, now)
BY DEF Record, SpendsAt, TypeOK

LEMMA NothingSpent ==
    ASSUME TypeOK, spent' = spent, NEW k \in Key, NEW now
    PROVE  SpendsAt(k, {}, 0, now)
BY DEF SpendsAt, TypeOK

\* One step's use of the counters of k: those of the dimensions ds are rolled
\* to the window of the reading and those of gaining gain n; a dimension that
\* counts requests gains one, and only below its limit.
CountedAt(k, ds, gaining, n, now) ==
    /\ Use(k, ds, now, gaining, n)
    /\ SpendsAt(k, gaining, n, now)
    /\ \A d \in gaining \intersect RequestDim : n = 1 /\ ~Full(k, d, now)

LEMMA AddTokensCounts ==
    ASSUME TypeOK, NEW k \in Key, NEW now \in Readings,
           NEW n \in 0 .. MaxTokens, AddTokens(k, now, n)
    PROVE  CountedAt(k, TokenDim, TokenDim, n, now)
<1>1. n \in Nat
  OBVIOUS
<1>2. TokenDim \intersect RequestDim = {}
  BY RateLimitAssumption DEF RateLimitAssumption
<1> QED BY <1>1, <1>2, RecordSpends DEF AddTokens, CountedAt

LEMMA RefuseCounts ==
    ASSUME TypeOK, NEW r \in Request, NEW k \in Key, NEW now \in Readings,
           RefuseWindow(r, k, now)
    PROVE  \E ds \in SUBSET Dim : CountedAt(k, ds, {}, 0, now)
<1>1. PICK n \in DOMAIN Checks : Use(k, Checked(k, n), now, {}, 0)
  BY DEF RefuseWindow
<1>2. Checked(k, n) \subseteq Dim
  <2>1. DOMAIN Checks = 1 .. Len(Checks) /\ Len(Checks) \in Nat
    BY RateLimitAssumption DEF Checks, RateLimitAssumption
  <2>2. \A i \in 1 .. n : i \in DOMAIN Checks
    BY <2>1
  <2> QED BY <2>2, CheckIsDim DEF Checked
<1>3. SpendsAt(k, {}, 0, now)
  BY NothingSpent DEF RefuseWindow
<1> QED BY <1>1, <1>2, <1>3 DEF CountedAt

LEMMA AdmitCounts ==
    ASSUME TypeOK, NEW r \in Request, NEW k \in Key, NEW now \in Readings,
           Admit(r, k, now)
    PROVE  CountedAt(k, {d \in Dim : Limited(k, d)}, Counting(k), 1, now)
<1>1. \A d \in RequestDim : ~Full(k, d, now)
  BY DEF Admit, Dim
<1> QED BY <1>1, RecordSpends DEF Admit, CountedAt

\* Every step counts something under one key, lets a second pass, or leaves
\* clock and counters as they are.
CounterStep ==
    \/ /\ \E k \in Key, now \in Readings, ds \in SUBSET Dim :
            \E gaining \in SUBSET ds, n \in Nat : CountedAt(k, ds, gaining, n, now)
       /\ UNCHANGED clock
    \/ Tick
    \/ UNCHANGED <<clock, window, count, spent, wiped>>

LEMMA CounterSteps ==
    ASSUME TypeOK, [Next]_vars
    PROVE  CounterStep
<1>1. ASSUME NEW r \in Request, Reserve(r) PROVE CounterStep
  <2>1. PICK k : k = Layers[r][last[r] + 1]
    OBVIOUS
  <2>2. k \in Key
    <3>1. last[r] + 1 \in 1 .. Len(Layers[r])
      BY <1>1, RateLimitAssumption DEF TypeOK, Reserve, RateLimitAssumption
    <3> QED BY <2>1, <3>1, LayerKey
  <2>3. CASE RefuseSlot(r, k)
    BY <2>3 DEF RefuseSlot, CounterStep
  <2>4. ASSUME NEW now \in Readings, RefuseWindow(r, k, now) PROVE CounterStep
    <3>1. PICK ds \in SUBSET Dim : CountedAt(k, ds, {}, 0, now)
      BY <2>2, <2>4, RefuseCounts
    <3>2. {} \in SUBSET ds /\ 0 \in Nat /\ UNCHANGED clock
      BY <2>4 DEF RefuseWindow
    <3> QED BY <2>2, <3>1, <3>2 DEF CounterStep
  <2>5. ASSUME NEW now \in Readings, Admit(r, k, now) PROVE CounterStep
    <3>1. CountedAt(k, {d \in Dim : Limited(k, d)}, Counting(k), 1, now)
      BY <2>2, <2>5, AdmitCounts
    <3>2. Counting(k) \subseteq {d \in Dim : Limited(k, d)}
      BY DEF Counting, Dim
    <3>3. UNCHANGED clock
      BY <2>5 DEF Admit
    <3> QED BY <2>2, <3>1, <3>2, <3>3 DEF CounterStep
  <2> QED BY <1>1, <2>1, <2>3, <2>4, <2>5 DEF Reserve
<1>2. ASSUME NEW r \in Request, BillLayer(r) \/ CommitLayer(r) PROVE CounterStep
  <2>1. PICK k \in Key, now \in Readings : AddTokens(k, now, tokens[r])
    BY <1>2, LayerHeld DEF BillLayer, CommitLayer
  <2>2. tokens[r] \in 0 .. MaxTokens /\ tokens[r] \in Nat
    BY DEF TypeOK
  <2>3. CountedAt(k, TokenDim, TokenDim, tokens[r], now)
    BY <2>1, <2>2, AddTokensCounts
  <2>4. TokenDim \in SUBSET Dim
    BY DEF Dim
  <2>5. UNCHANGED clock
    BY <1>2 DEF BillLayer, CommitLayer
  <2> QED BY <2>2, <2>3, <2>4, <2>5 DEF CounterStep
<1>3. ASSUME NEW k \in Key, Peek(k) PROVE CounterStep
  <2>1. PICK now \in Readings : Use(k, PeekDims, now, {}, 0)
    BY <1>3 DEF Peek
  <2>2. SpendsAt(k, {}, 0, now) /\ UNCHANGED clock
    BY <1>3, NothingSpent DEF Peek
  <2>3. PeekDims \in SUBSET Dim /\ {} \in SUBSET PeekDims
    BY RateLimitAssumption DEF RateLimitAssumption
  <2>4. CountedAt(k, PeekDims, {}, 0, now)
    BY <2>1, <2>2 DEF CountedAt
  <2> QED BY <2>2, <2>3, <2>4 DEF CounterStep
<1>4. ASSUME NEW r \in Request,
             Finish(r) \/ Cancel(r) \/ StartStream(r) \/ EndStream(r) \/ DropLayer(r)
      PROVE  CounterStep
  BY <1>4 DEF Finish, Cancel, StartStream, EndStream, DropLayer, CounterStep
<1>5. CASE Tick
  BY <1>5 DEF CounterStep
<1>6. CASE UNCHANGED vars
  BY <1>6 DEF vars, CounterStep
<1> QED BY <1>1, <1>2, <1>3, <1>4, <1>5, <1>6 DEF Next, RequestStep

\* What a use of counters does to each of them.
UsedAt(k, ds, gaining, n, now) ==
    \A j \in Key, d \in Dim :
        /\ j = k /\ d \in ds =>
             /\ window'[j][d] = Bucket(d, now)
             /\ count'[j][d] = Rolled(j, d, now) + (IF d \in gaining THEN n ELSE 0)
        /\ ~(j = k /\ d \in ds) =>
             window'[j][d] = window[j][d] /\ count'[j][d] = count[j][d]

LEMMA UseCounts ==
    ASSUME TypeOK, NEW k \in Key, NEW ds, NEW gaining, NEW n \in Nat, NEW now,
           CountedAt(k, ds, gaining, n, now)
    PROVE  UsedAt(k, ds, gaining, n, now)
<1>1. \A d \in Dim : Rolled(k, d, now) \in Nat
  BY DEF TypeOK, Rolled
<1>2. Use(k, ds, now, gaining, n)
  BY DEF CountedAt
<1> QED BY <1>1, <1>2 DEF Use, TypeOK, UsedAt

-----------------------------------------------------------------------------
(* Windows, however stale the readings.                                    *)

\* A counter holds no more than its window, running or not, has been spent,
\* and a counter of requests no more than its limit.
LagInv ==
    /\ \A k \in Key, d \in Dim :
         window[k][d] \in Buckets /\ count[k][d] <= spent[k][d][window[k][d]]
    /\ CountersWithinLimits

LEMMA LagInit == Init => LagInv
<1>. SUFFICES ASSUME Init PROVE LagInv
  OBVIOUS
<1>1. ASSUME NEW d \in Dim PROVE 0 \in Buckets
  <2>1. Window[d] \in Nat \ {0} /\ 0 \in 0 .. MaxTime
    BY RateLimitAssumption DEF RateLimitAssumption
  <2>2. 0 \div Window[d] = 0
    BY <2>1
  <2> QED BY <2>1, <2>2 DEF Buckets, Bucket
<1>2. \A k \in Key, d \in RequestDim : Limited(k, d) => d \in Dim /\ 0 <= Limit[k][d]
  BY RateLimitAssumption DEF RateLimitAssumption, Limited, Dim
<1> QED BY <1>1, <1>2 DEF Init, LagInv, CountersWithinLimits

LEMMA LagInductive == TypeOK /\ LagInv /\ [Next]_vars => LagInv'
<1>. SUFFICES ASSUME TypeOK, LagInv, [Next]_vars PROVE LagInv'
  OBVIOUS
<1>1. ASSUME UNCHANGED <<window, count, spent>> PROVE LagInv'
  BY <1>1 DEF LagInv, CountersWithinLimits, Limited
<1>2. ASSUME NEW k \in Key, NEW now \in Readings, NEW ds \in SUBSET Dim,
             NEW gaining \in SUBSET ds, NEW n \in Nat, CountedAt(k, ds, gaining, n, now)
      PROVE  LagInv'
  <2>0. UsedAt(k, ds, gaining, n, now)
    BY <1>2, UseCounts
  <2>1. ASSUME NEW j \in Key, NEW d \in Dim
        PROVE  window'[j][d] \in Buckets /\ count'[j][d] <= spent'[j][d][window'[j][d]]
    <3>1. now \in 0 .. MaxTime
      BY ReadingType DEF TypeOK
    <3>2. Bucket(d, now) \in Buckets
      BY <3>1, BucketType
    <3>3. /\ \A b \in Buckets : spent[j][d][b] \in Nat
          /\ window[j][d] \in Buckets /\ count[j][d] <= spent[j][d][window[j][d]]
          /\ count[j][d] \in Nat
      BY DEF TypeOK, LagInv
    <3>4. \A b \in Buckets :
             spent'[j][d][b] = spent[j][d][b]
                + (IF j = k /\ d \in gaining /\ b = Bucket(d, now) THEN n ELSE 0)
      BY <1>2 DEF CountedAt, SpendsAt
    <3>5. CASE j = k /\ d \in ds
      <4>1. Rolled(j, d, now) <= spent[j][d][Bucket(d, now)] /\ Rolled(j, d, now) \in Nat
        BY <3>2, <3>3 DEF Rolled
      <4>2. /\ window'[j][d] = Bucket(d, now)
            /\ count'[j][d] = Rolled(j, d, now) + (IF d \in gaining THEN n ELSE 0)
        BY <2>0, <3>5 DEF UsedAt
      <4>3. spent'[j][d][Bucket(d, now)] =
               spent[j][d][Bucket(d, now)] + (IF d \in gaining THEN n ELSE 0)
        BY <3>2, <3>4, <3>5
      <4> QED BY <3>2, <3>3, <4>1, <4>2, <4>3
    <3>6. CASE ~(j = k /\ d \in ds)
      <4>1. window'[j][d] = window[j][d] /\ count'[j][d] = count[j][d]
        BY <2>0, <3>6 DEF UsedAt
      <4> QED BY <3>3, <3>4, <3>6, <4>1
    <3> QED BY <3>5, <3>6
  <2>2. ASSUME NEW j \in Key, NEW d \in RequestDim, Limited(j, d)
        PROVE  count'[j][d] <= Limit[j][d]
    <3>1. d \in Dim /\ Limit[j][d] \in Nat
      BY <2>2, RateLimitAssumption DEF RateLimitAssumption, Limited, Dim
    <3>2. count[j][d] \in Nat /\ count[j][d] <= Limit[j][d]
      BY <2>2, <3>1 DEF TypeOK, LagInv, CountersWithinLimits
    <3>3. Rolled(j, d, now) \in Nat /\ Rolled(j, d, now) <= Limit[j][d]
      BY <3>1, <3>2 DEF Rolled
    <3>4. CASE j = k /\ d \in gaining
      <4>1. n = 1 /\ Rolled(j, d, now) < Limit[j][d]
        BY <1>2, <2>2, <3>1, <3>3, <3>4 DEF CountedAt, Full
      <4>2. count'[j][d] = Rolled(j, d, now) + n
        BY <2>0, <3>1, <3>4 DEF UsedAt
      <4> QED BY <3>1, <3>3, <4>1, <4>2
    <3>5. CASE ~(j = k /\ d \in gaining)
      <4>1. count'[j][d] = Rolled(j, d, now) + 0 \/ count'[j][d] = count[j][d]
        BY <2>0, <3>1, <3>5 DEF UsedAt
      <4> QED BY <3>1, <3>2, <3>3, <4>1
    <3> QED BY <3>4, <3>5
  <2> QED BY <2>1, <2>2 DEF LagInv, CountersWithinLimits, Limited
<1>3. CounterStep
  BY CounterSteps
<1> QED BY <1>1, <1>2, <1>3 DEF CounterStep, Tick

LagSlotInv == SlotInv /\ LagInv

LEMMA LagInvariance == Spec => []LagSlotInv
<1>1. Init => LagSlotInv
  BY SlotInit, LagInit DEF LagSlotInv
<1>2. LagSlotInv /\ [Next]_vars => LagSlotInv'
  BY SlotInductive, LagInductive DEF LagSlotInv, SlotInv
<1> QED BY <1>1, <1>2, PTL DEF Spec

\* No counter of requests ever goes beyond its limit, and none beyond what the
\* window it is of has been given, however stale the readings by which it is
\* incremented, rolled and rolled back.
THEOREM CountersKept == Spec => []CountersWithinLimits
<1>1. LagSlotInv => CountersWithinLimits
  BY DEF LagSlotInv, LagInv
<1> QED BY <1>1, LagInvariance, PTL

\* In a window that is settled, every reading is of the running window.
LEMMA SettledReadings ==
    ASSUME TypeOK, NEW d \in Dim, Settled(d), NEW now \in Readings
    PROVE  Bucket(d, now) = Bucket(d, clock)
<1>1. /\ clock \in Nat /\ now \in Nat /\ MaxLag \in Nat
      /\ clock - MaxLag \in Nat /\ clock - MaxLag <= now /\ now <= clock
  BY RateLimitAssumption DEF RateLimitAssumption, TypeOK, Readings, Settled
<1>2. /\ Bucket(d, clock - MaxLag) <= Bucket(d, now) /\ Bucket(d, now) <= Bucket(d, clock)
      /\ Bucket(d, now) \in Nat /\ Bucket(d, clock) \in Nat
  BY <1>1, BucketOrder
<1> QED BY <1>2 DEF Settled

\* A counter used at a reading of the running window gains what the window is
\* spent, and any other counter keeps what it has and has been spent.
LEMMA UseForgetsNothing ==
    ASSUME TypeOK, NEW k \in Key, NEW ds \in SUBSET Dim, NEW gaining \in SUBSET ds,
           NEW n \in Nat, NEW now \in Readings, CountedAt(k, ds, gaining, n, now),
           UNCHANGED clock,
           NEW j \in Key, NEW d \in Dim, Bucket(d, now) = Bucket(d, clock)
    PROVE  Forgotten(j, d)' = Forgotten(j, d)
<1>0. UsedAt(k, ds, gaining, n, now)
  BY UseCounts
<1>1. Bucket(d, clock) \in Buckets /\ Bucket(d, clock)' = Bucket(d, clock)
  BY BucketType DEF TypeOK, Bucket
<1>. DEFINE gain == IF j = k /\ d \in gaining THEN n ELSE 0
<1>2. /\ spent[j][d][Bucket(d, clock)] \in Nat
      /\ spent'[j][d][Bucket(d, clock)] = spent[j][d][Bucket(d, clock)] + gain
  BY <1>1 DEF TypeOK, CountedAt, SpendsAt
<1>3. Rolled(j, d, clock) \in Nat /\ Rolled(j, d, clock)' = Rolled(j, d, clock) + gain
  <2>1. Rolled(j, d, clock) \in Nat /\ Rolled(j, d, clock) = Rolled(j, d, now)
    BY DEF TypeOK, Rolled
  <2>2. CASE j = k /\ d \in ds
    BY <1>0, <1>1, <2>1, <2>2 DEF Rolled, UsedAt
  <2>3. CASE ~(j = k /\ d \in ds)
    BY <1>0, <1>1, <2>1, <2>3 DEF Rolled, UsedAt
  <2> QED BY <2>1, <2>2, <2>3
<1> QED BY <1>1, <1>2, <1>3 DEF Forgotten

\* Time that stays in the window changes nothing in it.
LEMMA SameWindowForgetsNothing ==
    ASSUME NEW j, NEW d, UNCHANGED <<window, count, spent>>,
           Bucket(d, clock)' = Bucket(d, clock)
    PROVE  Forgotten(j, d)' = Forgotten(j, d)
BY DEF Forgotten, Rolled

\* Stale readings cost a window nothing once it is older than they are: the
\* window admits, from then on, at most its limit, for every length of windows
\* and every lag.
THEOREM LagForgetsEarly == Spec => ForgetsOnlyEarly
<1> DEFINE Step == \A k \in Key, d \in Dim :
             Settled(d) /\ Bucket(d, clock)' = Bucket(d, clock) =>
                Forgotten(k, d)' = Forgotten(k, d)
<1>1. TypeOK /\ [Next]_vars => [Step]_vars
  <2>. SUFFICES ASSUME TypeOK, [Next]_vars, NEW j \in Key, NEW d \in Dim,
                       Settled(d), Bucket(d, clock)' = Bucket(d, clock)
                PROVE  Forgotten(j, d)' = Forgotten(j, d)
    OBVIOUS
  <2>1. ASSUME UNCHANGED <<window, count, spent>>
        PROVE  Forgotten(j, d)' = Forgotten(j, d)
    BY <2>1, SameWindowForgetsNothing
  <2>2. ASSUME NEW k \in Key, NEW now \in Readings, NEW ds \in SUBSET Dim,
               NEW gaining \in SUBSET ds, NEW n \in Nat, CountedAt(k, ds, gaining, n, now),
               UNCHANGED clock
        PROVE  Forgotten(j, d)' = Forgotten(j, d)
    BY <2>2, SettledReadings, UseForgetsNothing
  <2>3. CounterStep
    BY CounterSteps
  <2> QED BY <2>1, <2>2, <2>3 DEF CounterStep, Tick
<1>2. Spec => [][Step]_vars
  <2>. HIDE DEF Step
  <2> QED BY <1>1, TypeCorrect, PTL DEF Spec
<1>3. ForgetsOnlyEarly <=> [][Step]_vars
  BY DEF ForgetsOnlyEarly
<1> QED BY <1>2, <1>3

-----------------------------------------------------------------------------
(* Refusals, however stale the readings.                                   *)

\* A request that is reserving is taken elsewhere by its own Reserve alone.
LEMMA ReservingStep ==
    ASSUME TypeOK, [Next]_vars, NEW r \in Request, pc[r] = "reserving", pc'[r] # pc[r]
    PROVE  Reserve(r)
<1>1. ASSUME NEW q \in Request, RequestStep(q), q # r PROVE FALSE
  <2>1. pc' = pc \/ \E v : pc' = [pc EXCEPT ![q] = v]
    BY <1>1 DEF RequestStep, Reserve, RefuseSlot, RefuseWindow, Admit, TurnAway, Finish,
                Cancel, StartStream, EndStream, BillLayer, CommitLayer, DropLayer, LetGo
  <2> QED BY <1>1, <2>1 DEF TypeOK
<1>2. RequestStep(r) => Reserve(r)
  BY DEF RequestStep, Finish, Cancel, StartStream, EndStream, BillLayer, CommitLayer,
         DropLayer
<1>3. \A k \in Key : ~Peek(k)
  BY DEF Peek
<1>4. ~Tick /\ ~UNCHANGED vars
  BY DEF Tick, vars
<1> QED BY <1>1, <1>2, <1>3, <1>4 DEF Next

\* The key by which a request is turned away is full, or has a window that is
\* used up.
ForCause(k) ==
    \/ Concurrency[k] # Unlimited /\ Cardinality(Holders(k)) >= Concurrency[k]
    \/ \E d \in Dim, now \in Readings :
         Limited(k, d) /\ spent[k][d][Bucket(d, now)] >= Limit[k][d]

LEMMA TurnedAwayForCause ==
    ASSUME LagSlotInv, NEW r \in Request, Reserve(r), pc'[r] \in {"dropping", "done"}
    PROVE  ForCause(Layers[r][last[r] + 1])
<1>1. PICK k : k = Layers[r][last[r] + 1]
  OBVIOUS
<1>2. TypeOK /\ k \in Key
  <2>1. last[r] + 1 \in 1 .. Len(Layers[r])
    BY RateLimitAssumption DEF LagSlotInv, SlotInv, TypeOK, Reserve, RateLimitAssumption
  <2> QED BY <1>1, <2>1, LayerKey DEF LagSlotInv, SlotInv
<1>3. CASE RefuseSlot(r, k)
  BY <1>1, <1>2, <1>3
     DEF RefuseSlot, AtCapacity, ForCause, LagSlotInv, SlotInv, HoldsAreCounted
<1>4. ASSUME NEW now \in Readings, RefuseWindow(r, k, now) PROVE ForCause(k)
  <2>1. PICK n \in DOMAIN Checks : Full(k, Checks[n], now)
    BY <1>4 DEF RefuseWindow
  <2>2. PICK d : d = Checks[n]
    OBVIOUS
  <2>3. /\ d \in Dim /\ Limited(k, d) /\ Rolled(k, d, now) >= Limit[k][d]
        /\ Limit[k][d] \in Nat
    BY <1>2, <2>1, <2>2, CheckIsDim, RateLimitAssumption
       DEF Full, Limited, RateLimitAssumption
  <2>4. Bucket(d, now) \in Buckets
    BY <1>2, <2>3, ReadingType, BucketType DEF TypeOK
  <2>5. /\ Rolled(k, d, now) \in Nat /\ spent[k][d][Bucket(d, now)] \in Nat
        /\ Rolled(k, d, now) <= spent[k][d][Bucket(d, now)]
    BY <1>2, <2>3, <2>4 DEF Rolled, TypeOK, LagSlotInv, LagInv
  <2>6. spent[k][d][Bucket(d, now)] >= Limit[k][d]
    BY <2>3, <2>5
  <2> QED BY <2>3, <2>6 DEF ForCause
<1>5. ASSUME NEW now \in Readings, Admit(r, k, now) PROVE FALSE
  BY <1>2, <1>5 DEF Reserve, Admit, TypeOK
<1> QED BY <1>1, <1>3, <1>4, <1>5 DEF Reserve

\* A request is turned away only by a key that is full or by a window that has
\* really been used up, however stale the readings.
THEOREM RefusalsHaveCause == Spec => RefusedForCause
<1> DEFINE Step == \A r \in Request :
             pc[r] = "reserving" /\ pc'[r] \in {"dropping", "done"} =>
                ForCause(Layers[r][last[r] + 1])
<1>1. LagSlotInv /\ [Next]_vars => [Step]_vars
  <2>. SUFFICES ASSUME LagSlotInv, [Next]_vars, NEW r \in Request, pc[r] = "reserving",
                       pc'[r] \in {"dropping", "done"}
                PROVE  ForCause(Layers[r][last[r] + 1])
    OBVIOUS
  <2>1. Reserve(r)
    BY ReservingStep DEF LagSlotInv, SlotInv
  <2> QED BY <2>1, TurnedAwayForCause
<1>2. Spec => [][Step]_vars
  <2>. HIDE DEF Step
  <2> QED BY <1>1, LagInvariance, PTL DEF Spec
<1>3. RefusedForCause <=> [][Step]_vars
  BY DEF RefusedForCause, ForCause
<1> QED BY <1>2, <1>3

-----------------------------------------------------------------------------
(* What stands of each window, however stale the readings.                 *)

\* A reading of a window before that of a counter wipes the counter's history
\* back to the reading's window.
WipedAt(k, ds, now) ==
    \A j \in Key, d \in Dim, b \in Buckets :
        wiped'[j][d][b] =
            IF /\ j = k /\ d \in ds
               /\ Bucket(d, now) <= b /\ b <= window[j][d] /\ Bucket(d, now) < window[j][d]
            THEN spent[j][d][b] ELSE wiped[j][d][b]

LEMMA BucketsNat == Buckets \subseteq Nat
BY BucketType DEF Buckets

LEMMA UseWipes ==
    ASSUME TypeOK, NEW k \in Key, NEW ds, NEW gaining, NEW n, NEW now \in Readings,
           Use(k, ds, now, gaining, n)
    PROVE  WipedAt(k, ds, now)
<1>1. now \in 0 .. MaxTime
  BY ReadingType DEF TypeOK
<1>2. Wipe(k, ds, now) /\ wiped \in [Key -> [Dim -> [Buckets -> Nat]]]
  BY DEF Use, TypeOK
<1>. SUFFICES ASSUME NEW j \in Key, NEW d \in Dim, NEW b \in Buckets
              PROVE  wiped'[j][d][b] =
                        IF /\ j = k /\ d \in ds
                           /\ Bucket(d, now) <= b /\ b <= window[j][d]
                           /\ Bucket(d, now) < window[j][d]
                        THEN spent[j][d][b] ELSE wiped[j][d][b]
  BY DEF WipedAt
<1>3. b \in Nat /\ Bucket(d, now) \in Nat /\ window[j][d] \in Nat
  BY <1>1, BucketsNat, BucketType DEF TypeOK
<1>4. b \in Bucket(d, now) .. window[j][d] <=> Bucket(d, now) <= b /\ b <= window[j][d]
  BY <1>3
<1>5. CASE j # k
  BY <1>2, <1>5 DEF Wipe
<1>6. CASE j = k
  <2>1. wiped'[j][d][b] =
           IF /\ d \in ds /\ Bucket(d, now) < window[j][d]
              /\ b \in Bucket(d, now) .. window[j][d]
           THEN spent[j][d][b] ELSE wiped[j][d][b]
    BY <1>2, <1>6 DEF Wipe
  <2> QED BY <1>4, <1>6, <2>1
<1> QED BY <1>5, <1>6

\* What stands of a window w with c counted, of spends s and wipes v.
Stands(w, c, s, v) ==
    \A b \in Buckets :
        /\ v[b] <= s[b]
        /\ b = w => s[b] - v[b] = c
        /\ b > w => s[b] = v[b]

\* Of its counter's window stands exactly what the counter counts, of the windows
\* after it nothing, and none of them has begun yet when the clock is behind.
StandInv ==
    \A k \in Key, d \in Dim :
        /\ window[k][d] \in Buckets
        /\ window[k][d] <= Bucket(d, clock)
        /\ Stands(window[k][d], count[k][d], spent[k][d], wiped[k][d])

\* A reading is of a window that has begun.
LEMMA ReadingBegun ==
    ASSUME TypeOK, NEW now \in Readings, NEW d \in Dim
    PROVE  /\ Bucket(d, now) \in Buckets /\ Bucket(d, now) \in Nat
           /\ Bucket(d, clock) \in Nat /\ Bucket(d, now) <= Bucket(d, clock)
<1>1. now \in 0 .. MaxTime
  BY ReadingType DEF TypeOK
<1>2. now \in Nat /\ clock \in Nat /\ now <= clock
  BY RateLimitAssumption DEF Readings, TypeOK, RateLimitAssumption
<1> QED BY <1>1, <1>2, BucketType, BucketOrder

\* Before what the step gains, a counter it uses stands in the window of the
\* reading for what it is rolled to.
LEMMA RolledStands ==
    ASSUME TypeOK, StandInv, NEW k \in Key, NEW ds, NEW now \in Readings,
           WipedAt(k, ds, now), NEW d \in Dim, d \in ds
    PROVE  LET b == Bucket(d, now) IN
           /\ spent[k][d][b] - wiped'[k][d][b] = Rolled(k, d, now)
           /\ wiped'[k][d][b] \in Nat
           /\ \A a \in Buckets : a > b => wiped'[k][d][a] = spent[k][d][a]
           /\ \A a \in Buckets : a # b => wiped'[k][d][a] \in {wiped[k][d][a], spent[k][d][a]}
<1> DEFINE b == Bucket(d, now)
           w == window[k][d]
<1>1. b \in Buckets /\ b \in Nat /\ w \in Nat /\ w \in Buckets /\ Buckets \subseteq Nat
  BY ReadingBegun, BucketsNat DEF TypeOK, StandInv
<1>2. /\ \A a \in Buckets : spent[k][d][a] \in Nat /\ wiped[k][d][a] \in Nat
      /\ Stands(w, count[k][d], spent[k][d], wiped[k][d])
      /\ count[k][d] \in Nat
  BY DEF TypeOK, StandInv
<1>3. \A a \in Buckets :
         wiped'[k][d][a] = IF b <= a /\ a <= w /\ b < w THEN spent[k][d][a] ELSE wiped[k][d][a]
  BY DEF WipedAt
<1>4. Rolled(k, d, now) = IF w = b THEN count[k][d] ELSE 0
  BY DEF Rolled
<1>. HIDE DEF b, w
<1>5. ASSUME NEW a \in Buckets
      PROVE  /\ a = b => spent[k][d][a] - wiped'[k][d][a] = Rolled(k, d, now)
             /\ wiped'[k][d][a] \in Nat
             /\ a > b => wiped'[k][d][a] = spent[k][d][a]
             /\ a # b => wiped'[k][d][a] \in {wiped[k][d][a], spent[k][d][a]}
  <2>1. /\ a \in Nat /\ spent[k][d][a] \in Nat /\ wiped[k][d][a] \in Nat
        /\ a = w => spent[k][d][a] - wiped[k][d][a] = count[k][d]
        /\ a > w => spent[k][d][a] = wiped[k][d][a]
    BY <1>1, <1>2 DEF Stands
  <2>2. CASE b <= a /\ a <= w /\ b < w
    <3>1. wiped'[k][d][a] = spent[k][d][a] /\ Rolled(k, d, now) = 0
      BY <1>1, <1>3, <1>4, <2>2
    <3> QED BY <2>1, <3>1
  <2>3. CASE ~(b <= a /\ a <= w /\ b < w)
    <3>1. wiped'[k][d][a] = wiped[k][d][a]
      BY <1>3, <2>3
    <3>2. a > b => a > w
      BY <1>1, <2>1, <2>3
    <3>3. a = b => a >= w
      BY <1>1, <2>1, <2>3
    <3>4. ASSUME a = b PROVE spent[k][d][a] - wiped'[k][d][a] = Rolled(k, d, now)
      <4>1. CASE a = w
        BY <1>4, <2>1, <3>1, <3>4, <4>1
      <4>2. CASE a > w
        BY <1>1, <1>4, <2>1, <3>1, <3>4, <4>2
      <4> QED BY <1>1, <2>1, <3>3, <3>4, <4>1, <4>2
    <3> QED BY <2>1, <3>1, <3>2, <3>4
  <2> QED BY <2>2, <2>3
<1>6. /\ spent[k][d][b] - wiped'[k][d][b] = Rolled(k, d, now)
      /\ wiped'[k][d][b] \in Nat
      /\ \A a \in Buckets : a > b => wiped'[k][d][a] = spent[k][d][a]
      /\ \A a \in Buckets : a # b => wiped'[k][d][a] \in {wiped[k][d][a], spent[k][d][a]}
  BY <1>1, <1>5
<1> QED BY <1>6 DEF b

\* What a step's use of counters does to what stands of each of them.
StandsAt(k, ds, gaining, n, now) ==
    \A j \in Key, d \in Dim :
        /\ ~(j = k /\ d \in ds) =>
             \A b \in Buckets :
                 spent'[j][d][b] = spent[j][d][b] /\ wiped'[j][d][b] = wiped[j][d][b]
        /\ j = k /\ d \in ds =>
             \A b \in Buckets :
                 /\ wiped'[j][d][b] <= spent'[j][d][b]
                 /\ b = Bucket(d, now) =>
                      spent'[j][d][b] - wiped'[j][d][b]
                          = Rolled(j, d, now) + (IF d \in gaining THEN n ELSE 0)
                 /\ b > Bucket(d, now) => spent'[j][d][b] = wiped'[j][d][b]
                 /\ b # Bucket(d, now) =>
                      /\ spent'[j][d][b] = spent[j][d][b]
                      /\ wiped'[j][d][b] \in {wiped[j][d][b], spent[j][d][b]}

LEMMA CountedStands ==
    ASSUME TypeOK, StandInv, NEW k \in Key, NEW now \in Readings, NEW ds \in SUBSET Dim,
           NEW gaining \in SUBSET ds, NEW n \in Nat, CountedAt(k, ds, gaining, n, now)
    PROVE  StandsAt(k, ds, gaining, n, now)
<1>1. WipedAt(k, ds, now) /\ SpendsAt(k, gaining, n, now)
  BY UseWipes DEF CountedAt
<1>2. ASSUME NEW j \in Key, NEW d \in Dim, NEW b \in Buckets, ~(j = k /\ d \in ds)
      PROVE  spent'[j][d][b] = spent[j][d][b] /\ wiped'[j][d][b] = wiped[j][d][b]
  <2>1. spent[j][d][b] \in Nat /\ ~(j = k /\ d \in gaining)
    BY <1>2 DEF TypeOK
  <2> QED BY <1>1, <1>2, <2>1 DEF WipedAt, SpendsAt
<1>3. ASSUME NEW d \in Dim, NEW b \in Buckets, d \in ds
      PROVE  /\ wiped'[k][d][b] <= spent'[k][d][b]
             /\ b = Bucket(d, now) =>
                  spent'[k][d][b] - wiped'[k][d][b]
                      = Rolled(k, d, now) + (IF d \in gaining THEN n ELSE 0)
             /\ b > Bucket(d, now) => spent'[k][d][b] = wiped'[k][d][b]
             /\ b # Bucket(d, now) =>
                  /\ spent'[k][d][b] = spent[k][d][b]
                  /\ wiped'[k][d][b] \in {wiped[k][d][b], spent[k][d][b]}
  <2>1. /\ spent[k][d][b] \in Nat /\ wiped[k][d][b] \in Nat /\ Rolled(k, d, now) \in Nat
        /\ b \in Nat /\ Bucket(d, now) \in Nat
    BY BucketsNat, ReadingBegun DEF TypeOK, Rolled
  <2>2. wiped[k][d][b] <= spent[k][d][b]
    BY DEF StandInv, Stands
  <2>3. spent'[k][d][b] = spent[k][d][b]
                          + (IF d \in gaining /\ b = Bucket(d, now) THEN n ELSE 0)
    BY <1>1 DEF SpendsAt
  <2>4. /\ b = Bucket(d, now) =>
             /\ spent[k][d][b] - wiped'[k][d][b] = Rolled(k, d, now)
             /\ wiped'[k][d][b] \in Nat
        /\ b > Bucket(d, now) => wiped'[k][d][b] = spent[k][d][b]
        /\ b # Bucket(d, now) => wiped'[k][d][b] \in {wiped[k][d][b], spent[k][d][b]}
    BY <1>1, <1>3, RolledStands
  <2>5. CASE b = Bucket(d, now)
    BY <2>1, <2>3, <2>4, <2>5
  <2>6. CASE b # Bucket(d, now)
    BY <2>1, <2>2, <2>3, <2>4, <2>6
  <2> QED BY <2>5, <2>6
<1> QED BY <1>2, <1>3 DEF StandsAt

LEMMA StandInit == Init => StandInv
<1>. SUFFICES ASSUME Init, NEW k \in Key, NEW d \in Dim
              PROVE  /\ window[k][d] \in Buckets /\ window[k][d] <= Bucket(d, clock)
                     /\ Stands(window[k][d], count[k][d], spent[k][d], wiped[k][d])
  BY DEF StandInv
<1>1. window[k][d] \in Buckets
  BY LagInit DEF LagInv
<1>2. window[k][d] = 0 /\ Bucket(d, clock) \in Nat
  BY InitType, BucketType DEF Init, TypeOK
<1>3. \A b \in Buckets : spent[k][d][b] = 0 /\ wiped[k][d][b] = 0
  BY DEF Init
<1>4. count[k][d] = 0
  BY DEF Init
<1> QED BY <1>1, <1>2, <1>3, <1>4 DEF Stands

LEMMA CountedKeepsStanding ==
    ASSUME TypeOK, StandInv, NEW k \in Key, NEW now \in Readings, NEW ds \in SUBSET Dim,
           NEW gaining \in SUBSET ds, NEW n \in Nat, CountedAt(k, ds, gaining, n, now),
           UNCHANGED clock
    PROVE  StandInv'
<1>1. StandsAt(k, ds, gaining, n, now) /\ UsedAt(k, ds, gaining, n, now)
  BY CountedStands, UseCounts
<1>. SUFFICES ASSUME NEW j \in Key, NEW d \in Dim
              PROVE  /\ window'[j][d] \in Buckets /\ window'[j][d] <= Bucket(d, clock)
                     /\ Stands(window'[j][d], count'[j][d], spent'[j][d], wiped'[j][d])
  BY DEF StandInv, Bucket
<1>2. /\ window[j][d] \in Buckets /\ window[j][d] <= Bucket(d, clock)
      /\ Stands(window[j][d], count[j][d], spent[j][d], wiped[j][d])
  BY DEF StandInv
<1>3. CASE j = k /\ d \in ds
  <2>1. /\ window'[j][d] = Bucket(d, now)
        /\ count'[j][d] = Rolled(j, d, now) + (IF d \in gaining THEN n ELSE 0)
    BY <1>1, <1>3 DEF UsedAt
  <2>2. Stands(window'[j][d], count'[j][d], spent'[j][d], wiped'[j][d])
    BY <1>1, <1>3, <2>1 DEF StandsAt, Stands
  <2> QED BY <2>1, <2>2, ReadingBegun
<1>4. CASE ~(j = k /\ d \in ds)
  <2>1. window'[j][d] = window[j][d] /\ count'[j][d] = count[j][d]
    BY <1>1, <1>4 DEF UsedAt
  <2>2. \A b \in Buckets : spent'[j][d][b] = spent[j][d][b] /\ wiped'[j][d][b] = wiped[j][d][b]
    BY <1>1, <1>4 DEF StandsAt
  <2> QED BY <1>2, <2>1, <2>2 DEF Stands
<1> QED BY <1>3, <1>4

LEMMA StandInductive == TypeOK /\ TypeOK' /\ StandInv /\ [Next]_vars => StandInv'
<1>. SUFFICES ASSUME TypeOK, TypeOK', StandInv, [Next]_vars PROVE StandInv'
  OBVIOUS
<1>1. CounterStep
  BY CounterSteps
<1>2. ASSUME UNCHANGED <<window, count, spent, wiped>>,
             \A d \in Dim : Bucket(d, clock) <= Bucket(d, clock')
      PROVE  StandInv'
  <2>1. ASSUME NEW k \in Key, NEW d \in Dim
        PROVE  window[k][d] \in Nat /\ Bucket(d, clock) \in Nat /\ Bucket(d, clock') \in Nat
    BY BucketType DEF TypeOK
  <2>2. \A d \in Dim : Bucket(d, clock)' = Bucket(d, clock')
    BY DEF Bucket
  <2> QED BY <1>2, <2>1, <2>2 DEF StandInv
<1>3. CASE Tick
  <2>1. clock \in Nat /\ clock' = clock + 1 /\ UNCHANGED <<window, count, spent, wiped>>
    BY <1>3, RateLimitAssumption DEF Tick, TypeOK, RateLimitAssumption
  <2> QED BY <1>2, <2>1, BucketMonotone
<1>4. CASE UNCHANGED <<clock, window, count, spent, wiped>>
  <2>1. \A d \in Dim : Bucket(d, clock) \in Nat /\ Bucket(d, clock') = Bucket(d, clock)
    BY <1>4, BucketType DEF TypeOK
  <2> QED BY <1>2, <1>4, <2>1
<1> QED BY <1>1, <1>3, <1>4, CountedKeepsStanding DEF CounterStep

\* A counter is exactly what its running window has admitted or been billed,
\* less what stale readings have wiped of it.
THEOREM CountsExact == Spec => []CountsAreAdmitted
<1>1. TypeOK /\ StandInv => CountsAreAdmitted
  <2>. SUFFICES ASSUME TypeOK, StandInv, NEW k \in Key, NEW d \in Dim
                PROVE  Rolled(k, d, clock) = Standing(k, d, Bucket(d, clock))
    BY DEF CountsAreAdmitted
  <2>1. Bucket(d, clock) \in Buckets /\ Bucket(d, clock) \in Nat /\ window[k][d] \in Nat
    BY BucketType DEF TypeOK
  <2>2. /\ window[k][d] <= Bucket(d, clock)
        /\ Stands(window[k][d], count[k][d], spent[k][d], wiped[k][d])
        /\ spent[k][d][Bucket(d, clock)] \in Nat /\ wiped[k][d][Bucket(d, clock)] \in Nat
    BY <2>1 DEF StandInv, TypeOK
  <2> QED BY <2>1, <2>2 DEF Stands, Rolled, Standing
<1>2. Init => TypeOK /\ StandInv
  BY InitType, StandInit
<1>3. TypeOK /\ StandInv /\ [Next]_vars => (TypeOK /\ StandInv)'
  BY TypeInductive, StandInductive
<1> QED BY <1>1, <1>2, <1>3, PTL DEF Spec
LEMMA StandInvariance == Spec => [](TypeOK /\ StandInv)
<1>1. Init => TypeOK /\ StandInv
  BY InitType, StandInit
<1>2. TypeOK /\ StandInv /\ [Next]_vars => (TypeOK /\ StandInv)'
  BY TypeInductive, StandInductive
<1> QED BY <1>1, <1>2, PTL DEF Spec

\* An admission finds room in the window it counts in, and what stands of any
\* other window does not grow.
LEMMA LimitInductive == TypeOK /\ StandInv /\ LimitPerWipe /\ [Next]_vars => LimitPerWipe'
<1>. SUFFICES ASSUME TypeOK, StandInv, LimitPerWipe, [Next]_vars,
                     NEW j \in Key, NEW d \in RequestDim, NEW b \in Buckets, Limited(j, d)
              PROVE  spent'[j][d][b] - wiped'[j][d][b] <= Limit[j][d]
  BY DEF LimitPerWipe, Standing, Limited
<1>1. /\ d \in Dim /\ Limit[j][d] \in Nat
      /\ spent[j][d][b] \in Nat /\ wiped[j][d][b] \in Nat
      /\ spent[j][d][b] - wiped[j][d][b] <= Limit[j][d]
  <2>1. d \in Dim /\ Limit[j][d] \in Nat
    BY RateLimitAssumption DEF Dim, RateLimitAssumption, Limited
  <2> QED BY <2>1 DEF TypeOK, LimitPerWipe, Standing
<1>2. ASSUME UNCHANGED <<spent, wiped>>
      PROVE  spent'[j][d][b] - wiped'[j][d][b] <= Limit[j][d]
  BY <1>1, <1>2
<1>3. ASSUME NEW k \in Key, NEW now \in Readings, NEW ds \in SUBSET Dim,
             NEW gaining \in SUBSET ds, NEW n \in Nat, CountedAt(k, ds, gaining, n, now)
      PROVE  spent'[j][d][b] - wiped'[j][d][b] <= Limit[j][d]
  <2>1. StandsAt(k, ds, gaining, n, now)
    BY <1>3, CountedStands
  <2>2. CASE ~(j = k /\ d \in ds)
    <3>1. spent'[j][d][b] = spent[j][d][b] /\ wiped'[j][d][b] = wiped[j][d][b]
      BY <1>1, <2>1, <2>2 DEF StandsAt
    <3> QED BY <1>1, <3>1
  <2>3. CASE j = k /\ d \in ds /\ b # Bucket(d, now)
    <3>1. /\ spent'[j][d][b] = spent[j][d][b]
          /\ wiped'[j][d][b] \in {wiped[j][d][b], spent[j][d][b]}
      BY <1>1, <2>1, <2>3 DEF StandsAt
    <3> QED BY <1>1, <3>1
  <2>4. CASE j = k /\ d \in ds /\ b = Bucket(d, now)
    <3>1. spent'[j][d][b] - wiped'[j][d][b]
             = Rolled(j, d, now) + (IF d \in gaining THEN n ELSE 0)
      BY <1>1, <2>1, <2>4 DEF StandsAt
    <3>2. Rolled(j, d, now) \in Nat
      BY <1>1 DEF TypeOK, Rolled
    <3>3. CASE d \in gaining
      <4>1. n = 1 /\ Rolled(j, d, now) < Limit[j][d]
        BY <1>1, <1>3, <2>4, <3>2, <3>3 DEF CountedAt, Full
      <4> QED BY <1>1, <3>1, <3>2, <3>3, <4>1
    <3>4. CASE d \notin gaining
      <4>1. Rolled(j, d, now) <= Limit[j][d]
        <5>1. CASE window[j][d] = Bucket(d, now)
          <6>1. Rolled(j, d, now) = spent[j][d][b] - wiped[j][d][b]
            BY <1>1, <2>4, <5>1 DEF Rolled, StandInv, Stands
          <6> QED BY <1>1, <6>1
        <5> QED BY <1>1, <5>1 DEF Rolled
      <4> QED BY <1>1, <3>1, <3>2, <3>4, <4>1
    <3> QED BY <3>3, <3>4
  <2> QED BY <2>2, <2>3, <2>4
<1>4. CounterStep
  BY CounterSteps
<1> QED BY <1>2, <1>3, <1>4 DEF CounterStep, Tick

\* However stale the readings, no window admits more requests than its limit, or
\* than its limit again from the moment a stale reading has wiped it.
THEOREM WindowsKept == Spec => []LimitPerWipe
<1>1. Init => LimitPerWipe
  <2>. SUFFICES ASSUME Init, NEW k \in Key, NEW d \in RequestDim, NEW b \in Buckets,
                       Limited(k, d)
                PROVE  Standing(k, d, b) <= Limit[k][d]
    BY DEF LimitPerWipe
  <2>1. d \in Dim /\ Limit[k][d] \in Nat
    BY RateLimitAssumption DEF Dim, RateLimitAssumption, Limited
  <2>2. spent[k][d][b] = 0 /\ wiped[k][d][b] = 0
    BY <2>1 DEF Init
  <2> QED BY <2>1, <2>2 DEF Standing
<1> QED BY <1>1, LimitInductive, StandInvariance, PTL DEF Spec

FullInv == SlotInv /\ StandInv

LEMMA FullInvariance == Spec => []FullInv
<1>1. SlotInv /\ TypeOK /\ StandInv => FullInv
  BY DEF FullInv
<1> QED BY <1>1, SlotInvariance, StandInvariance, PTL

-----------------------------------------------------------------------------
(* The limiter implements AdmissionPolicy.                                 *)

LEMMA PolicyDims == Policy!Dim = Dim
BY DEF Policy!Dim, Dim

\* The policy counts sets as FiniteSets does.
LEMMA PolicyCardinality == \A S : Policy!Cardinality(S) = Cardinality(S)
BY DEF Policy!Cardinality, Cardinality

LEMMA PolicySeconds == Policy!Seconds = Readings
BY DEF Policy!Seconds, Readings

LEMMA RecordIsSpend ==
    ASSUME TypeOK, NEW k \in Key, NEW gaining, NEW now, NEW n, Record(k, gaining, now, n)
    PROVE  Policy!Spend(k, gaining, now, n)
<1>1. \A d \in Dim : DOMAIN spent[k][d] = Buckets
  BY DEF TypeOK
<1> QED BY <1>1, PolicyDims DEF Record, Policy!Spend, Policy!InWindow, Bucket

\* What a use of counters wipes the policy lets it wipe: the windows it goes back
\* over are over, or run but for the readings, and nothing stands after them.
LEMMA UseMayWipe ==
    ASSUME TypeOK, StandInv, NEW k \in Key, NEW ds \in SUBSET Dim, NEW now \in Readings,
           NEW gaining, NEW n, Use(k, ds, now, gaining, n)
    PROVE  Policy!MayWipe(k, now)
<1> DEFINE back == {d \in ds : Bucket(d, now) < window[k][d]}
           row == [d \in Dim |-> [b \in Buckets |->
                     IF d \in back /\ Bucket(d, now) <= b
                     THEN spent[k][d][b] ELSE wiped[k][d][b]]]
<1>1. back \in SUBSET {d \in Dim : Bucket(d, now) < Bucket(d, clock)}
  <2>1. \A d \in Dim : /\ window[k][d] \in Nat /\ window[k][d] <= Bucket(d, clock)
                       /\ Bucket(d, now) \in Nat /\ Bucket(d, clock) \in Nat
    BY ReadingBegun DEF TypeOK, StandInv
  <2> QED BY <2>1
<1>2. \A d \in Dim : DOMAIN wiped[k][d] = Buckets
  BY DEF TypeOK
<1>3. wiped' = [wiped EXCEPT ![k] = row]
  <2>. DEFINE wipe(d, b) == /\ d \in ds
                            /\ Bucket(d, now) < window[k][d]
                            /\ b \in Bucket(d, now) .. window[k][d]
              used == [d \in Dim |-> [b \in Buckets |->
                         IF wipe(d, b) THEN spent[k][d][b] ELSE wiped[k][d][b]]]
  <2>1. wiped' = [wiped EXCEPT ![k] = used]
    BY DEF Use, Wipe
  <2>2. ASSUME NEW d \in Dim, NEW b \in Buckets
        PROVE  (IF wipe(d, b) THEN spent[k][d][b] ELSE wiped[k][d][b])
                 = (IF d \in back /\ Bucket(d, now) <= b
                    THEN spent[k][d][b] ELSE wiped[k][d][b])
    <3>1. /\ b \in Nat /\ Bucket(d, now) \in Nat /\ window[k][d] \in Nat
          /\ b > window[k][d] => spent[k][d][b] = wiped[k][d][b]
      BY BucketsNat, ReadingBegun DEF TypeOK, StandInv, Stands
    <3>2. wipe(d, b) <=> d \in back /\ Bucket(d, now) <= b /\ b <= window[k][d]
      BY <3>1
    <3>. HIDE DEF wipe, back
    <3>3. CASE b > window[k][d]
      BY <3>1, <3>3
    <3>4. CASE ~(b > window[k][d])
      BY <3>1, <3>2, <3>4
    <3> QED BY <3>3, <3>4
  <2>. HIDE DEF wipe, back
  <2>3. used = row
    BY <2>2, Zenon
  <2>. HIDE DEF used, row
  <2> QED BY <2>1, <2>3
<1>4. row = [d \in Policy!Dim |-> [b \in DOMAIN wiped[k][d] |->
               IF d \in back /\ Policy!InWindow(d, now) <= b
               THEN spent[k][d][b] ELSE wiped[k][d][b]]]
  <2>. HIDE DEF back
  <2> QED BY <1>2, PolicyDims DEF Policy!InWindow, Bucket
<1>5. back \in SUBSET {d \in Policy!Dim : Policy!InWindow(d, now) < Policy!InWindow(d, clock)}
  <2>. HIDE DEF back
  <2> QED BY <1>1, PolicyDims DEF Policy!InWindow, Bucket
<1>. HIDE DEF back, row
<1>6. wiped' = [wiped EXCEPT ![k] = [d \in Policy!Dim |-> [b \in DOMAIN @[d] |->
                  IF d \in back /\ Policy!InWindow(d, now) <= b
                  THEN spent[k][d][b] ELSE @[d][b]]]]
  BY <1>3, <1>4 DEF TypeOK
<1> QED BY <1>5, <1>6 DEF Policy!MayWipe
LEMMA AdmitRefines ==
    ASSUME FullInv, NEW r \in Request, pc[r] = "reserving",
           NEW k, k = Layers[r][last[r] + 1],
           NEW now \in Readings, Admit(r, k, now)
    PROVE  k \in Key /\ Policy!Enter(r, k)
<1>1. TypeOK /\ StandInv
  BY DEF FullInv, SlotInv
<1>2. /\ k \in Key /\ r \notin Holders(k)
      /\ Holders(k)' = Holders(k) \union {r}
      /\ \A j \in Key \ {k} : Holders(j)' = Holders(j)
  BY <1>1, AdmitHolders
<1>3. Concurrency[k] # Unlimited => Cardinality(Holders(k)) < Concurrency[k]
  <2>1. inFlight[k] = Cardinality(Holders(k)) /\ Cardinality(Holders(k)) \in Nat
    BY <1>2, HoldersFinite DEF FullInv, SlotInv, HoldsAreCounted
  <2>2. Concurrency[k] \in Nat \union {Unlimited}
    BY <1>2, RateLimitAssumption DEF RateLimitAssumption
  <2> QED BY <2>1, <2>2 DEF Admit, AtCapacity
<1> DEFINE ds == {d \in Dim : Limited(k, d)}
<1>4. Use(k, ds, now, Counting(k), 1)
  BY DEF Admit
<1>5. ASSUME NEW d \in Dim, Limit[k][d] # Unlimited
      PROVE  spent[k][d][Bucket(d, now)] - wiped'[k][d][Bucket(d, now)] < Limit[k][d]
  <2>1. d \in ds
    BY <1>5 DEF Limited
  <2>2. spent[k][d][Bucket(d, now)] - wiped'[k][d][Bucket(d, now)] = Rolled(k, d, now)
    <3>1. WipedAt(k, ds, now)
      BY <1>1, <1>2, <1>4, UseWipes
    <3>. HIDE DEF ds
    <3> QED BY <1>1, <1>2, <2>1, <3>1, RolledStands
  <2>3. Rolled(k, d, now) \in Nat
    BY <1>1, <1>2 DEF TypeOK, Rolled
  <2>4. Limit[k][d] \in Nat
    BY <1>2, <1>5, RateLimitAssumption DEF RateLimitAssumption
  <2>5. ~(Rolled(k, d, now) >= Limit[k][d])
    BY <1>5 DEF Admit, Full, Limited
  <2> QED BY <2>2, <2>3, <2>4, <2>5
<1>6. Policy!HasRoom(k, now)
  BY <1>2, <1>3, <1>5, PolicyDims, PolicyCardinality
     DEF Policy!HasRoom, Policy!InWindow, Bucket
<1>7. Policy!Spend(k, {d \in RequestDim : Limit[k][d] # Unlimited}, now, 1)
  BY <1>1, <1>2, RecordIsSpend DEF Admit, Counting, Limited
<1>8. Policy!MayWipe(k, now)
  BY <1>1, <1>2, <1>4, UseMayWipe
<1>9. UNCHANGED clock
  BY DEF Admit
<1> QED BY <1>2, <1>6, <1>7, <1>8, <1>9, PolicySeconds DEF Policy!Enter

LEMMA TokensRefine ==
    ASSUME TypeOK, StandInv, NEW k \in Key, NEW now \in Readings,
           NEW n \in 0 .. MaxTokens, AddTokens(k, now, n)
    PROVE  Policy!SpendTokens(k)
<1>1. Policy!MayWipe(k, now)
  <2>1. TokenDim \in SUBSET Dim
    BY DEF Dim
  <2> QED BY <2>1, UseMayWipe DEF AddTokens
<1>2. Policy!Spend(k, TokenDim, now, n)
  BY RecordIsSpend DEF AddTokens
<1> QED BY <1>1, <1>2, PolicySeconds DEF Policy!SpendTokens

LEMMA BillRefines ==
    ASSUME FullInv, NEW r \in Request, BillLayer(r)
    PROVE  \E k \in Key : Policy!Bill(r, k)
<1>1. TypeOK /\ StandInv
  BY DEF FullInv, SlotInv
<1>2. PICK k : k = Layers[r][billed[r] + 1]
  OBVIOUS
<1>3. k \in Key /\ r \in Holders(k)
  BY <1>1, <1>2, LayerHeld DEF BillLayer, Holders, Holds, TypeOK
<1>4. PICK now \in Readings : AddTokens(k, now, tokens[r])
  BY <1>2 DEF BillLayer
<1>5. tokens[r] \in 0 .. MaxTokens
  BY <1>1 DEF TypeOK
<1>6. Policy!SpendTokens(k)
  BY <1>1, <1>3, <1>4, <1>5, TokensRefine
<1>7. UNCHANGED <<clock, first, last>>
  BY DEF BillLayer
<1>8. \A j \in Key : Holders(j)' = Holders(j)
  BY <1>7, HoldersKept
<1> QED BY <1>3, <1>6, <1>7, <1>8 DEF Policy!Bill

LEMMA LeaveRefines ==
    ASSUME FullInv, NEW r \in Request, CommitLayer(r) \/ DropLayer(r)
    PROVE  \E k \in Key : Policy!Leave(r, k)
<1>1. TypeOK /\ StandInv
  BY DEF FullInv, SlotInv
<1>2. PICK k : k = Layers[r][first[r]]
  OBVIOUS
<1>3. /\ k \in Key /\ r \in Holders(k)
      /\ Holders(k)' = Holders(k) \ {r}
      /\ \A j \in Key \ {k} : Holders(j)' = Holders(j)
  BY <1>1, <1>2, LetGoHolders
<1>4. UNCHANGED <<spent, wiped>> \/ Policy!SpendTokens(k)
  <2>1. CASE DropLayer(r)
    BY <2>1 DEF DropLayer
  <2>2. CASE CommitLayer(r)
    <3>1. PICK now \in Readings : AddTokens(k, now, tokens[r])
      BY <1>2, <2>2 DEF CommitLayer
    <3>2. tokens[r] \in 0 .. MaxTokens
      BY <1>1 DEF TypeOK
    <3> QED BY <1>1, <1>3, <3>1, <3>2, TokensRefine
  <2> QED BY <2>1, <2>2
<1>5. UNCHANGED clock
  BY DEF CommitLayer, DropLayer
<1> QED BY <1>3, <1>4, <1>5 DEF Policy!Leave

\* A refusal, and a response that reports what is left, are looks at a key.
LEMMA LookRefines ==
    ASSUME TypeOK, StandInv, NEW k \in Key, NEW ds \in SUBSET Dim, NEW now \in Readings,
           Use(k, ds, now, {}, 0), UNCHANGED <<clock, first, last, spent>>
    PROVE  Policy!LookAt(k)
<1>1. Policy!MayWipe(k, now)
  BY UseMayWipe
<1>2. \A j \in Key : Holders(j)' = Holders(j)
  BY HoldersKept
<1> QED BY <1>1, <1>2, PolicySeconds DEF Policy!LookAt

\* A step that moves no request, lets no time pass and counts nothing is a
\* stutter of the policy.
LEMMA PolicyStutter ==
    ASSUME UNCHANGED <<clock, first, last, spent, wiped>>
    PROVE  UNCHANGED Policy!vars
<1>1. \A k \in Key : Holders(k)' = Holders(k)
  BY HoldersKept
<1> QED BY <1>1 DEF Policy!vars

LEMMA PolicyInit == Init => Policy!Init
<1>. SUFFICES ASSUME Init PROVE Policy!Init
  OBVIOUS
<1>1. \A k \in Key : Holders(k) = {}
  BY DEF Init, Holders, Holds
<1>2. \A k \in Key, d \in Dim : \A b \in DOMAIN spent[k][d] : spent[k][d][b] = 0
  BY DEF Init
<1> QED BY <1>1, <1>2, PolicyDims DEF Init, Policy!Init

LEMMA PolicyStep ==
    FullInv /\ [Next]_vars => [Policy!Next]_(Policy!vars)
<1>. SUFFICES ASSUME FullInv, [Next]_vars
              PROVE  Policy!Next \/ UNCHANGED Policy!vars
  OBVIOUS
<1> DEFINE Kept == Policy!Next \/ UNCHANGED Policy!vars
<1>0. TypeOK /\ StandInv
  BY DEF FullInv, SlotInv
<1>1. ASSUME UNCHANGED <<clock, first, last, spent, wiped>> PROVE Kept
  BY <1>1, PolicyStutter
<1>2. ASSUME NEW r \in Request, Reserve(r) PROVE Kept
  <2>1. PICK k : k = Layers[r][last[r] + 1]
    OBVIOUS
  <2>2. ASSUME NEW now \in Readings, Admit(r, k, now) PROVE Kept
    BY <1>2, <2>1, <2>2, AdmitRefines DEF Reserve, Policy!Next
  <2>3. ASSUME NEW now \in Readings, RefuseWindow(r, k, now) PROVE Kept
    <3>1. k \in Key
      <4>1. last[r] + 1 \in 1 .. Len(Layers[r])
        BY <1>0, <1>2, RateLimitAssumption DEF TypeOK, Reserve, RateLimitAssumption
      <4> QED BY <2>1, <4>1, LayerKey
    <3>2. PICK ds \in SUBSET Dim : Use(k, ds, now, {}, 0)
      BY <1>0, <2>3, <3>1, RefuseCounts DEF CountedAt
    <3> QED BY <1>0, <2>3, <3>1, <3>2, LookRefines DEF RefuseWindow, Policy!Next
  <2> QED BY <1>1, <1>2, <2>1, <2>2, <2>3 DEF Reserve, RefuseSlot
<1>3. ASSUME NEW r \in Request, BillLayer(r) PROVE Kept
  BY <1>3, BillRefines DEF Policy!Next
<1>4. ASSUME NEW r \in Request, CommitLayer(r) \/ DropLayer(r) PROVE Kept
  BY <1>4, LeaveRefines DEF Policy!Next
<1>5. ASSUME NEW r \in Request, Finish(r) \/ Cancel(r) \/ StartStream(r) \/ EndStream(r)
      PROVE  Kept
  BY <1>1, <1>5 DEF Finish, Cancel, StartStream, EndStream
<1>6. ASSUME NEW k \in Key, Peek(k) PROVE Kept
  <2>1. PICK now \in Readings : Use(k, PeekDims, now, {}, 0)
    BY <1>6 DEF Peek
  <2>2. PeekDims \in SUBSET Dim
    BY RateLimitAssumption DEF RateLimitAssumption
  <2> QED BY <1>0, <1>6, <2>1, <2>2, LookRefines DEF Peek, Policy!Next
<1>7. ASSUME Tick PROVE Kept
  <2>1. \A k \in Key : Holders(k)' = Holders(k)
    BY <1>7, HoldersKept DEF Tick
  <2> QED BY <1>7, <2>1 DEF Tick, Policy!Tick, Policy!Next
<1>8. ASSUME UNCHANGED vars PROVE Kept
  BY <1>1, <1>8 DEF vars
<1> QED
  <2>. HIDE DEF Kept
  <2>1. Kept
    BY <1>2, <1>3, <1>4, <1>5, <1>6, <1>7, <1>8 DEF Next, RequestStep
  <2> QED BY <2>1 DEF Kept

\* The limiter, with its lazily rolled counters, its layers, its streams and
\* its stale readings, implements AdmissionPolicy.
THEOREM PolicyKept == Spec => KeepsPolicy
<1>1. FullInv /\ [Next]_vars => [Policy!Next]_(Policy!vars)
  BY PolicyStep
<1> QED BY <1>1, PolicyInit, FullInvariance, PTL DEF Spec, KeepsPolicy, Policy!Spec
-----------------------------------------------------------------------------
(* The overshoot of token limits.                                          *)

LEMMA TimesMonotone ==
    ASSUME NEW a \in Nat, NEW b \in Nat, NEW m \in Nat, a <= b
    PROVE  a * m \in Nat /\ b * m \in Nat /\ a * m <= b * m
OBVIOUS

LEMMA TimesPred ==
    ASSUME NEW a \in Nat, a > 0, NEW m \in Nat
    PROVE  (a - 1) * m \in Nat /\ (a - 1) * m + m = a * m
OBVIOUS

\* The requests inside k that can still be billed to it.
Unbilled(k) ==
    {r \in Request : \E i \in first[r] .. last[r] : i > billed[r] /\ Layers[r][i] = k}

Bounded(k, d) == Limited(k, d) /\ Limit[k][d] > 0 /\ Concurrency[k] # Unlimited

\* What a counter has been billed and may yet be billed by those inside is below
\* the bound.
RoomForThoseInside ==
    \A k \in Key, d \in TokenDim :
        Bounded(k, d) =>
            count[k][d] + Cardinality(Unbilled(k)) * MaxTokens
                < Limit[k][d] + Concurrency[k] * MaxTokens

LEMMA BoundedType ==
    ASSUME NEW k \in Key, NEW d \in TokenDim, Bounded(k, d)
    PROVE  /\ d \in Dim /\ MaxTokens \in Nat
           /\ Limit[k][d] \in Nat \ {0} /\ Concurrency[k] \in Nat
           /\ Concurrency[k] * MaxTokens \in Nat
<1>1. /\ d \in Dim /\ MaxTokens \in Nat
      /\ Limit[k][d] \in Nat \ {0} /\ Concurrency[k] \in Nat
  BY RateLimitAssumption DEF RateLimitAssumption, Dim, Bounded, Limited
<1> QED BY <1>1, TimesMonotone

\* No more can be billed to k than are inside, and these are within the limit.
LEMMA UnbilledCount ==
    ASSUME SlotInv, NEW k \in Key
    PROVE  /\ IsFiniteSet(Unbilled(k)) /\ Cardinality(Unbilled(k)) \in Nat
           /\ Concurrency[k] # Unlimited => Cardinality(Unbilled(k)) <= Concurrency[k]
<1>1. Unbilled(k) \in SUBSET Holders(k)
  BY DEF Unbilled, Holders, Holds
<1>2. IsFiniteSet(Holders(k)) /\ Cardinality(Holders(k)) \in Nat
  BY HoldersFinite
<1>3. IsFiniteSet(Unbilled(k)) /\ Cardinality(Unbilled(k)) <= Cardinality(Holders(k))
  BY <1>1, <1>2, FS_Subset
<1>4. Cardinality(Unbilled(k)) \in Nat
  BY <1>3, FS_CardinalityType
<1>5. Concurrency[k] # Unlimited =>
         Concurrency[k] \in Nat /\ Cardinality(Holders(k)) <= Concurrency[k]
  BY RateLimitAssumption DEF RateLimitAssumption, SlotInv, WithinConcurrency
<1> QED BY <1>2, <1>3, <1>4, <1>5

\* A running window that has not reached the limit has room for all that may
\* be inside.
LEMMA RoomBelowLimit ==
    ASSUME SlotInv, NEW k \in Key, NEW d \in TokenDim, Bounded(k, d),
           NEW n \in Nat, n < Limit[k][d]
    PROVE  n + Cardinality(Unbilled(k)) * MaxTokens < Limit[k][d] + Concurrency[k] * MaxTokens
<1>1. /\ Cardinality(Unbilled(k)) \in Nat
      /\ Cardinality(Unbilled(k)) <= Concurrency[k]
  BY UnbilledCount DEF Bounded
<1>2. /\ MaxTokens \in Nat /\ Limit[k][d] \in Nat /\ Concurrency[k] \in Nat
  BY BoundedType
<1>3. /\ Cardinality(Unbilled(k)) * MaxTokens <= Concurrency[k] * MaxTokens
      /\ Cardinality(Unbilled(k)) * MaxTokens \in Nat /\ Concurrency[k] * MaxTokens \in Nat
  BY <1>1, <1>2, TimesMonotone
<1>. DEFINE x == Cardinality(Unbilled(k)) * MaxTokens
            y == Concurrency[k] * MaxTokens
<1>4. x \in Nat /\ y \in Nat /\ x <= y
  BY <1>3
<1>. HIDE DEF x, y
<1>5. n + x < Limit[k][d] + y
  BY <1>2, <1>4
<1> QED BY <1>5 DEF x, y

\* A step that gains k at most what the one request it takes from those that
\* can be billed may cost keeps the room of k.
LEMMA BillingKeepsRoom ==
    ASSUME SlotInv, RoomForThoseInside, NEW k \in Key, NEW r \in Unbilled(k),
           Unbilled(k)' = Unbilled(k) \ {r}, NEW n \in 0 .. MaxTokens,
           NEW d \in TokenDim, Bounded(k, d), NEW c0 \in Nat, c0 <= count[k][d],
           count'[k][d] = c0 + n
    PROVE  count'[k][d] + Cardinality(Unbilled(k)') * MaxTokens
               < Limit[k][d] + Concurrency[k] * MaxTokens
<1>1. /\ d \in Dim /\ MaxTokens \in Nat /\ n \in Nat /\ n <= MaxTokens
      /\ Limit[k][d] \in Nat /\ Concurrency[k] * MaxTokens \in Nat
  BY BoundedType
<1>2. count[k][d] \in Nat
  BY <1>1 DEF SlotInv, TypeOK
<1>. DEFINE c == Cardinality(Unbilled(k))
            c2 == Cardinality(Unbilled(k) \ {r})
<1>3. c \in Nat /\ c2 \in Nat /\ c2 = c - 1
  <2>1. IsFiniteSet(Unbilled(k)) /\ c \in Nat
    BY UnbilledCount
  <2>2. IsFiniteSet(Unbilled(k) \ {r}) /\ c2 = c - 1
    BY <2>1, FS_RemoveElement
  <2> QED BY <2>1, <2>2, FS_CardinalityType
<1>4. count[k][d] + c * MaxTokens < Limit[k][d] + Concurrency[k] * MaxTokens
  BY DEF RoomForThoseInside
<1>. HIDE DEF c, c2
<1>5. c * MaxTokens \in Nat /\ c2 * MaxTokens \in Nat /\ c2 * MaxTokens + MaxTokens = c * MaxTokens
  BY <1>1, <1>3, TimesMonotone, TimesPred
<1>. DEFINE x == c * MaxTokens
            y == Concurrency[k] * MaxTokens
            z == c2 * MaxTokens
            u == count[k][d]
            L == Limit[k][d]
<1>6. x \in Nat /\ z \in Nat /\ y \in Nat /\ u \in Nat /\ L \in Nat
      /\ z + MaxTokens = x /\ u + x < L + y /\ c0 <= u
  BY <1>1, <1>2, <1>4, <1>5
<1>7. c0 + n + z < L + y
  <2>. HIDE DEF x, y, z, u, L
  <2> QED BY <1>1, <1>6
<1> QED BY <1>7 DEF c2

LEMMA UnbilledCountAfter ==
    SlotInv' => \A k \in Key : Cardinality(Unbilled(k)') \in Nat
<1>1. SlotInv => \A k \in Key : Cardinality(Unbilled(k)) \in Nat
  BY UnbilledCount
<1>2. (SlotInv => \A k \in Key : Cardinality(Unbilled(k)) \in Nat)'
  BY <1>1, PTL
<1> QED BY <1>2

\* The same of the state after a step.
LEMMA RoomBelowLimitAfter ==
    SlotInv' => \A k \in Key, d \in TokenDim : \A n \in Nat :
        Bounded(k, d) /\ n < Limit[k][d] =>
            n + Cardinality(Unbilled(k)') * MaxTokens
                < Limit[k][d] + Concurrency[k] * MaxTokens
<1>1. SlotInv => \A k \in Key, d \in TokenDim : \A n \in Nat :
          Bounded(k, d) /\ n < Limit[k][d] =>
              n + Cardinality(Unbilled(k)) * MaxTokens
                  < Limit[k][d] + Concurrency[k] * MaxTokens
  BY RoomBelowLimit
<1>2. (SlotInv => \A k \in Key, d \in TokenDim : \A n \in Nat :
          Bounded(k, d) /\ n < Limit[k][d] =>
              n + Cardinality(Unbilled(k)) * MaxTokens
                  < Limit[k][d] + Concurrency[k] * MaxTokens)'
  BY <1>1, PTL
<1> QED BY <1>2 DEF Bounded, Limited

\* A key keeps its room if its counter gains nothing and nobody comes in.
LEMMA RoomKept ==
    ASSUME SlotInv, RoomForThoseInside, NEW k \in Key, NEW d \in TokenDim, Bounded(k, d),
           Unbilled(k)' \subseteq Unbilled(k),
           count'[k][d] \in Nat, count'[k][d] <= count[k][d]
    PROVE  count'[k][d] + Cardinality(Unbilled(k)') * MaxTokens
               < Limit[k][d] + Concurrency[k] * MaxTokens
<1>1. /\ MaxTokens \in Nat /\ Limit[k][d] \in Nat /\ Concurrency[k] * MaxTokens \in Nat
      /\ d \in Dim
  BY BoundedType
<1>2. count[k][d] \in Nat
  BY <1>1 DEF SlotInv, TypeOK
<1>3. count[k][d] + Cardinality(Unbilled(k)) * MaxTokens
          < Limit[k][d] + Concurrency[k] * MaxTokens
  BY DEF RoomForThoseInside
<1>4. /\ Cardinality(Unbilled(k)) \in Nat /\ Cardinality(Unbilled(k)') \in Nat
      /\ Cardinality(Unbilled(k)') <= Cardinality(Unbilled(k))
  <2>1. IsFiniteSet(Unbilled(k)) /\ Cardinality(Unbilled(k)) \in Nat
    BY UnbilledCount
  <2>2. IsFiniteSet(Unbilled(k)')
        /\ Cardinality(Unbilled(k)') <= Cardinality(Unbilled(k))
    BY <2>1, FS_Subset
  <2> QED BY <2>1, <2>2, FS_CardinalityType
<1>. DEFINE x == Cardinality(Unbilled(k)) * MaxTokens
            z == Cardinality(Unbilled(k)') * MaxTokens
            y == Concurrency[k] * MaxTokens
            u == count[k][d]
            v == count'[k][d]
<1>5. x \in Nat /\ z \in Nat /\ z <= x /\ y \in Nat
  BY <1>1, <1>4, TimesMonotone
<1>6. u + x < Limit[k][d] + y /\ u \in Nat /\ v \in Nat /\ v <= u
  BY <1>2, <1>3
<1>7. v + z < Limit[k][d] + y
  <2>. HIDE DEF x, y, z, u, v
  <2> QED BY <1>1, <1>5, <1>6
<1> QED BY <1>7

\* A use that gains a counter nothing leaves it no more than it had.
LEMMA UseGainsNothing ==
    ASSUME TypeOK, NEW k \in Key, NEW ds, NEW gaining, NEW n \in Nat, NEW now,
           UsedAt(k, ds, gaining, n, now), NEW j \in Key, NEW d \in Dim,
           ~(j = k /\ d \in gaining)
    PROVE  count'[j][d] \in Nat /\ count'[j][d] <= count[j][d]
<1>1. /\ count[j][d] \in Nat
      /\ Rolled(j, d, now) \in Nat /\ Rolled(j, d, now) <= count[j][d]
  BY DEF TypeOK, Rolled
<1>2. count'[j][d] = count[j][d] \/ count'[j][d] = Rolled(j, d, now) + 0
  BY DEF UsedAt
<1> QED BY <1>1, <1>2

\* Who can be billed to a key, after each kind of step.
LEMMA UnbilledAfterBilling ==
    ASSUME TypeOK, NEW r \in Request, NEW k,
           \/ CommitLayer(r) /\ k = Layers[r][first[r]]
           \/ BillLayer(r) /\ k = Layers[r][billed[r] + 1]
    PROVE  /\ k \in Key
           /\ r \in Unbilled(k)
           /\ Unbilled(k)' = Unbilled(k) \ {r}
           /\ \A j \in Key \ {k} : Unbilled(j)' = Unbilled(j)
<1> DEFINE n == IF pc[r] = "committing" THEN first[r] ELSE billed[r] + 1
           Left(i) == i \in first[r] .. last[r] /\ i > billed[r]
<1>1. /\ n \in 1 .. Len(Layers[r]) /\ k \in Key /\ k = Layers[r][n]
      /\ \A i \in 1 .. Len(Layers[r]) : Layers[r][i] = k => i = n
  BY LayerHeld, LayerKey DEF CommitLayer, BillLayer
<1>2. /\ first[r] \in Nat \ {0} /\ billed[r] \in Nat /\ last[r] \in Nat
      /\ last[r] <= Len(Layers[r]) /\ Len(Layers[r]) \in Nat
  BY RateLimitAssumption DEF TypeOK, RateLimitAssumption
<1>3. /\ UNCHANGED last
      /\ \/ n = first[r] /\ billed[r] = 0 /\ first' = [first EXCEPT ![r] = @ + 1]
            /\ billed' = billed /\ first[r] <= last[r]
         \/ n = billed[r] + 1 /\ first[r] = 1 /\ first' = first
            /\ billed' = [billed EXCEPT ![r] = @ + 1] /\ n <= last[r]
  BY LayerHeld DEF CommitLayer, BillLayer, LetGo, TypeOK
<1>4. \A q \in Request \ {r} : first'[q] = first[q] /\ billed'[q] = billed[q]
  BY <1>3 DEF TypeOK
<1>5. Left(n) /\ \A i : Left(i) /\ i # n <=> (Left(i))'
  BY <1>2, <1>3 DEF TypeOK
<1>6. \A i : Left(i) => i \in 1 .. Len(Layers[r])
  BY <1>2
<1>7. \A j, q : q \in Unbilled(j) <=>
          q \in Request /\ \E i \in first[q] .. last[q] : i > billed[q] /\ Layers[q][i] = j
  BY DEF Unbilled
<1>8. \A j, q : q \in Unbilled(j)' <=>
          q \in Request /\ \E i \in first'[q] .. last'[q] : i > billed'[q] /\ Layers[q][i] = j
  BY DEF Unbilled
<1>9. \A j, q : q # r => (q \in Unbilled(j)' <=> q \in Unbilled(j))
  BY <1>3, <1>4, <1>7, <1>8
<1>10. \A j : r \in Unbilled(j) <=> \E i : Left(i) /\ Layers[r][i] = j
  BY <1>7
<1>11. \A j : r \in Unbilled(j)' <=> \E i : (Left(i))' /\ Layers[r][i] = j
  BY <1>8
<1>. HIDE DEF n, Left
<1>12. r \in Unbilled(k) /\ r \notin Unbilled(k)'
  BY <1>1, <1>5, <1>6, <1>10, <1>11
<1>13. \A j \in Key \ {k} : r \in Unbilled(j)' <=> r \in Unbilled(j)
  BY <1>1, <1>5, <1>10, <1>11
<1>14. Unbilled(k)' = Unbilled(k) \ {r}
  <2>1. \A q : q \in Unbilled(k)' <=> q \in Unbilled(k) \ {r}
    BY <1>9, <1>12
  <2> QED BY <2>1, Zenon
<1>15. ASSUME NEW j \in Key \ {k} PROVE Unbilled(j)' = Unbilled(j)
  <2>1. \A q : q \in Unbilled(j)' <=> q \in Unbilled(j)
    BY <1>9, <1>13
  <2> QED BY <2>1, Zenon
<1> QED BY <1>1, <1>12, <1>14, <1>15

LEMMA UnbilledAfterDrop ==
    ASSUME TypeOK, NEW r \in Request, DropLayer(r), NEW k \in Key
    PROVE  Unbilled(k)' \subseteq Unbilled(k)
<1>1. /\ first' = [first EXCEPT ![r] = @ + 1] /\ first[r] \in Nat /\ last[r] \in Nat
      /\ UNCHANGED <<last, billed>>
  BY DEF DropLayer, LetGo, TypeOK
<1>2. \A q \in Request : first'[q] .. last'[q] \subseteq first[q] .. last[q]
  BY <1>1 DEF TypeOK
<1> QED BY <1>1, <1>2 DEF Unbilled

LEMMA UnbilledAfterAdmit ==
    ASSUME TypeOK, NEW r \in Request, pc[r] = "reserving",
           NEW k, k = Layers[r][last[r] + 1], NEW now, Admit(r, k, now),
           NEW j \in Key \ {k}
    PROVE  Unbilled(j)' \subseteq Unbilled(j)
<1>1. /\ last' = [last EXCEPT ![r] = @ + 1] /\ first[r] = 1 /\ last[r] \in Nat
      /\ UNCHANGED <<first, billed>>
  BY DEF Admit, TypeOK
<1>2. first'[r] .. last'[r] = (first[r] .. last[r]) \union {last[r] + 1}
  BY <1>1 DEF TypeOK
<1>3. \A q \in Request \ {r} : first'[q] .. last'[q] = first[q] .. last[q]
  BY <1>1 DEF TypeOK
<1> QED BY <1>1, <1>2, <1>3 DEF Unbilled

LEMMA RefuseGainsNothing ==
    ASSUME TypeOK, NEW r \in Request, Reserve(r), NEW now \in Readings,
           RefuseWindow(r, Layers[r][last[r] + 1], now), NEW i \in Key, NEW d \in Dim
    PROVE  count'[i][d] \in Nat /\ count'[i][d] <= count[i][d]
<1>1. PICK k : k = Layers[r][last[r] + 1]
  OBVIOUS
<1>2. k \in Key
  <2>1. last[r] \in Nat /\ last[r] < Len(Layers[r])
    BY DEF TypeOK, Reserve
  <2>2. Len(Layers[r]) \in Nat
    BY RateLimitAssumption DEF RateLimitAssumption
  <2>3. last[r] + 1 \in 1 .. Len(Layers[r])
    BY <2>1, <2>2
  <2> QED BY <1>1, <2>3, LayerKey
<1>3. PICK ds \in SUBSET Dim : CountedAt(k, ds, {}, 0, now)
  BY <1>1, <1>2, RefuseCounts
<1>4. UsedAt(k, ds, {}, 0, now)
  BY <1>2, <1>3, UseCounts
<1>5. /\ count[i][d] \in Nat
      /\ Rolled(i, d, now) \in Nat /\ Rolled(i, d, now) <= count[i][d]
  BY DEF TypeOK, Rolled
<1>6. count'[i][d] = count[i][d] \/ count'[i][d] = Rolled(i, d, now) + 0
  BY <1>4 DEF UsedAt
<1> QED BY <1>5, <1>6

LEMMA RoomInit == Init => RoomForThoseInside
<1>. SUFFICES ASSUME Init, NEW k \in Key, NEW d \in TokenDim, Bounded(k, d)
              PROVE  count[k][d] + Cardinality(Unbilled(k)) * MaxTokens
                         < Limit[k][d] + Concurrency[k] * MaxTokens
  BY DEF RoomForThoseInside
<1>1. SlotInv /\ d \in Dim /\ Limit[k][d] \in Nat \ {0}
  BY SlotInit, BoundedType
<1>2. count[k][d] = 0
  BY <1>1 DEF Init
<1> QED BY <1>1, <1>2, RoomBelowLimit

\* Every step leaves room for those inside, stale reading or not: a counter that
\* goes back to a window forgets, and one that is admitted to is below its limit.
LEMMA RoomInductive ==
    ASSUME SlotInv, SlotInv', RoomForThoseInside, [Next]_vars,
           NEW k \in Key, NEW d \in TokenDim, Bounded(k, d)
    PROVE  count'[k][d] + Cardinality(Unbilled(k)') * MaxTokens
               < Limit[k][d] + Concurrency[k] * MaxTokens
<1>1. TypeOK /\ d \in Dim /\ count[k][d] \in Nat
  BY BoundedType DEF SlotInv, TypeOK
<1> DEFINE Room == count'[k][d] + Cardinality(Unbilled(k)') * MaxTokens
                       < Limit[k][d] + Concurrency[k] * MaxTokens
<1>3. ASSUME Unbilled(k)' \subseteq Unbilled(k),
             count'[k][d] \in Nat, count'[k][d] <= count[k][d]
      PROVE  Room
  BY <1>3, RoomKept
<1>4. ASSUME UNCHANGED <<first, last, billed, count>> PROVE Room
  BY <1>1, <1>3, <1>4 DEF Unbilled
<1>5. ASSUME NEW r \in Request, Reserve(r) PROVE Room
  <2>1. PICK j : j = Layers[r][last[r] + 1]
    OBVIOUS
  <2>2. ASSUME NEW now \in Readings, Admit(r, j, now) PROVE Room
    <3>1. j \in Key /\ pc[r] = "reserving"
      BY <1>1, <1>5, <2>1, <2>2, AdmitHolders DEF Reserve
    <3>2. UsedAt(j, {x \in Dim : Limited(j, x)}, Counting(j), 1, now)
      BY <1>1, <2>2, <3>1, AdmitCounts, UseCounts
    <3>3. d \notin Counting(j)
      BY RateLimitAssumption DEF RateLimitAssumption, Counting
    <3>4. count'[k][d] \in Nat /\ count'[k][d] <= count[k][d]
      BY <1>1, <3>1, <3>2, <3>3, UseGainsNothing
    <3>5. CASE j # k
      BY <1>1, <1>3, <2>1, <2>2, <3>1, <3>4, <3>5, UnbilledAfterAdmit
    <3>6. CASE j = k
      <4>1. Rolled(k, d, now) \in Nat /\ Rolled(k, d, now) < Limit[k][d]
        <5>1. ~Full(k, d, now)
          BY <1>1, <2>2, <3>6 DEF Admit
        <5>2. Rolled(k, d, now) \in Nat
          BY <1>1 DEF TypeOK, Rolled
        <5> QED BY <5>1, <5>2, BoundedType DEF Full, Bounded
      <4>2. count'[k][d] = Rolled(k, d, now) + 0
        BY <1>1, <3>2, <3>3, <3>6 DEF UsedAt, Bounded
      <4> QED BY <1>1, <4>1, <4>2, RoomBelowLimitAfter
    <3> QED BY <3>5, <3>6
  <2>3. ASSUME NEW now \in Readings, RefuseWindow(r, j, now) PROVE Room
    <3>4. count'[k][d] \in Nat /\ count'[k][d] <= count[k][d]
      BY <1>1, <1>5, <2>1, <2>3, RefuseGainsNothing
    <3>5. Unbilled(k)' \subseteq Unbilled(k)
      BY <2>3 DEF RefuseWindow, Unbilled
    <3> QED BY <1>3, <3>4, <3>5
  <2> QED BY <1>4, <1>5, <2>1, <2>2, <2>3 DEF Reserve, RefuseSlot
<1>6. ASSUME NEW r \in Request, CommitLayer(r) \/ BillLayer(r) PROVE Room
  <2>1. PICK j : \/ CommitLayer(r) /\ j = Layers[r][first[r]]
                 \/ BillLayer(r) /\ j = Layers[r][billed[r] + 1]
    BY <1>6
  <2>2. /\ j \in Key /\ r \in Unbilled(j) /\ Unbilled(j)' = Unbilled(j) \ {r}
        /\ \A i \in Key \ {j} : Unbilled(i)' = Unbilled(i)
    BY <1>1, <2>1, UnbilledAfterBilling
  <2>3. PICK now \in Readings : AddTokens(j, now, tokens[r])
    BY <2>1 DEF CommitLayer, BillLayer
  <2>4. tokens[r] \in 0 .. MaxTokens /\ tokens[r] \in Nat
    BY <1>1 DEF TypeOK
  <2>5. UsedAt(j, TokenDim, TokenDim, tokens[r], now)
    BY <1>1, <2>2, <2>3, <2>4, AddTokensCounts, UseCounts
  <2>6. CASE j # k
    <3>1. count'[k][d] \in Nat /\ count'[k][d] <= count[k][d]
      BY <1>1, <2>2, <2>4, <2>5, <2>6, UseGainsNothing
    <3> QED BY <1>3, <2>2, <2>6, <3>1
  <2>7. CASE j = k
    <3>1. count'[k][d] = Rolled(k, d, now) + tokens[r]
      BY <1>1, <2>5, <2>7 DEF UsedAt
    <3>2. Rolled(k, d, now) \in Nat /\ Rolled(k, d, now) <= count[k][d]
      BY <1>1 DEF TypeOK, Rolled
    <3> QED BY <2>2, <2>4, <2>7, <3>1, <3>2, BillingKeepsRoom
  <2> QED BY <2>6, <2>7
<1>7. ASSUME NEW r \in Request, DropLayer(r) PROVE Room
  BY <1>1, <1>3, <1>7, UnbilledAfterDrop DEF DropLayer
<1>8. ASSUME NEW r \in Request, Finish(r) \/ Cancel(r) \/ StartStream(r) \/ EndStream(r)
      PROVE  Room
  BY <1>4, <1>8 DEF Finish, Cancel, StartStream, EndStream
<1>9. ASSUME NEW j \in Key, Peek(j) PROVE Room
  <2>1. PICK now \in Readings : Use(j, PeekDims, now, {}, 0)
    BY <1>9 DEF Peek
  <2>2. CountedAt(j, PeekDims, {}, 0, now)
    BY <1>1, <1>9, <2>1, NothingSpent DEF Peek, CountedAt
  <2>3. UsedAt(j, PeekDims, {}, 0, now)
    BY <1>1, <2>2, UseCounts
  <2>4. count'[k][d] \in Nat /\ count'[k][d] <= count[k][d]
    BY <1>1, <2>3, UseGainsNothing
  <2>5. Unbilled(k)' \subseteq Unbilled(k)
    BY <1>9 DEF Peek, Unbilled
  <2> QED BY <1>3, <2>4, <2>5
<1>10. ASSUME UNCHANGED vars PROVE Room
  BY <1>4, <1>10 DEF vars
<1>11. ASSUME Tick PROVE Room
  BY <1>4, <1>11 DEF Tick
<1>12. Room
  <2>. HIDE DEF Room
  <2> QED BY <1>5, <1>6, <1>7, <1>8, <1>9, <1>10, <1>11 DEF Next, RequestStep
<1> QED BY <1>12

OvershootInv == RoomForThoseInside /\ OvershootIsBounded

\* What stands of a window is what its counter counts, and it has room, or no
\* more than stood of it.
LEMMA OvershootInductive ==
    FullInv /\ FullInv' /\ OvershootInv /\ [Next]_vars => OvershootInv'
<1>. SUFFICES ASSUME FullInv, FullInv', OvershootInv, [Next]_vars PROVE OvershootInv'
  OBVIOUS
<1>1. /\ SlotInv /\ SlotInv' /\ TypeOK /\ StandInv /\ StandInv'
      /\ RoomForThoseInside /\ OvershootIsBounded
  BY DEF FullInv, SlotInv, OvershootInv
<1>2. ASSUME NEW k \in Key, NEW d \in TokenDim, Bounded(k, d)
      PROVE  count'[k][d] + Cardinality(Unbilled(k)') * MaxTokens
                 < Limit[k][d] + Concurrency[k] * MaxTokens
  BY <1>1, <1>2, RoomInductive
<1>3. RoomForThoseInside'
  BY <1>2 DEF RoomForThoseInside, Bounded, Limited
<1>4. ASSUME NEW k \in Key, NEW d \in TokenDim, NEW b \in Buckets, Bounded(k, d)
      PROVE  spent'[k][d][b] - wiped'[k][d][b] < Limit[k][d] + Concurrency[k] * MaxTokens
  <2>1. /\ d \in Dim /\ MaxTokens \in Nat /\ Limit[k][d] \in Nat \ {0}
        /\ Concurrency[k] * MaxTokens \in Nat
    BY <1>4, BoundedType
  <2>2. /\ spent[k][d][b] \in Nat /\ wiped[k][d][b] \in Nat
        /\ spent[k][d][b] - wiped[k][d][b] < Limit[k][d] + Concurrency[k] * MaxTokens
    BY <1>1, <1>4, <2>1 DEF TypeOK, OvershootIsBounded, Standing, Bounded
  <2>3. count'[k][d] < Limit[k][d] + Concurrency[k] * MaxTokens
    <3>1. Cardinality(Unbilled(k)') * MaxTokens \in Nat
      <4>1. Cardinality(Unbilled(k)') \in Nat
        BY <1>1, UnbilledCountAfter
      <4> QED BY <2>1, <4>1, TimesMonotone
    <3>2. count'[k][d] \in Nat
      BY <1>1, <2>1 DEF SlotInv, TypeOK
    <3>. DEFINE x == Cardinality(Unbilled(k)') * MaxTokens
                y == Concurrency[k] * MaxTokens
    <3>3. x \in Nat /\ y \in Nat /\ count'[k][d] + x < Limit[k][d] + y
      BY <1>2, <1>4, <2>1, <3>1
    <3>. HIDE DEF x, y
    <3>4. count'[k][d] < Limit[k][d] + y
      BY <2>1, <3>2, <3>3
    <3> QED BY <3>4 DEF y
  <2>4. ASSUME UNCHANGED <<spent, wiped>>
        PROVE  spent'[k][d][b] - wiped'[k][d][b] < Limit[k][d] + Concurrency[k] * MaxTokens
    BY <2>2, <2>4
  <2>5. ASSUME NEW j \in Key, NEW now \in Readings, NEW ds \in SUBSET Dim,
               NEW gaining \in SUBSET ds, NEW n \in Nat, CountedAt(j, ds, gaining, n, now)
        PROVE  spent'[k][d][b] - wiped'[k][d][b] < Limit[k][d] + Concurrency[k] * MaxTokens
    <3>1. StandsAt(j, ds, gaining, n, now) /\ UsedAt(j, ds, gaining, n, now)
      BY <1>1, <2>5, CountedStands, UseCounts
    <3>2. CASE k = j /\ d \in ds /\ b = Bucket(d, now)
      <4>1. spent'[k][d][b] - wiped'[k][d][b] = count'[k][d]
        BY <2>1, <3>1, <3>2 DEF StandsAt, UsedAt
      <4> QED BY <2>3, <4>1
    <3>3. CASE k = j /\ d \in ds /\ b # Bucket(d, now)
      <4>1. /\ spent'[k][d][b] = spent[k][d][b]
            /\ wiped'[k][d][b] \in {wiped[k][d][b], spent[k][d][b]}
        BY <2>1, <3>1, <3>3 DEF StandsAt
      <4>. DEFINE y == Concurrency[k] * MaxTokens
      <4>2. y \in Nat /\ spent[k][d][b] - wiped[k][d][b] < Limit[k][d] + y
        BY <2>1, <2>2
      <4>. HIDE DEF y
      <4>3. spent'[k][d][b] - wiped'[k][d][b] < Limit[k][d] + y
        BY <2>1, <2>2, <4>1, <4>2
      <4> QED BY <4>3 DEF y
    <3>4. CASE ~(k = j /\ d \in ds)
      BY <2>1, <2>2, <3>1, <3>4 DEF StandsAt
    <3> QED BY <3>2, <3>3, <3>4
  <2>6. CounterStep
    BY <1>1, CounterSteps
  <2> QED BY <2>4, <2>5, <2>6 DEF CounterStep, Tick
<1>5. OvershootIsBounded'
  BY <1>4 DEF OvershootIsBounded, Standing, Bounded, Limited
<1> QED BY <1>3, <1>5 DEF OvershootInv

\* However stale the readings, a token limit is overshot by less than the responses
\* of as many requests as the key admits at once, again from each wipe.
THEOREM OvershootBounded == Spec => []OvershootIsBounded
<1>1. FullInv /\ FullInv' /\ OvershootInv /\ [Next]_vars => OvershootInv'
  BY OvershootInductive
<1>2. OvershootInv => OvershootIsBounded
  BY DEF OvershootInv
<1>3. Init => OvershootInv
  <2>. SUFFICES ASSUME Init, NEW k \in Key, NEW d \in TokenDim, NEW b \in Buckets,
                       Bounded(k, d)
                PROVE  Standing(k, d, b) < Limit[k][d] + Concurrency[k] * MaxTokens
    BY RoomInit DEF OvershootInv, OvershootIsBounded, Bounded
  <2>1. /\ d \in Dim /\ Limit[k][d] \in Nat \ {0} /\ Concurrency[k] * MaxTokens \in Nat
    BY BoundedType
  <2>2. spent[k][d][b] = 0 /\ wiped[k][d][b] = 0
    BY <2>1 DEF Init
  <2> QED BY <2>1, <2>2 DEF Standing
<1> QED BY <1>1, <1>2, <1>3, FullInvariance, PTL DEF Spec
=============================================================================
