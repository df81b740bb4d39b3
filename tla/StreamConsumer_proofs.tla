----------------------- MODULE StreamConsumer_proofs -----------------------
(***************************************************************************)
(* Proofs about StreamConsumer, for any number of processes, names, sizes, *)
(* entries and failures.  TypeOK is inductive by itself.  What was read    *)
(* and not ACKed stays pending because XCLAIM forgets only what is not in  *)
(* the stream, and the stream loses only ACKed entries while it does not   *)
(* outgrow MaxLen: hence the theorems that follow assume MaxLen >= N.      *)
(***************************************************************************)
EXTENDS StreamConsumer, FiniteSetTheorems, TLAPS

-----------------------------------------------------------------------------
(* The operators.                                                          *)

LEMMA IdsFinite ==
    ASSUME NEW S \in SUBSET Ids
    PROVE  IsFiniteSet(S) /\ Cardinality(S) \in Nat
<1>1. IsFiniteSet(Ids)
  BY FS_Interval, EntriesAssumption DEF Ids
<1>2. IsFiniteSet(S)
  BY <1>1, FS_Subset
<1> QED
  BY <1>2, FS_CardinalityType

\* A prefix consists of entries of the page that are in the stream.
LEMMA PrefixOf ==
    ASSUME NEW P \in SUBSET Ids, NEW D \in Prefixes(P)
    PROVE  D \subseteq P \cap stream
<1>1. ASSUME NEW j \in Readable(P)
      PROVE  j \in P \cap stream
  <2>1. j \in P /\ j \in Int /\ ~(j < j)
    BY EntriesAssumption DEF Readable, Ids
  <2>2. j \in P \ stream => j < j
    BY DEF Readable
  <2> QED
    BY <2>1, <2>2
<1>2. \A i : Before(Readable(P), i) \subseteq Readable(P)
  BY DEF Before
<1>3. CASE "read" \in FaultKinds
  BY <1>1, <1>2, <1>3 DEF Prefixes
<1>4. CASE "read" \notin FaultKinds
  BY <1>1, <1>4 DEF Prefixes
<1> QED
  BY <1>3, <1>4

LEMMA LettersOf ==
    ASSUME NEW D, NEW L \in Letters(D)
    PROVE  L \subseteq D \cap Invalid
BY DEF Letters

\* addMatches keeps the queue within maxCapacity.
LEMMA AddedOf ==
    ASSUME NEW Q, NEW S, NEW T \in Added(Q, S)
    PROVE  Q \subseteq T /\ T \subseteq Q \cup S /\ Cardinality(T) <= Capacity
BY DEF Added

\* A page holds every entry of S below one it holds.
LEMMA PageIsPrefix ==
    ASSUME NEW S \in SUBSET Ids, NEW i \in Page(S), NEW j \in S, j <= i
    PROVE  j \in Page(S)
<1> DEFINE B(k) == {m \in S : m < k}
<1>1. /\ i \in Int /\ j \in Int /\ S \in SUBSET Int
      /\ B(j) \subseteq B(i) /\ B(i) \in SUBSET Ids
  <2>1. i \in Int /\ j \in Int /\ S \in SUBSET Int
    BY EntriesAssumption DEF Page, Ids
  <2>2. \A m \in S : m < j => m < i
    BY <2>1
  <2> QED
    BY <2>1, <2>2
<1>2. IsFiniteSet(B(i)) /\ Cardinality(B(i)) \in Nat
  BY <1>1, IdsFinite
<1>3. Cardinality(B(j)) \in Nat /\ Cardinality(B(j)) <= Cardinality(B(i))
  BY <1>1, <1>2, FS_Subset, FS_CardinalityType
<1>4. Cardinality(B(i)) < ReadCount
  BY DEF Page
<1>5. Cardinality(B(j)) < ReadCount
  BY <1>2, <1>3, <1>4, SizesAssumption
<1> QED
  BY <1>5 DEF Page

\* What handling the part D of a page leaves of the group's state.
LEMMA SettleEffect ==
    ASSUME TypeOK, NEW P \in SUBSET Ids, NEW D \in SUBSET P, NEW L,
           L \subseteq D \cap Invalid,
           NEW pel \in [Ids -> Names \cup {Nobody}], Settle(P, D, L, pel)
    PROVE  /\ dead' \subseteq Invalid
           /\ owner' \in [Ids -> Names \cup {Nobody}]
           /\ faults' \in 0..MaxFaults
           /\ faults' >= faults + Cardinality((D \cap Invalid) \ L)
           /\ Cardinality((D \cap Invalid) \ L) \in Nat
<1>1. (D \cap Invalid) \ L \in SUBSET Ids
  OBVIOUS
<1>2. Cardinality((D \cap Invalid) \ L) \in Nat
  BY <1>1, IdsFinite
<1>3. faults \in Nat /\ MaxFaults \in Nat
  BY ConsumerFaultsAssumption DEF TypeOK
<1>5. faults' \in 0..MaxFaults
      /\ faults' >= faults + Cardinality((D \cap Invalid) \ L)
  BY <1>2, <1>3 DEF Settle
<1>6. owner' \in [Ids -> Names \cup {Nobody}]
  BY DEF Settle
<1>7. dead' \subseteq Invalid
  BY DEF Settle, TypeOK
<1> QED
  BY <1>2, <1>5, <1>6, <1>7 DEF Settle

\* What Collect leaves of the memory of a process.
LEMMA CollectEffect ==
    ASSUME TypeOK, NEW e \in Engines, NEW D \in SUBSET Ids, NEW step \in Scans,
           NEW top, D \subseteq 1..top, 1..last \subseteq 1..top,
           Collect(e, D, step)
    PROVE  /\ got' \in [Engines -> SUBSET (1..top)]
           /\ queue' \in [Engines -> SUBSET (1..top)]
           /\ size' \in [Engines -> 0..Cap]
           /\ scan' \in [Engines -> Scans]
           /\ mode' \in [Engines -> {"down", "starting", "up"}]
           /\ \A f \in Engines : Cardinality(queue'[f]) <= Capacity
           /\ \A f \in Engines :
                queue'[f] \cup got'[f] \subseteq queue[f] \cup got[f] \cup Valid(D)
<1> DEFINE all == got[e] \cup Valid(D)
           length == size[e] + Cardinality(Valid(D))
<1>1. all \subseteq 1..top /\ Valid(D) \in SUBSET Ids
  BY DEF TypeOK, Valid
<1>2. length \in Nat /\ Cap \in Nat
  BY <1>1, IdsFinite, SizesAssumption DEF TypeOK
<1>3. CASE step # "off" /\ BelowCap(length)
  <2>1. /\ got' = [got EXCEPT ![e] = all]
        /\ size' = [size EXCEPT ![e] = IF length < Cap THEN length ELSE Cap]
        /\ scan' = [scan EXCEPT ![e] = step]
        /\ UNCHANGED <<queue, mode>>
    BY <1>3 DEF Collect
  <2>2. (IF length < Cap THEN length ELSE Cap) \in 0..Cap
    BY <1>2
  <2> HIDE DEF all, length
  <2>3. size' \in [Engines -> 0..Cap]
    BY <2>1, <2>2 DEF TypeOK
  <2>4. got' \in [Engines -> SUBSET (1..top)]
    BY <1>1, <2>1 DEF TypeOK
  <2>5. \A f \in Engines :
            queue'[f] \cup got'[f] \subseteq queue[f] \cup got[f] \cup Valid(D)
    BY <2>1 DEF TypeOK, all
  <2> QED
    BY <2>1, <2>3, <2>4, <2>5 DEF TypeOK
<1>4. CASE ~(step # "off" /\ BelowCap(length))
  <2>1. /\ \E Q \in Added(queue[e], all) : queue' = [queue EXCEPT ![e] = Q]
        /\ mode' = [mode EXCEPT ![e] = "up"]
        /\ got' = [got EXCEPT ![e] = {}]
        /\ size' = [size EXCEPT ![e] = 0]
        /\ scan' = [scan EXCEPT ![e] = "off"]
    BY <1>4 DEF Collect
  <2>2. PICK Q \in Added(queue[e], all) : queue' = [queue EXCEPT ![e] = Q]
    BY <2>1
  <2> HIDE DEF all, length
  <2>3. Q \subseteq queue[e] \cup all /\ Cardinality(Q) <= Capacity
    BY AddedOf
  <2>4. queue' \in [Engines -> SUBSET (1..top)]
    BY <1>1, <2>2, <2>3 DEF TypeOK
  <2>5. \A f \in Engines : Cardinality(queue'[f]) <= Capacity
    BY <2>2, <2>3 DEF TypeOK
  <2>6. \A f \in Engines :
            queue'[f] \cup got'[f] \subseteq queue[f] \cup got[f] \cup Valid(D)
    BY <2>1, <2>2, <2>3 DEF TypeOK, all
  <2>7. size' \in [Engines -> 0..Cap] /\ got' \in [Engines -> SUBSET (1..top)]
    BY <1>2, <2>1 DEF TypeOK
  <2> QED
    BY <2>1, <2>4, <2>5, <2>6, <2>7 DEF TypeOK, Scans
<1> QED
  BY <1>3, <1>4

-----------------------------------------------------------------------------
(* The commands that read entries, each with the page P it reads and the   *)
(* part D it gets through.                                                 *)

LEMMA PollEffect ==
    ASSUME TypeOK, NEW e \in Engines, Poll(e)
    PROVE  \E P \in SUBSET Ids : \E D \in SUBSET P, L \in SUBSET Ids :
             /\ P = Page({i \in stream : i > last})
             /\ last' \in P /\ \A i \in P : i <= last'
             /\ L \subseteq D \cap Invalid
             /\ Settle(P, D, L, Delivered(e, P))
             /\ \E Q \in Added(queue[e], Valid(P)) \cup {queue[e]} :
                   queue' = [queue EXCEPT ![e] = Q]
<1> DEFINE P == Page({i \in stream : i > last})
<1>1. P \in SUBSET Ids
  <2>1. stream \subseteq Ids
    BY EntriesAssumption DEF TypeOK, Ids
  <2> QED
    BY <2>1 DEF Page
<1>2. PICK D \in Prefixes(P) : \E L \in Letters(D) :
        /\ Settle(P, D, L, Delivered(e, P))
        /\ \E Q \in (IF D = P THEN Added(queue[e], Valid(P)) ELSE {queue[e]}) :
              queue' = [queue EXCEPT ![e] = Q]
  BY DEF Poll
<1>3. PICK L \in Letters(D) :
        /\ Settle(P, D, L, Delivered(e, P))
        /\ \E Q \in (IF D = P THEN Added(queue[e], Valid(P)) ELSE {queue[e]}) :
              queue' = [queue EXCEPT ![e] = Q]
  BY <1>2
<1>4. last' \in P /\ \A i \in P : i <= last'
  BY DEF Poll
<1> HIDE DEF P
<1>5. D \in SUBSET P /\ L \subseteq D \cap Invalid
  BY <1>1, PrefixOf, LettersOf
<1>6. \E Q \in Added(queue[e], Valid(P)) \cup {queue[e]} :
         queue' = [queue EXCEPT ![e] = Q]
  BY <1>3
<1>7. Settle(P, D, L, Delivered(e, P))
  BY <1>3
<1> QED
  BY <1>1, <1>4, <1>5, <1>6, <1>7 DEF P

LEMMA ReadOwnEffect ==
    ASSUME TypeOK, NEW e \in Engines, ReadOwn(e)
    PROVE  \E P \in SUBSET Ids : \E D \in SUBSET (P \cap stream), L \in SUBSET Ids :
             /\ P = Page(OwnedBy(e)) /\ P \subseteq Pending
             /\ L \subseteq D \cap Invalid
             /\ Settle(P, D, L, owner)
             /\ \E step \in Scans : Collect(e, D, step)
             /\ stale' = stale \ (P \cap stream)
<1> DEFINE P == Page(OwnedBy(e))
<1>1. P \in SUBSET Ids /\ P \subseteq Pending
  BY EnginesAssumption DEF Page, OwnedBy, Pending, TypeOK
<1>2. PICK D \in Prefixes(P) : \E L \in Letters(D) :
        /\ Settle(P, D, L, owner)
        /\ Collect(e, D, IF D = P /\ Full(P) THEN "own" ELSE "list")
  BY DEF ReadOwn
<1>3. PICK L \in Letters(D) :
        /\ Settle(P, D, L, owner)
        /\ Collect(e, D, IF D = P /\ Full(P) THEN "own" ELSE "list")
  BY <1>2
<1>4. stale' = stale \ (P \cap stream)
  BY DEF ReadOwn
<1> HIDE DEF P
<1>5. D \in SUBSET (P \cap stream) /\ L \subseteq D \cap Invalid
  BY <1>1, PrefixOf, LettersOf
<1>6. \E step \in Scans : Collect(e, D, step)
  BY <1>3 DEF Scans
<1>7. Settle(P, D, L, owner)
  BY <1>3
<1> QED
  BY <1>1, <1>4, <1>5, <1>6, <1>7 DEF P

\* The PEL after XCLAIM.
ClaimedPEL(e) ==
    [i \in Ids |-> IF i \in page[e] \ stream THEN Nobody
                   ELSE Delivered(e, Claimable(e))[i]]

LEMMA ClaimEffect ==
    ASSUME TypeOK, NEW e \in Engines, Claim(e)
    PROVE  \E D \in SUBSET Claimable(e), L \in SUBSET Ids :
             /\ Claimable(e) \in SUBSET Ids
             /\ Claimable(e) \subseteq Pending \cap stream
             /\ L \subseteq D \cap Invalid
             /\ Settle(Claimable(e), D, L, ClaimedPEL(e))
             /\ \E step \in Scans : Collect(e, D, step)
             /\ stale' = stale \ (Claimable(e) \cup (page[e] \ stream))
<1> DEFINE P == Claimable(e)
<1>1. P \in SUBSET Ids /\ P \subseteq Pending \cap stream
  BY DEF Claimable, Pending, TypeOK
<1>2. PICK D \in Prefixes(P) : \E L \in Letters(D) :
        /\ Settle(P, D, L, ClaimedPEL(e))
        /\ Collect(e, D, IF D = P /\ Full(page[e]) THEN "list" ELSE "off")
  BY DEF Claim, ClaimedPEL
<1>3. PICK L \in Letters(D) :
        /\ Settle(P, D, L, ClaimedPEL(e))
        /\ Collect(e, D, IF D = P /\ Full(page[e]) THEN "list" ELSE "off")
  BY <1>2
<1>4. stale' = stale \ (P \cup (page[e] \ stream))
  BY DEF Claim
<1> HIDE DEF P
<1>5. D \in SUBSET P /\ L \subseteq D \cap Invalid
  BY <1>1, PrefixOf, LettersOf
<1>6. \E step \in Scans : Collect(e, D, step)
  BY <1>3 DEF Scans
<1>7. Settle(P, D, L, ClaimedPEL(e))
  BY <1>3
<1> QED
  BY <1>1, <1>4, <1>5, <1>6, <1>7 DEF P

-----------------------------------------------------------------------------
(* Type correctness.                                                       *)

LEMMA InitType == Init => TypeOK
<1> SUFFICES ASSUME Init
             PROVE  TypeOK
  OBVIOUS
<1> USE EntriesAssumption, EnginesAssumption, SizesAssumption,
        ConsumerFaultsAssumption
<1>1. Pending = {}
  BY DEF Init, Pending
<1>2. /\ name \in [Engines -> Names]
      /\ published \in 0..N /\ last \in 0..published
      /\ stream \subseteq 1..published
      /\ owner \in [Ids -> Names \cup {Nobody}]
      /\ faults \in 0..MaxFaults
  BY DEF Init
<1>3. \A e \in Engines : Cardinality(queue[e]) <= Capacity
  BY FS_EmptySet, AccumulatorAssumption DEF Init
<1>4. size \in [Engines -> 0..Cap]
  BY DEF Init
<1> QED
  BY <1>1, <1>2, <1>3, <1>4 DEF Init, TypeOK, Scans

LEMMA PollType ==
    ASSUME TypeOK, NEW e \in Engines, Poll(e)
    PROVE  TypeOK'
<1>1. PICK P \in SUBSET Ids : \E D \in SUBSET P, L \in SUBSET Ids :
         /\ P = Page({i \in stream : i > last})
         /\ last' \in P /\ \A i \in P : i <= last'
         /\ L \subseteq D \cap Invalid
         /\ Settle(P, D, L, Delivered(e, P))
         /\ \E Q \in Added(queue[e], Valid(P)) \cup {queue[e]} :
               queue' = [queue EXCEPT ![e] = Q]
  BY PollEffect
<1>2. PICK D \in SUBSET P, L \in SUBSET Ids :
         /\ L \subseteq D \cap Invalid
         /\ Settle(P, D, L, Delivered(e, P))
  BY <1>1
<1>3. PICK Q \in Added(queue[e], Valid(P)) \cup {queue[e]} :
         queue' = [queue EXCEPT ![e] = Q]
  BY <1>1
<1>4. UNCHANGED <<name, published, stream, mode, batch, scanVars, stale>>
  BY DEF Poll
<1>5. Delivered(e, P) \in [Ids -> Names \cup {Nobody}]
  BY DEF Delivered, TypeOK
<1>6. /\ dead' \subseteq Invalid
      /\ acked' = acked \cup (D \cap Invalid)
      /\ \A i \in Ids : owner'[i] = IF i \in D \cap Invalid THEN Nobody
                                              ELSE Delivered(e, P)[i]
      /\ owner' \in [Ids -> Names \cup {Nobody}]
      /\ faults' \in 0..MaxFaults
  <2>1. /\ dead' \subseteq Invalid
        /\ owner' \in [Ids -> Names \cup {Nobody}]
        /\ faults' \in 0..MaxFaults
    BY <1>2, <1>5, SettleEffect
  <2> QED
    BY <1>2, <2>1 DEF Settle
<1>7. /\ last' \in 1..published /\ last' > last
      /\ P \subseteq 1..last' /\ 1..last \subseteq 1..last'
      /\ \A i \in P : i > last
  <2>1. last \in Int /\ published \in Int /\ stream \subseteq 1..published
    BY EntriesAssumption DEF TypeOK
  <2>2. \A i \in P : i \in 1..published /\ i > last
    BY <1>1, <2>1 DEF Page
  <2>3. last' \in P /\ \A i \in P : i <= last'
    BY <1>1
  <2> QED
    BY <2>1, <2>2, <2>3
<1>8. Pending' \subseteq 1..last'
  BY <1>6, <1>7 DEF Pending, Delivered, TypeOK
<1>9. stale \subseteq Pending'
  <2>1. ASSUME NEW i \in stale
        PROVE  owner'[i] # Nobody
    <3>1. i \in Ids /\ owner[i] # Nobody /\ i \in 1..last
      BY DEF TypeOK, Pending
    <3>2. i \notin P
      BY <1>7, <3>1 DEF TypeOK
    <3> QED
      BY <1>6, <3>1, <3>2 DEF Delivered
  <2> QED
    BY <2>1 DEF TypeOK, Pending
<1>10. /\ Q \subseteq queue[e] \cup Valid(P)
       /\ Cardinality(Q) <= Capacity
  BY <1>3, AddedOf DEF TypeOK
<1>11. queue' \in [Engines -> SUBSET (1..last')]
  BY <1>3, <1>7, <1>10 DEF TypeOK, Valid
<1>12. \A f \in Engines : Cardinality(queue'[f]) <= Capacity
  BY <1>3, <1>10 DEF TypeOK
<1>13. /\ batch' \in [Engines -> SUBSET (1..last')]
       /\ page' \in [Engines -> SUBSET (1..last')]
       /\ got' \in [Engines -> SUBSET (1..last')]
  BY <1>4, <1>7 DEF TypeOK, scanVars
<1>14. acked' \subseteq 1..last'
  BY <1>6, <1>7 DEF TypeOK
<1>15. last' \in 0..published'
  BY <1>4, <1>7 DEF TypeOK
<1> QED
  BY <1>4, <1>6, <1>8, <1>9, <1>11, <1>12, <1>13, <1>14, <1>15
     DEF TypeOK, scanVars

LEMMA ReadOwnType ==
    ASSUME TypeOK, NEW e \in Engines, ReadOwn(e)
    PROVE  TypeOK'
<1>1. PICK P \in SUBSET Ids : \E D \in SUBSET (P \cap stream), L \in SUBSET Ids :
         /\ P = Page(OwnedBy(e)) /\ P \subseteq Pending
         /\ L \subseteq D \cap Invalid
         /\ Settle(P, D, L, owner)
         /\ \E step \in Scans : Collect(e, D, step)
         /\ stale' = stale \ (P \cap stream)
  BY ReadOwnEffect
<1>2. PICK D \in SUBSET (P \cap stream), L \in SUBSET Ids :
         /\ L \subseteq D \cap Invalid
         /\ Settle(P, D, L, owner)
         /\ \E step \in Scans : Collect(e, D, step)
         /\ stale' = stale \ (P \cap stream)
  BY <1>1
<1>3. PICK step \in Scans : Collect(e, D, step)
  BY <1>2
<1>4. UNCHANGED <<name, published, stream, last, batch, page>>
  BY DEF ReadOwn
<1>5. D \in SUBSET P /\ D \in SUBSET Ids /\ D \subseteq 1..last
  BY <1>1 DEF TypeOK
<1>6. /\ dead' \subseteq Invalid
      /\ acked' = acked \cup (D \cap Invalid)
      /\ \A i \in Ids : owner'[i] = IF i \in D \cap Invalid THEN Nobody
                                                          ELSE owner[i]
      /\ owner' \in [Ids -> Names \cup {Nobody}]
      /\ faults' \in 0..MaxFaults
  <2>1. PICK pel \in [Ids -> Names \cup {Nobody}] : pel = owner
    BY DEF TypeOK
  <2>2. Settle(P, D, L, pel)
    BY <1>2, <2>1
  <2>3. /\ dead' \subseteq Invalid
        /\ owner' \in [Ids -> Names \cup {Nobody}]
        /\ faults' \in 0..MaxFaults
    BY <1>2, <1>5, <2>2, SettleEffect
  <2> QED
    BY <1>2, <2>3 DEF Settle
<1>7. /\ got' \in [Engines -> SUBSET (1..last)]
      /\ queue' \in [Engines -> SUBSET (1..last)]
      /\ size' \in [Engines -> 0..Cap]
      /\ scan' \in [Engines -> Scans]
      /\ mode' \in [Engines -> {"down", "starting", "up"}]
      /\ \A f \in Engines : Cardinality(queue'[f]) <= Capacity
  <2>1. 1..last \subseteq 1..last
    OBVIOUS
  <2> QED
    BY <1>3, <1>5, <2>1, CollectEffect
<1>8. Pending' \subseteq Pending
  BY <1>6 DEF Pending, TypeOK
<1>9. stale' \subseteq Pending'
  BY <1>2, <1>5, <1>6 DEF Pending, TypeOK
<1> QED
  BY <1>4, <1>5, <1>6, <1>7, <1>8, <1>9 DEF TypeOK

LEMMA ClaimType ==
    ASSUME TypeOK, NEW e \in Engines, Claim(e)
    PROVE  TypeOK'
<1> DEFINE P == Claimable(e)
<1>1. PICK D \in SUBSET P, L \in SUBSET Ids :
         /\ P \in SUBSET Ids /\ P \subseteq Pending \cap stream
         /\ L \subseteq D \cap Invalid
         /\ Settle(P, D, L, ClaimedPEL(e))
         /\ \E step \in Scans : Collect(e, D, step)
         /\ stale' = stale \ (P \cup (page[e] \ stream))
  BY ClaimEffect
<1>2. PICK step \in Scans : Collect(e, D, step)
  BY <1>1
<1>3. /\ UNCHANGED <<name, published, stream, last, batch>>
      /\ page' = [page EXCEPT ![e] = {}]
  BY DEF Claim
<1>4. D \in SUBSET Ids /\ D \subseteq 1..last
  BY <1>1 DEF TypeOK
<1>5. ClaimedPEL(e) \in [Ids -> Names \cup {Nobody}]
  BY DEF ClaimedPEL, Delivered, TypeOK
<1>6. /\ dead' \subseteq Invalid
      /\ acked' = acked \cup (D \cap Invalid)
      /\ \A i \in Ids : owner'[i] = IF i \in D \cap Invalid THEN Nobody
                                              ELSE ClaimedPEL(e)[i]
      /\ owner' \in [Ids -> Names \cup {Nobody}]
      /\ faults' \in 0..MaxFaults
  <2>1. /\ dead' \subseteq Invalid
        /\ owner' \in [Ids -> Names \cup {Nobody}]
        /\ faults' \in 0..MaxFaults
    BY <1>1, <1>5, SettleEffect
  <2> QED
    BY <1>1, <2>1 DEF Settle
<1>7. /\ got' \in [Engines -> SUBSET (1..last)]
      /\ queue' \in [Engines -> SUBSET (1..last)]
      /\ size' \in [Engines -> 0..Cap]
      /\ scan' \in [Engines -> Scans]
      /\ mode' \in [Engines -> {"down", "starting", "up"}]
      /\ \A f \in Engines : Cardinality(queue'[f]) <= Capacity
  <2>1. 1..last \subseteq 1..last
    OBVIOUS
  <2> QED
    BY <1>2, <1>4, <2>1, CollectEffect
<1>8. Pending' \subseteq Pending
  BY <1>1, <1>6 DEF Pending, ClaimedPEL, Delivered, TypeOK
<1>9. stale' \subseteq Pending'
  BY <1>1, <1>6 DEF Pending, ClaimedPEL, Delivered, TypeOK
<1>10. page' \in [Engines -> SUBSET (1..last)]
  BY <1>3 DEF TypeOK
<1> QED
  BY <1>3, <1>4, <1>6, <1>7, <1>8, <1>9, <1>10 DEF TypeOK

LEMMA ListType ==
    ASSUME TypeOK, NEW e \in Engines, ListPending(e)
    PROVE  TypeOK'
<1>1. PICK step \in Scans : Collect(e, {}, step)
  BY DEF ListPending, Scans
<1>2. /\ UNCHANGED <<name, published, redisVars, batch>>
      /\ page' = [page EXCEPT ![e] = IF scan'[e] = "claim" THEN Page(Pending)
                                                           ELSE {}]
  BY DEF ListPending
<1>3. faults' \in 0..MaxFaults
  BY ConsumerFaultsAssumption DEF ListPending, Fault, TypeOK
<1>4. /\ got' \in [Engines -> SUBSET (1..last)]
      /\ queue' \in [Engines -> SUBSET (1..last)]
      /\ size' \in [Engines -> 0..Cap]
      /\ scan' \in [Engines -> Scans]
      /\ mode' \in [Engines -> {"down", "starting", "up"}]
      /\ \A f \in Engines : Cardinality(queue'[f]) <= Capacity
  <2>1. 1..last \subseteq 1..last /\ {} \in SUBSET Ids /\ {} \subseteq 1..last
    OBVIOUS
  <2> QED
    BY <1>1, <2>1, CollectEffect
<1>5. Page(Pending) \subseteq 1..last
  BY DEF Page, TypeOK
<1>6. page' \in [Engines -> SUBSET (1..last)]
  BY <1>2, <1>5 DEF TypeOK
<1> QED
  BY <1>2, <1>3, <1>4, <1>6 DEF TypeOK, redisVars, Pending

LEMMA RedisType ==
    ASSUME TypeOK, Publish \/ \E i \in Ids : Idle(i)
    PROVE  TypeOK'
<1>1. CASE Publish
  <2>1. /\ published' = published + 1 /\ published < N
        /\ stream' = stream \cup {published + 1}
        /\ UNCHANGED <<name, last, owner, stale, acked, dead, mode, queue,
                       batch, scanVars, faults>>
    BY <1>1 DEF Publish
  <2>2. published' \in 0..N /\ last \in 0..published'
        /\ stream' \subseteq 1..published'
    BY <2>1, EntriesAssumption DEF TypeOK
  <2> QED
    BY <2>1, <2>2 DEF TypeOK, scanVars, Pending
<1>2. ASSUME NEW i \in Ids, Idle(i)
      PROVE  TypeOK'
  <2>1. /\ stale' = stale \cup {i} /\ owner[i] # Nobody
        /\ UNCHANGED <<name, published, stream, last, owner, acked, dead,
                       mode, queue, batch, scanVars, faults>>
    BY <1>2 DEF Idle
  <2> QED
    BY <2>1 DEF TypeOK, scanVars, Pending
<1> QED
  BY <1>1, <1>2

\* What a process starts, stops or hands over within its own memory.
LEMMA MemoryType ==
    ASSUME TypeOK, NEW e \in Engines,
           Boot(e) \/ Reclaim(e) \/ StartBatch(e) \/ Crash(e)
    PROVE  TypeOK'
<1>1. CASE Boot(e)
  BY <1>1 DEF Boot, TypeOK, redisVars, Scans, Pending
<1>2. CASE Reclaim(e)
  BY <1>2 DEF Reclaim, TypeOK, redisVars, Scans, Pending
<1>3. CASE StartBatch(e)
  <2>1. /\ batch' = [batch EXCEPT ![e] = queue[e]]
        /\ queue' = [queue EXCEPT ![e] = {}]
        /\ UNCHANGED <<name, published, redisVars, mode, scanVars, faults>>
    BY <1>3 DEF StartBatch
  <2>2. \A f \in Engines : Cardinality(queue'[f]) <= Capacity
    BY <2>1, FS_EmptySet, AccumulatorAssumption DEF TypeOK
  <2>3. /\ batch' \in [Engines -> SUBSET (1..last)]
        /\ queue' \in [Engines -> SUBSET (1..last)]
    BY <2>1 DEF TypeOK
  <2> QED
    BY <2>1, <2>2, <2>3 DEF TypeOK, redisVars, scanVars, Pending
<1>4. CASE Crash(e)
  <2>1. /\ mode' = [mode EXCEPT ![e] = "down"]
        /\ queue' = [queue EXCEPT ![e] = {}]
        /\ batch' = [batch EXCEPT ![e] = {}]
        /\ scan' = [scan EXCEPT ![e] = "off"]
        /\ page' = [page EXCEPT ![e] = {}]
        /\ got' = [got EXCEPT ![e] = {}]
        /\ size' = [size EXCEPT ![e] = 0]
        /\ UNCHANGED <<name, published, redisVars>>
        /\ faults' = faults + 1 /\ faults < MaxFaults
    BY <1>4 DEF Crash, Fault
  <2>2. faults' \in 0..MaxFaults
    BY <2>1, ConsumerFaultsAssumption DEF TypeOK
  <2>3. \A f \in Engines : Cardinality(queue'[f]) <= Capacity
    BY <2>1, FS_EmptySet, AccumulatorAssumption DEF TypeOK
  <2>4. /\ batch' \in [Engines -> SUBSET (1..last)]
        /\ queue' \in [Engines -> SUBSET (1..last)]
        /\ page' \in [Engines -> SUBSET (1..last)]
        /\ got' \in [Engines -> SUBSET (1..last)]
    BY <2>1 DEF TypeOK
  <2>5. /\ mode' \in [Engines -> {"down", "starting", "up"}]
        /\ scan' \in [Engines -> Scans]
        /\ size' \in [Engines -> 0..Cap]
    BY <2>1, SizesAssumption DEF TypeOK, Scans
  <2> QED
    BY <2>1, <2>2, <2>3, <2>4, <2>5 DEF TypeOK, redisVars, Pending
<1> QED
  BY <1>1, <1>2, <1>3, <1>4

LEMMA EndBatchType ==
    ASSUME TypeOK, NEW e \in Engines, EndBatch(e)
    PROVE  TypeOK'
<1>1. PICK A \in SUBSET batch[e] :
        /\ acked' = acked \cup A
        /\ owner' = [i \in Ids |-> IF i \in A THEN Nobody ELSE owner[i]]
        /\ stale' = stale \ A
        /\ \/ A = batch[e] /\ stream' \in Trimmed(stream \ A)
                           /\ UNCHANGED faults
           \/ A # batch[e] /\ stream' = stream \ A /\ Fault("batch")
  BY DEF EndBatch
<1>2. /\ batch' = [batch EXCEPT ![e] = {}]
      /\ UNCHANGED <<name, published, last, dead, mode, queue, scanVars>>
  BY DEF EndBatch
<1>3. stream' \subseteq stream
  BY <1>1 DEF Trimmed
<1>4. faults' \in 0..MaxFaults
  BY <1>1, ConsumerFaultsAssumption DEF Fault, TypeOK
<1>5. A \subseteq 1..last
  BY <1>1 DEF TypeOK
<1>6. owner' \in [Ids -> Names \cup {Nobody}]
  BY <1>1 DEF TypeOK
<1>7. Pending' = Pending \ A
  BY <1>1 DEF Pending, TypeOK
<1>8. batch' \in [Engines -> SUBSET (1..last)]
  BY <1>2 DEF TypeOK
<1>9. /\ Pending' \subseteq 1..last' /\ stale' \subseteq Pending'
      /\ acked' \subseteq 1..last' /\ stream' \subseteq 1..published'
  BY <1>1, <1>2, <1>3, <1>5, <1>7 DEF TypeOK
<1> QED
  BY <1>2, <1>4, <1>6, <1>8, <1>9 DEF TypeOK, scanVars

LEMMA NextType == TypeOK /\ [Next]_vars => TypeOK'
<1> SUFFICES ASSUME TypeOK, [Next]_vars
             PROVE  TypeOK'
  OBVIOUS
<1>1. CASE Publish \/ \E i \in Ids : Idle(i)
  BY <1>1, RedisType
<1>2. ASSUME NEW e \in Engines,
             Boot(e) \/ Poll(e) \/ Scan(e) \/ Batch(e) \/ Crash(e)
      PROVE  TypeOK'
  <2>1. CASE Boot(e) \/ Reclaim(e) \/ StartBatch(e) \/ Crash(e)
    BY <2>1, MemoryType
  <2>2. CASE Poll(e)
    BY <2>2, PollType
  <2>3. CASE ReadOwn(e)
    BY <2>3, ReadOwnType
  <2>4. CASE ListPending(e)
    BY <2>4, ListType
  <2>5. CASE Claim(e)
    BY <2>5, ClaimType
  <2>6. CASE EndBatch(e)
    BY <2>6, EndBatchType
  <2> QED
    BY <1>2, <2>1, <2>2, <2>3, <2>4, <2>5, <2>6 DEF Scan, Batch
<1>3. CASE UNCHANGED vars
  BY <1>3 DEF TypeOK, vars, redisVars, scanVars, Pending
<1> QED
  BY <1>1, <1>2, <1>3 DEF Next

\* The state keeps its types, no accumulator outgrows maxCapacity and nothing
\* but what the group delivered is pending, ACKed or in a memory: for any
\* number of processes, entries and failures.
THEOREM ConsumerTypeCorrect == Spec => []TypeOK
<1> QED
  BY InitType, NextType, PTL DEF Spec

-----------------------------------------------------------------------------
(* Invalid entries.  They never get into a memory, so a batch ACKs none;   *)
(* and each one that is ACKed without a dead letter has cost a failure.    *)

Memory(e) == queue[e] \cup batch[e] \cup got[e]

OnlyMatches == \A e \in Engines : Memory(e) \cap Invalid = {}

LEMMA SettleKeepsPoison ==
    ASSUME TypeOK, PoisonIsKept, NEW P \in SUBSET Ids, NEW D \in SUBSET P,
           NEW L, L \subseteq D \cap Invalid,
           NEW pel \in [Ids -> Names \cup {Nobody}], Settle(P, D, L, pel)
    PROVE  PoisonIsKept'
<1> DEFINE A == (acked \cap Invalid) \ dead
           B == (D \cap Invalid) \ L
           C == (acked' \cap Invalid) \ dead'
<1>1. A \in SUBSET Ids /\ B \in SUBSET Ids
  BY EntriesAssumption DEF TypeOK, Ids
<1>2. /\ IsFiniteSet(A) /\ IsFiniteSet(B) /\ IsFiniteSet(A \cup B)
      /\ Cardinality(A) \in Nat /\ Cardinality(B) \in Nat
      /\ Cardinality(A \cap B) \in Nat
  <2>1. A \cup B \in SUBSET Ids /\ A \cap B \in SUBSET Ids
    BY <1>1
  <2> HIDE DEF A, B
  <2> QED
    BY <1>1, <2>1, IdsFinite
<1>3. C \subseteq A \cup B
  BY DEF Settle
<1>4. Cardinality(A) <= faults
  BY DEF PoisonIsKept
<1>5. faults' >= faults + Cardinality(B) /\ faults' \in 0..MaxFaults
  BY SettleEffect
<1>6. faults \in Int /\ faults' \in Int
  BY <1>5, ConsumerFaultsAssumption DEF TypeOK
<1> HIDE DEF A, B, C
<1>7. Cardinality(A \cup B) =
        Cardinality(A) + Cardinality(B) - Cardinality(A \cap B)
  BY <1>2, FS_Union
<1>8. Cardinality(C) \in Nat /\ Cardinality(C) <= Cardinality(A \cup B)
  BY <1>2, <1>3, FS_Subset, FS_CardinalityType
<1>9. Cardinality(A \cup B) \in Nat
  BY <1>2, FS_CardinalityType
<1>10. Cardinality(C) <= faults'
  BY <1>2, <1>4, <1>5, <1>6, <1>7, <1>8, <1>9
<1> QED
  BY <1>10 DEF C, PoisonIsKept

\* The memories after a step with Collect.
LEMMA CollectMemory ==
    ASSUME TypeOK, NEW e \in Engines, NEW D \in SUBSET Ids, D \subseteq 1..last,
           NEW step \in Scans, Collect(e, D, step), UNCHANGED batch
    PROVE  \A f \in Engines : Memory(f)' \subseteq Memory(f) \cup Valid(D)
<1>1. 1..last \subseteq 1..last
  OBVIOUS
<1>2. \A f \in Engines :
        queue'[f] \cup got'[f] \subseteq queue[f] \cup got[f] \cup Valid(D)
  BY <1>1, CollectEffect
<1> QED
  BY <1>2 DEF Memory

LEMMA InitPoison == Init => OnlyMatches /\ PoisonIsKept
<1> SUFFICES ASSUME Init
             PROVE  OnlyMatches /\ PoisonIsKept
  OBVIOUS
<1>1. (acked \cap Invalid) \ dead = {} /\ faults = 0
  BY DEF Init
<1>2. PoisonIsKept
  BY <1>1, FS_EmptySet DEF PoisonIsKept
<1> QED
  BY <1>2 DEF Init, OnlyMatches, Memory

LEMMA PoisonInvariance ==
    TypeOK /\ OnlyMatches /\ PoisonIsKept /\ [Next]_vars =>
        OnlyMatches' /\ PoisonIsKept'
<1> SUFFICES ASSUME TypeOK, OnlyMatches, PoisonIsKept, [Next]_vars
             PROVE  OnlyMatches' /\ PoisonIsKept'
  OBVIOUS
<1>1. ASSUME UNCHANGED <<acked, dead>>, faults' \in Int, faults' >= faults
      PROVE  PoisonIsKept'
  <2>1. (acked \cap Invalid) \ dead \in SUBSET Ids
    BY EntriesAssumption
  <2>2. Cardinality((acked \cap Invalid) \ dead) \in Nat
    BY <2>1, IdsFinite
  <2>3. faults \in Int
    BY DEF TypeOK
  <2>4. Cardinality((acked \cap Invalid) \ dead) <= faults
    BY DEF PoisonIsKept
  <2>5. Cardinality((acked \cap Invalid) \ dead) <= faults'
    BY <1>1, <2>2, <2>3, <2>4
  <2> QED
    BY <1>1, <2>5 DEF PoisonIsKept
<1>2. ASSUME NEW D, \A f \in Engines : Memory(f)' \subseteq Memory(f) \cup Valid(D)
      PROVE  OnlyMatches'
  BY <1>2 DEF OnlyMatches, Valid
<1>3. CASE Publish \/ (\E i \in Ids : Idle(i)) \/ UNCHANGED vars
  <2>1. UNCHANGED <<acked, dead, queue, batch, got, faults>>
    BY <1>3 DEF Publish, Idle, vars, redisVars, scanVars
  <2>2. faults' \in Int /\ faults' >= faults
    BY <2>1 DEF TypeOK
  <2> QED
    BY <1>1, <2>1, <2>2 DEF OnlyMatches, Memory
<1>4. ASSUME NEW e \in Engines, Boot(e) \/ Reclaim(e)
      PROVE  OnlyMatches' /\ PoisonIsKept'
  <2>1. UNCHANGED <<acked, dead, queue, batch, got, faults>>
    BY <1>4 DEF Boot, Reclaim, redisVars
  <2>2. faults' \in Int /\ faults' >= faults
    BY <2>1 DEF TypeOK
  <2> QED
    BY <1>1, <2>1, <2>2 DEF OnlyMatches, Memory
<1>5. ASSUME NEW e \in Engines, StartBatch(e) \/ Crash(e)
      PROVE  OnlyMatches' /\ PoisonIsKept'
  <2>1. UNCHANGED <<acked, dead>>
    BY <1>5 DEF StartBatch, Crash, redisVars
  <2>2. faults' \in Int /\ faults' >= faults
    BY <1>5, ConsumerFaultsAssumption DEF StartBatch, Crash, Fault, TypeOK
  <2>3. \A f \in Engines : Memory(f)' \subseteq Memory(f)
    BY <1>5 DEF StartBatch, Crash, Memory, TypeOK, scanVars
  <2> QED
    BY <1>1, <2>1, <2>2, <2>3 DEF OnlyMatches
<1>6. ASSUME NEW e \in Engines, Poll(e)
      PROVE  OnlyMatches' /\ PoisonIsKept'
  <2>1. PICK P \in SUBSET Ids : \E D \in SUBSET P, L \in SUBSET Ids :
           /\ L \subseteq D \cap Invalid
           /\ Settle(P, D, L, Delivered(e, P))
           /\ \E Q \in Added(queue[e], Valid(P)) \cup {queue[e]} :
                 queue' = [queue EXCEPT ![e] = Q]
    BY <1>6, PollEffect
  <2>2. PICK D \in SUBSET P, L \in SUBSET Ids :
           L \subseteq D \cap Invalid /\ Settle(P, D, L, Delivered(e, P))
    BY <2>1
  <2>3. PICK Q \in Added(queue[e], Valid(P)) \cup {queue[e]} :
           queue' = [queue EXCEPT ![e] = Q]
    BY <2>1
  <2>4. Q \subseteq queue[e] \cup Valid(P)
    BY <2>3, AddedOf
  <2>5. UNCHANGED <<batch, got>>
    BY <1>6 DEF Poll, scanVars
  <2>6. \A f \in Engines : Memory(f)' \subseteq Memory(f) \cup Valid(P)
    BY <2>3, <2>4, <2>5 DEF Memory, TypeOK
  <2>7. Delivered(e, P) \in [Ids -> Names \cup {Nobody}]
    BY DEF Delivered, TypeOK
  <2> QED
    BY <1>2, <2>2, <2>6, <2>7, SettleKeepsPoison
<1>7. ASSUME NEW e \in Engines, ReadOwn(e)
      PROVE  OnlyMatches' /\ PoisonIsKept'
  <2>1. PICK P \in SUBSET Ids : \E D \in SUBSET (P \cap stream), L \in SUBSET Ids :
           /\ P \subseteq Pending
           /\ L \subseteq D \cap Invalid
           /\ Settle(P, D, L, owner)
           /\ \E step \in Scans : Collect(e, D, step)
    BY <1>7, ReadOwnEffect
  <2>2. PICK D \in SUBSET (P \cap stream), L \in SUBSET Ids :
           /\ L \subseteq D \cap Invalid
           /\ Settle(P, D, L, owner)
           /\ \E step \in Scans : Collect(e, D, step)
    BY <2>1
  <2>3. D \in SUBSET P /\ D \in SUBSET Ids /\ D \subseteq 1..last
    BY <2>1 DEF TypeOK
  <2>4. UNCHANGED batch
    BY <1>7 DEF ReadOwn
  <2>5. PoisonIsKept'
    <3>1. PICK pel \in [Ids -> Names \cup {Nobody}] : pel = owner
      BY DEF TypeOK
    <3>2. Settle(P, D, L, pel)
      BY <2>2, <3>1
    <3> QED
      BY <2>2, <2>3, <3>2, SettleKeepsPoison
  <2> QED
    BY <1>2, <2>2, <2>3, <2>4, <2>5, CollectMemory
<1>8. ASSUME NEW e \in Engines, ListPending(e)
      PROVE  OnlyMatches' /\ PoisonIsKept'
  <2>1. UNCHANGED <<acked, dead, batch>>
    BY <1>8 DEF ListPending, redisVars
  <2>2. faults' \in Int /\ faults' >= faults
    BY <1>8, ConsumerFaultsAssumption DEF ListPending, Fault, TypeOK
  <2>3. PICK step \in Scans : Collect(e, {}, step)
    BY <1>8 DEF ListPending, Scans
  <2>4. {} \in SUBSET Ids /\ {} \subseteq 1..last
    OBVIOUS
  <2>5. \A f \in Engines : Memory(f)' \subseteq Memory(f) \cup Valid({})
    BY <2>1, <2>3, <2>4, CollectMemory
  <2> QED
    BY <1>1, <1>2, <2>1, <2>2, <2>5
<1>9. ASSUME NEW e \in Engines, Claim(e)
      PROVE  OnlyMatches' /\ PoisonIsKept'
  <2> DEFINE P == Claimable(e)
  <2>1. PICK D \in SUBSET P, L \in SUBSET Ids :
           /\ P \in SUBSET Ids /\ P \subseteq Pending \cap stream
           /\ L \subseteq D \cap Invalid
           /\ Settle(P, D, L, ClaimedPEL(e))
           /\ \E step \in Scans : Collect(e, D, step)
    BY <1>9, ClaimEffect
  <2>2. ClaimedPEL(e) \in [Ids -> Names \cup {Nobody}]
    BY DEF ClaimedPEL, Delivered, TypeOK
  <2>3. D \in SUBSET Ids /\ D \subseteq 1..last /\ UNCHANGED batch
    BY <1>9, <2>1 DEF TypeOK, Claim
  <2> HIDE DEF P
  <2>4. PoisonIsKept'
    BY <2>1, <2>2, SettleKeepsPoison
  <2> QED
    BY <1>2, <2>1, <2>3, <2>4, CollectMemory
<1>10. ASSUME NEW e \in Engines, EndBatch(e)
       PROVE  OnlyMatches' /\ PoisonIsKept'
  <2>1. PICK A \in SUBSET batch[e] :
          /\ acked' = acked \cup A
          /\ UNCHANGED faults \/ Fault("batch")
    BY <1>10 DEF EndBatch
  <2>2. /\ UNCHANGED <<dead, queue, got>>
        /\ batch' = [batch EXCEPT ![e] = {}]
    BY <1>10 DEF EndBatch, scanVars
  <2>3. acked' \cap Invalid = acked \cap Invalid
    BY <2>1 DEF OnlyMatches, Memory
  <2>4. faults' \in Int /\ faults' >= faults
    BY <2>1, ConsumerFaultsAssumption DEF Fault, TypeOK
  <2>5. Cardinality((acked \cap Invalid) \ dead) \in Nat
    <3>1. (acked \cap Invalid) \ dead \in SUBSET Ids
      BY EntriesAssumption
    <3> QED
      BY <3>1, IdsFinite
  <2>6. Cardinality((acked' \cap Invalid) \ dead') <= faults
    BY <2>2, <2>3 DEF PoisonIsKept
  <2>7. PoisonIsKept'
    BY <2>2, <2>3, <2>4, <2>5, <2>6 DEF PoisonIsKept, TypeOK
  <2>8. \A f \in Engines : Memory(f)' \subseteq Memory(f)
    BY <2>2 DEF Memory, TypeOK
  <2> QED
    BY <2>7, <2>8 DEF OnlyMatches
<1> QED
  BY <1>3, <1>4, <1>5, <1>6, <1>7, <1>8, <1>9, <1>10
     DEF Next, Scan, Batch

\* An invalid entry that is ACKed is in the dead-letter stream, but for as
\* many as there were failures.
THEOREM PoisonStays == Spec => []PoisonIsKept
<1> QED
  BY InitPoison, PoisonInvariance, ConsumerTypeCorrect, PTL DEF Spec

-----------------------------------------------------------------------------
(* Delivery, while the stream does not outgrow MaxLen.                     *)

Covered == Pending \cup acked
Backed == \A e \in Engines : Memory(e) \subseteq Covered
DeliveryInv == NothingLost /\ Backed

\* XTRIM removes nothing from a stream of at most N entries.
LEMMA NothingTrimmed ==
    ASSUME MaxLen >= N, NEW S \in SUBSET Ids, NEW T \in Trimmed(S)
    PROVE  T = S
<1>1. IsFiniteSet(S) /\ T \in SUBSET S
  BY IdsFinite DEF Trimmed
<1>2. Cardinality(S) <= N
  <2>1. IsFiniteSet(Ids) /\ Cardinality(Ids) = N
    BY FS_Interval, EntriesAssumption DEF Ids
  <2> QED
    BY <2>1, FS_Subset
<1>3. /\ Cardinality(T) \in Nat /\ Cardinality(S) \in Nat
      /\ Cardinality(T) <= Cardinality(S)
      /\ Cardinality(S) = Cardinality(T) => S = T
  BY <1>1, FS_Subset, FS_CardinalityType
<1>4. T = S \/ Cardinality(T) >= MaxLen
  BY DEF Trimmed
<1> QED
  BY <1>2, <1>3, <1>4, EntriesAssumption, SizesAssumption

\* A step that keeps what is delivered covered, and adds to the memories only
\* what is, keeps them backed.
LEMMA BackedStep ==
    ASSUME Backed, Covered \subseteq Covered', NEW E, E \subseteq Covered',
           \A f \in Engines : Memory(f)' \subseteq Memory(f) \cup E
    PROVE  Backed'
BY DEF Backed

LEMMA SettleDelivers ==
    ASSUME NEW P, NEW D \in SUBSET P, NEW L, NEW pel, Settle(P, D, L, pel),
           NEW i \in Ids, pel[i] # Nobody
    PROVE  owner'[i] # Nobody \/ i \in acked'
BY DEF Settle

LEMMA PollDelivers ==
    ASSUME TypeOK, DeliveryInv, NEW e \in Engines, Poll(e)
    PROVE  DeliveryInv'
<1>1. PICK P \in SUBSET Ids : \E D \in SUBSET P, L \in SUBSET Ids :
         /\ P = Page({i \in stream : i > last})
         /\ last' \in P /\ \A i \in P : i <= last'
         /\ L \subseteq D \cap Invalid
         /\ Settle(P, D, L, Delivered(e, P))
         /\ \E Q \in Added(queue[e], Valid(P)) \cup {queue[e]} :
               queue' = [queue EXCEPT ![e] = Q]
  BY PollEffect
<1>2. PICK D \in SUBSET P, L \in SUBSET Ids : Settle(P, D, L, Delivered(e, P))
  BY <1>1
<1>3. PICK Q \in Added(queue[e], Valid(P)) \cup {queue[e]} :
         queue' = [queue EXCEPT ![e] = Q]
  BY <1>1
<1>4. UNCHANGED <<published, stream, batch, got>>
  BY DEF Poll, scanVars
<1>5. \A i \in Ids : owner[i] # Nobody \/ i \in P =>
                        Delivered(e, P)[i] # Nobody
  BY EnginesAssumption DEF Delivered, TypeOK
<1>6. \A i \in Ids : owner[i] # Nobody \/ i \in P =>
                        owner'[i] # Nobody \/ i \in acked'
  BY <1>2, <1>5, SettleDelivers
<1>7. acked \subseteq acked'
  BY <1>2 DEF Settle
<1>8. NothingLost'
  <2> SUFFICES ASSUME NEW i \in 1..published, i \notin acked'
               PROVE  i \in stream /\ (i > last' \/ owner'[i] # Nobody)
    BY <1>4 DEF NothingLost
  <2>1. i \in stream /\ (i > last \/ owner[i] # Nobody)
    BY <1>7 DEF DeliveryInv, NothingLost
  <2>2. i \in Ids /\ i \in Int /\ last' \in Int /\ stream \subseteq Ids
    BY <1>1, EntriesAssumption DEF TypeOK, Ids
  <2>3. CASE owner[i] # Nobody
    BY <1>6, <2>1, <2>2, <2>3
  <2>4. CASE i > last /\ i <= last'
    <3> DEFINE S == {j \in stream : j > last}
    <3>1. S \in SUBSET Ids /\ i \in S /\ last' \in Page(S)
      BY <1>1, <2>1, <2>2, <2>4
    <3> HIDE DEF S
    <3>2. i \in Page(S)
      BY <2>4, <3>1, PageIsPrefix
    <3> QED
      BY <1>1, <1>6, <2>1, <2>2, <3>2 DEF S
  <2> QED
    BY <2>1, <2>2, <2>3, <2>4
<1>9. Covered \subseteq Covered' /\ Valid(P) \subseteq Covered'
  BY <1>6, <1>7 DEF Covered, Pending, Valid
<1>10. Q \subseteq queue[e] \cup Valid(P)
  BY <1>3, AddedOf
<1>11. \A f \in Engines : Memory(f)' \subseteq Memory(f) \cup Valid(P)
  BY <1>3, <1>4, <1>10 DEF Memory, TypeOK
<1>12. Backed'
  BY <1>9, <1>11, BackedStep DEF DeliveryInv
<1> QED
  BY <1>8, <1>12 DEF DeliveryInv

LEMMA ReadOwnDelivers ==
    ASSUME TypeOK, DeliveryInv, NEW e \in Engines, ReadOwn(e)
    PROVE  DeliveryInv'
<1>1. PICK P \in SUBSET Ids : \E D \in SUBSET (P \cap stream), L \in SUBSET Ids :
         /\ P \subseteq Pending
         /\ Settle(P, D, L, owner)
         /\ \E step \in Scans : Collect(e, D, step)
  BY ReadOwnEffect
<1>2. PICK D \in SUBSET (P \cap stream), L \in SUBSET Ids :
         /\ Settle(P, D, L, owner)
         /\ \E step \in Scans : Collect(e, D, step)
  BY <1>1
<1>3. UNCHANGED <<published, stream, last, batch>>
  BY DEF ReadOwn
<1>4. D \in SUBSET P /\ D \in SUBSET Ids /\ D \subseteq 1..last
  BY <1>1 DEF TypeOK
<1>5. acked \subseteq acked'
  BY <1>2 DEF Settle
<1>6. \A i \in Ids : owner[i] # Nobody => owner'[i] # Nobody \/ i \in acked'
  BY <1>2, <1>4 DEF Settle
<1>7. NothingLost'
  <2>1. 1..published \subseteq Ids
    BY EntriesAssumption DEF TypeOK, Ids
  <2> QED
    BY <1>3, <1>5, <1>6, <2>1 DEF DeliveryInv, NothingLost
<1>8. Covered \subseteq Covered' /\ Valid(D) \subseteq Covered'
  BY <1>1, <1>4, <1>5, <1>6 DEF Covered, Pending, Valid
<1>9. \A f \in Engines : Memory(f)' \subseteq Memory(f) \cup Valid(D)
  BY <1>2, <1>3, <1>4, CollectMemory
<1>10. Backed'
  BY <1>8, <1>9, BackedStep DEF DeliveryInv
<1> QED
  BY <1>7, <1>10 DEF DeliveryInv

\* What XCLAIM forgets was ACKed before it left the stream.
LEMMA ClaimDelivers ==
    ASSUME TypeOK, DeliveryInv, NEW e \in Engines, Claim(e)
    PROVE  DeliveryInv'
<1> DEFINE P == Claimable(e)
<1>1. PICK D \in SUBSET P, L \in SUBSET Ids :
         /\ P \in SUBSET Ids /\ P \subseteq Pending \cap stream
         /\ Settle(P, D, L, ClaimedPEL(e))
         /\ \E step \in Scans : Collect(e, D, step)
  BY ClaimEffect
<1>2. UNCHANGED <<published, stream, last, batch>>
  BY DEF Claim
<1>3. D \in SUBSET Ids /\ D \subseteq 1..last
  BY <1>1 DEF TypeOK
<1>4. acked \subseteq acked'
  BY <1>1 DEF Settle
<1>5. ASSUME NEW i \in Ids, owner[i] # Nobody
      PROVE  owner'[i] # Nobody \/ i \in acked'
  <2>1. CASE i \in page[e] \ stream
    <3>1. i \in 1..published
      BY <1>5, EntriesAssumption DEF TypeOK, Pending
    <3> QED
      BY <1>4, <2>1, <3>1 DEF DeliveryInv, NothingLost
  <2>2. CASE i \notin page[e] \ stream
    <3>1. ClaimedPEL(e)[i] # Nobody
      BY <1>5, <2>2, EnginesAssumption DEF ClaimedPEL, Delivered, TypeOK
    <3> QED
      BY <1>1, <3>1, SettleDelivers
  <2> QED
    BY <2>1, <2>2
<1>6. NothingLost'
  <2>1. 1..published \subseteq Ids
    BY EntriesAssumption DEF TypeOK, Ids
  <2> QED
    BY <1>2, <1>4, <1>5, <2>1 DEF DeliveryInv, NothingLost
<1>7. Covered \subseteq Covered' /\ Valid(D) \subseteq Covered'
  BY <1>1, <1>3, <1>4, <1>5 DEF Covered, Pending, Valid
<1>8. \A f \in Engines : Memory(f)' \subseteq Memory(f) \cup Valid(D)
  BY <1>1, <1>2, <1>3, CollectMemory
<1>9. Backed'
  BY <1>7, <1>8, BackedStep DEF DeliveryInv
<1> QED
  BY <1>6, <1>9 DEF DeliveryInv

LEMMA EndBatchDelivers ==
    ASSUME MaxLen >= N, TypeOK, DeliveryInv, NEW e \in Engines, EndBatch(e)
    PROVE  DeliveryInv'
<1>1. PICK A \in SUBSET batch[e] :
        /\ acked' = acked \cup A
        /\ owner' = [i \in Ids |-> IF i \in A THEN Nobody ELSE owner[i]]
        /\ stream' \in Trimmed(stream \ A) \/ stream' = stream \ A
  BY DEF EndBatch
<1>2. /\ batch' = [batch EXCEPT ![e] = {}]
      /\ UNCHANGED <<published, last, queue, got>>
  BY DEF EndBatch, scanVars
<1>3. stream' = stream \ A
  <2>1. stream \ A \in SUBSET Ids
    BY EntriesAssumption DEF TypeOK, Ids
  <2> QED
    BY <1>1, <2>1, NothingTrimmed
<1>4. NothingLost'
  <2>1. 1..published \subseteq Ids
    BY EntriesAssumption DEF TypeOK, Ids
  <2> QED
    BY <1>1, <1>2, <1>3, <2>1 DEF DeliveryInv, NothingLost
<1>5. Covered \subseteq Covered'
  BY <1>1 DEF Covered, Pending
<1>6. \A f \in Engines : Memory(f)' \subseteq Memory(f) \cup {}
  BY <1>2 DEF Memory, TypeOK
<1>7. Backed'
  BY <1>5, <1>6, BackedStep DEF DeliveryInv
<1> QED
  BY <1>4, <1>7 DEF DeliveryInv

\* The steps that leave the group's state alone, and the two of Redis.
LEMMA QuietDelivers ==
    ASSUME TypeOK, DeliveryInv,
           \/ Publish \/ (\E i \in Ids : Idle(i)) \/ UNCHANGED vars
           \/ \E e \in Engines : \/ Boot(e) \/ Reclaim(e) \/ ListPending(e)
                                 \/ StartBatch(e) \/ Crash(e)
    PROVE  DeliveryInv'
<1>1. UNCHANGED <<last, owner, acked>>
  BY DEF Publish, Idle, Boot, Reclaim, ListPending, StartBatch, Crash, vars,
         redisVars
<1>2. \/ UNCHANGED <<published, stream>>
      \/ published' = published + 1 /\ stream' = stream \cup {published + 1}
  BY DEF Publish, Idle, Boot, Reclaim, ListPending, StartBatch, Crash, vars,
         redisVars
<1>3. NothingLost'
  <2>1. published \in Nat /\ last \in Nat /\ last <= published
    BY EntriesAssumption DEF TypeOK
  <2> SUFFICES ASSUME NEW i \in 1..published', i \notin acked
               PROVE  i \in stream' /\ (i > last \/ owner[i] # Nobody)
    BY <1>1 DEF NothingLost
  <2>2. CASE i \in 1..published
    BY <1>2, <2>2 DEF DeliveryInv, NothingLost
  <2>3. CASE i \notin 1..published
    BY <1>2, <2>1, <2>3
  <2> QED
    BY <2>2, <2>3
<1>4. Covered' = Covered
  BY <1>1 DEF Covered, Pending
<1>5. \A f \in Engines : Memory(f)' \subseteq Memory(f) \cup {}
  <2>1. CASE \/ Publish \/ (\E i \in Ids : Idle(i)) \/ UNCHANGED vars
             \/ \E e \in Engines : Boot(e) \/ Reclaim(e)
    BY <2>1 DEF Publish, Idle, Boot, Reclaim, vars, scanVars, Memory
  <2>2. ASSUME NEW e \in Engines, ListPending(e)
        PROVE  \A f \in Engines : Memory(f)' \subseteq Memory(f) \cup {}
    <3>1. PICK step \in Scans : Collect(e, {}, step)
      BY <2>2 DEF ListPending, Scans
    <3>2. UNCHANGED batch /\ {} \in SUBSET Ids /\ {} \subseteq 1..last
      BY <2>2 DEF ListPending
    <3>3. \A f \in Engines : Memory(f)' \subseteq Memory(f) \cup Valid({})
      BY <3>1, <3>2, CollectMemory
    <3> QED
      BY <3>3 DEF Valid
  <2>3. ASSUME NEW e \in Engines, StartBatch(e) \/ Crash(e)
        PROVE  \A f \in Engines : Memory(f)' \subseteq Memory(f) \cup {}
    BY <2>3 DEF StartBatch, Crash, Memory, TypeOK, scanVars
  <2> QED
    BY <2>1, <2>2, <2>3
<1>6. Backed'
  BY <1>4, <1>5, BackedStep DEF DeliveryInv
<1> QED
  BY <1>3, <1>6 DEF DeliveryInv

LEMMA DeliveryInvariance ==
    ASSUME MaxLen >= N
    PROVE  /\ Init => DeliveryInv
           /\ TypeOK /\ DeliveryInv /\ [Next]_vars => DeliveryInv'
<1>1. ASSUME Init
      PROVE  DeliveryInv
  <2>1. NothingLost
    BY <1>1, EntriesAssumption DEF Init, NothingLost
  <2>2. Backed
    BY <1>1 DEF Init, Backed, Memory
  <2> QED
    BY <2>1, <2>2 DEF DeliveryInv
<1>2. ASSUME TypeOK, DeliveryInv, [Next]_vars
      PROVE  DeliveryInv'
  <2>1. CASE \/ Publish \/ (\E i \in Ids : Idle(i)) \/ UNCHANGED vars
             \/ \E e \in Engines : \/ Boot(e) \/ Reclaim(e) \/ ListPending(e)
                                   \/ StartBatch(e) \/ Crash(e)
    BY <1>2, <2>1, QuietDelivers
  <2>2. ASSUME NEW e \in Engines, Poll(e)
        PROVE  DeliveryInv'
    BY <1>2, <2>2, PollDelivers
  <2>3. ASSUME NEW e \in Engines, ReadOwn(e)
        PROVE  DeliveryInv'
    BY <1>2, <2>3, ReadOwnDelivers
  <2>4. ASSUME NEW e \in Engines, Claim(e)
        PROVE  DeliveryInv'
    BY <1>2, <2>4, ClaimDelivers
  <2>5. ASSUME NEW e \in Engines, EndBatch(e)
        PROVE  DeliveryInv'
    BY <1>2, <2>5, EndBatchDelivers
  <2> QED
    BY <1>2, <2>1, <2>2, <2>3, <2>4, <2>5 DEF Next, Scan, Batch
<1> QED
  BY <1>1, <1>2

\* At-least-once delivery: while the stream does not outgrow MaxLen, an entry
\* that nobody ACKed is in the stream, unread or pending, whatever crashed.
THEOREM NothingIsLost == MaxLen >= N => (Spec => []NothingLost)
<1> SUFFICES ASSUME MaxLen >= N
             PROVE  Spec => []NothingLost
  OBVIOUS
<1>1. Init => DeliveryInv
  BY DeliveryInvariance
<1>2. TypeOK /\ DeliveryInv /\ [Next]_vars => DeliveryInv'
  BY DeliveryInvariance
<1>3. DeliveryInv => NothingLost
  BY DEF DeliveryInv
<1> QED
  BY <1>1, <1>2, <1>3, ConsumerTypeCorrect, PTL DEF Spec

\* While the stream does not outgrow MaxLen, a process that dies takes nothing
\* with it that is not pending or done, and handles only what the schema let
\* through.
THEOREM MemoryStaysBacked == MaxLen >= N => (Spec => []MemoryIsBacked)
<1> SUFFICES ASSUME MaxLen >= N
             PROVE  Spec => []MemoryIsBacked
  OBVIOUS
<1>1. Init => DeliveryInv
  BY DeliveryInvariance
<1>2. TypeOK /\ DeliveryInv /\ [Next]_vars => DeliveryInv'
  BY DeliveryInvariance
<1>3. Init => OnlyMatches /\ PoisonIsKept
  BY InitPoison
<1>4. DeliveryInv /\ OnlyMatches => MemoryIsBacked
  BY DEF DeliveryInv, Backed, OnlyMatches, Memory, Covered, MemoryIsBacked
<1> QED
  BY <1>1, <1>2, <1>3, <1>4, PoisonInvariance, ConsumerTypeCorrect, PTL
     DEF Spec
-----------------------------------------------------------------------------
(* The consumer implements EntryDelivery, trimmed or not.                  *)

DeliveryStep == [Delivery!Next]_(Delivery!deliveryVars)

\* What was ACKed has left the pending entries list, for good.
AckedHasLeft == acked \cap Pending = {}

\* Handling a page ACKs only what is invalid, and gives none of it to anyone,
\* if the PEL it leaves had not the ACKed entries.
LEMMA SettleAcksInvalid ==
    ASSUME NEW P, NEW D \in SUBSET P, NEW L, NEW pel, Settle(P, D, L, pel),
           \A i \in acked \cap Ids : pel[i] = Nobody
    PROVE  /\ acked \subseteq acked' /\ acked' \ acked \subseteq Invalid
           /\ AckedHasLeft'
BY DEF Settle, AckedHasLeft, Pending

\* Collect changes the memory of its own process only.
LEMMA CollectIsOwn ==
    ASSUME TypeOK, NEW e \in Engines, NEW D, NEW step, Collect(e, D, step),
           NEW f \in Engines \ {e}
    PROVE  queue'[f] = queue[f] /\ got'[f] = got[f]
<1>1. CASE UNCHANGED queue /\ \E all : got' = [got EXCEPT ![e] = all]
  BY <1>1 DEF TypeOK
<1>2. CASE /\ \E Q : queue' = [queue EXCEPT ![e] = Q]
           /\ \E all : got' = [got EXCEPT ![e] = all]
  BY <1>2 DEF TypeOK
<1> QED BY <1>1, <1>2 DEF Collect

\* The mapped state has its types.
LEMMA DeliveryTypes == TypeOK => Delivery!TypeOK
<1> SUFFICES ASSUME TypeOK PROVE Delivery!TypeOK
  OBVIOUS
<1>1. 1..last \subseteq Ids
  BY EntriesAssumption DEF TypeOK, Ids
<1> QED BY <1>1 DEF TypeOK, Delivery!TypeOK

\* A page read by e is Read, of the valid entries E it may bring.
LEMMA PageIsRead ==
    ASSUME TypeOK', NEW e \in Engines, NEW E \in SUBSET Ids,
           E \cap (acked \cup Invalid) = {},
           queue'[e] \cup got'[e] \subseteq queue[e] \cup got[e] \cup E,
           \A f \in Engines \ {e} : queue'[f] = queue[f] /\ got'[f] = got[f],
           acked \subseteq acked', acked' \ acked \subseteq Invalid,
           UNCHANGED batch
    PROVE  DeliveryStep
<1>1. Delivery!TypeOK'
  BY DeliveryTypes, PTL
<1>2. Delivery!Read(e) /\ Delivery!OnlyOf(e)
  BY DEF Delivery!Read, Delivery!OnlyOf
<1> QED BY <1>1, <1>2 DEF DeliveryStep, Delivery!Next

\* New entries.
LEMMA PollReads ==
    ASSUME TypeOK, TypeOK', AckedHasLeft, NEW e \in Engines, Poll(e)
    PROVE  DeliveryStep /\ AckedHasLeft'
<1>1. PICK P \in SUBSET Ids : \E D \in SUBSET P, L \in SUBSET Ids :
         /\ P = Page({i \in stream : i > last})
         /\ Settle(P, D, L, Delivered(e, P))
         /\ \E Q \in Added(queue[e], Valid(P)) \cup {queue[e]} :
               queue' = [queue EXCEPT ![e] = Q]
  BY PollEffect
<1>2. PICK D \in SUBSET P, L \in SUBSET Ids : Settle(P, D, L, Delivered(e, P))
  BY <1>1
<1>3. PICK Q \in Added(queue[e], Valid(P)) \cup {queue[e]} :
         queue' = [queue EXCEPT ![e] = Q]
  BY <1>1
<1>4. P \cap acked = {}
  <2>1. \A i \in P : i \in Int /\ i > last
    BY <1>1, EntriesAssumption DEF Page, Ids
  <2>2. \A i \in acked : i \in Int /\ i <= last
    BY EntriesAssumption DEF TypeOK
  <2>3. last \in Int
    BY EntriesAssumption DEF TypeOK
  <2> QED BY <2>1, <2>2, <2>3
<1>5. \A i \in acked \cap Ids : Delivered(e, P)[i] = Nobody
  BY <1>4 DEF Delivered, AckedHasLeft, Pending
<1>6. /\ acked \subseteq acked' /\ acked' \ acked \subseteq Invalid
      /\ AckedHasLeft'
  BY <1>2, <1>5, SettleAcksInvalid
<1>7. UNCHANGED <<batch, got>>
  BY DEF Poll, scanVars
<1>8. /\ queue'[e] \subseteq queue[e] \cup Valid(P)
      /\ \A f \in Engines \ {e} : queue'[f] = queue[f]
  BY <1>3, AddedOf DEF TypeOK
<1>9. Valid(P) \in SUBSET Ids /\ Valid(P) \cap (acked \cup Invalid) = {}
  BY <1>4 DEF Valid
<1> QED BY <1>6, <1>7, <1>8, <1>9, PageIsRead

\* Pending entries: the own ones, and those claimed.
LEMMA ScanReads ==
    ASSUME TypeOK, TypeOK', AckedHasLeft, NEW e \in Engines,
           ReadOwn(e) \/ Claim(e)
    PROVE  DeliveryStep /\ AckedHasLeft'
<1>1. \E P \in SUBSET Pending, pel \in {owner, ClaimedPEL(e)} :
         \E D \in SUBSET P, L \in SUBSET Ids :
            /\ \A i \in acked \cap Ids : pel[i] = Nobody
            /\ Settle(P, D, L, pel)
            /\ \E step \in Scans : Collect(e, D, step)
  <2>1. CASE ReadOwn(e)
    <3>1. PICK P \in SUBSET Pending : \E D \in SUBSET P, L \in SUBSET Ids :
             /\ Settle(P, D, L, owner)
             /\ \E step \in Scans : Collect(e, D, step)
      BY <2>1, ReadOwnEffect
    <3>2. \A i \in acked \cap Ids : owner[i] = Nobody
      BY DEF AckedHasLeft, Pending
    <3> QED BY <3>1, <3>2
  <2>2. CASE Claim(e)
    <3>1. PICK D \in SUBSET Claimable(e), L \in SUBSET Ids :
             /\ Claimable(e) \in SUBSET Pending
             /\ Settle(Claimable(e), D, L, ClaimedPEL(e))
             /\ \E step \in Scans : Collect(e, D, step)
      BY <2>2, ClaimEffect
    <3>2. \A i \in acked \cap Ids : ClaimedPEL(e)[i] = Nobody
      BY <3>1 DEF AckedHasLeft, Pending, ClaimedPEL, Delivered
    <3> QED BY <3>1, <3>2
  <2> QED BY <2>1, <2>2
<1>2. PICK P \in SUBSET Pending, pel \in {owner, ClaimedPEL(e)} :
         \E D \in SUBSET P, L \in SUBSET Ids :
            /\ \A i \in acked \cap Ids : pel[i] = Nobody
            /\ Settle(P, D, L, pel)
            /\ \E step \in Scans : Collect(e, D, step)
  BY <1>1
<1>3. PICK D \in SUBSET P, L \in SUBSET Ids :
         /\ \A i \in acked \cap Ids : pel[i] = Nobody
         /\ Settle(P, D, L, pel)
         /\ \E step \in Scans : Collect(e, D, step)
  BY <1>2
<1>4. PICK step \in Scans : Collect(e, D, step)
  BY <1>3
<1>5. /\ acked \subseteq acked' /\ acked' \ acked \subseteq Invalid
      /\ AckedHasLeft'
  BY <1>3, SettleAcksInvalid
<1>6. D \in SUBSET Ids /\ D \subseteq 1..last /\ D \cap acked = {}
  BY DEF Pending, TypeOK, AckedHasLeft
<1>7. queue'[e] \cup got'[e] \subseteq queue[e] \cup got[e] \cup Valid(D)
  BY <1>4, <1>6, CollectEffect
<1>8. \A f \in Engines \ {e} : queue'[f] = queue[f] /\ got'[f] = got[f]
  BY <1>4, CollectIsOwn
<1>9. Valid(D) \in SUBSET Ids /\ Valid(D) \cap (acked \cup Invalid) = {}
  BY <1>6 DEF Valid
<1>10. UNCHANGED batch
  BY DEF ReadOwn, Claim
<1> QED BY <1>5, <1>7, <1>8, <1>9, <1>10, PageIsRead

\* The end of a reclaim, after XPENDING: its list goes to the accumulator.
LEMMA ListReads ==
    ASSUME TypeOK, TypeOK', AckedHasLeft, NEW e \in Engines, ListPending(e)
    PROVE  DeliveryStep /\ AckedHasLeft'
<1>1. PICK step \in Scans : Collect(e, {}, step)
  BY DEF ListPending, Scans
<1>2. UNCHANGED <<acked, owner, batch>>
  BY DEF ListPending, redisVars
<1>3. queue'[e] \cup got'[e] \subseteq queue[e] \cup got[e] \cup Valid({})
  <2>1. {} \in SUBSET Ids /\ {} \subseteq 1..last
    OBVIOUS
  <2> QED BY <1>1, <2>1, CollectEffect
<1>4. \A f \in Engines \ {e} : queue'[f] = queue[f] /\ got'[f] = got[f]
  BY <1>1, CollectIsOwn
<1>5. Valid({}) = {}
  BY DEF Valid
<1>6. DeliveryStep
  BY <1>2, <1>3, <1>4, <1>5, PageIsRead
<1> QED BY <1>2, <1>6 DEF AckedHasLeft, Pending

\* The batch, and the death of a process.
LEMMA BatchDelivers ==
    ASSUME TypeOK, TypeOK', AckedHasLeft, NEW e \in Engines,
           StartBatch(e) \/ EndBatch(e) \/ Crash(e)
    PROVE  DeliveryStep /\ AckedHasLeft'
<1>0. Delivery!TypeOK'
  BY DeliveryTypes, PTL
<1>1. CASE StartBatch(e)
  <2>1. /\ batch[e] = {} /\ queue[e] # {}
        /\ batch' = [batch EXCEPT ![e] = queue[e]]
        /\ queue' = [queue EXCEPT ![e] = {}]
        /\ UNCHANGED <<acked, owner, got>>
    BY <1>1 DEF StartBatch, redisVars, scanVars
  <2>2. /\ batch'[e] = queue[e] /\ queue'[e] = {}
        /\ \A f \in Engines \ {e} : batch'[f] = batch[f] /\ queue'[f] = queue[f]
    BY <2>1 DEF TypeOK
  <2>3. Delivery!Start(e) /\ Delivery!OnlyOf(e)
    BY <2>1, <2>2 DEF Delivery!Start, Delivery!OnlyOf
  <2> QED
    BY <1>0, <2>1, <2>3
    DEF DeliveryStep, Delivery!Next, AckedHasLeft, Pending
<1>2. CASE EndBatch(e)
  <2>1. PICK A \in SUBSET batch[e] :
           /\ acked' = acked \cup A
           /\ owner' = [i \in Ids |-> IF i \in A THEN Nobody ELSE owner[i]]
    BY <1>2 DEF EndBatch
  <2>2. batch' = [batch EXCEPT ![e] = {}] /\ UNCHANGED <<queue, got>>
    BY <1>2 DEF EndBatch, scanVars
  <2>3. /\ batch'[e] = {}
        /\ \A f \in Engines \ {e} : batch'[f] = batch[f]
    BY <2>2 DEF TypeOK
  <2>4. Delivery!Ack(e) /\ Delivery!OnlyOf(e)
    BY <2>1, <2>2, <2>3 DEF Delivery!Ack, Delivery!OnlyOf
  <2>5. AckedHasLeft'
    BY <2>1 DEF AckedHasLeft, Pending
  <2> QED
    BY <1>0, <2>4, <2>5 DEF DeliveryStep, Delivery!Next
<1>3. CASE Crash(e)
  <2>1. /\ queue' = [queue EXCEPT ![e] = {}]
        /\ batch' = [batch EXCEPT ![e] = {}]
        /\ got' = [got EXCEPT ![e] = {}]
        /\ UNCHANGED <<acked, owner>>
    BY <1>3 DEF Crash, redisVars
  <2>2. /\ queue'[e] = {} /\ batch'[e] = {} /\ got'[e] = {}
        /\ \A f \in Engines \ {e} : /\ queue'[f] = queue[f]
                                    /\ batch'[f] = batch[f]
                                    /\ got'[f] = got[f]
    BY <2>1 DEF TypeOK
  <2>3. Delivery!Die(e) /\ Delivery!OnlyOf(e)
    BY <2>1, <2>2 DEF Delivery!Die, Delivery!OnlyOf
  <2> QED
    BY <1>0, <2>1, <2>3
    DEF DeliveryStep, Delivery!Next, AckedHasLeft, Pending
<1> QED BY <1>1, <1>2, <1>3

\* Every step of the consumer is a step of the delivery, or none.
LEMMA NextIsDeliveryStep ==
    ASSUME TypeOK, TypeOK', AckedHasLeft, [Next]_vars
    PROVE  DeliveryStep /\ AckedHasLeft'
<1>1. CASE \/ Publish \/ (\E i \in Ids : Idle(i)) \/ UNCHANGED vars
           \/ \E e \in Engines : Boot(e) \/ Reclaim(e)
  <2>1. UNCHANGED <<acked, owner, queue, batch, got>>
    BY <1>1 DEF Publish, Idle, Boot, Reclaim, vars, redisVars, scanVars
  <2> QED
    BY <2>1 DEF DeliveryStep, Delivery!deliveryVars, AckedHasLeft, Pending
<1>2. ASSUME NEW e \in Engines,
             \/ Poll(e) \/ ReadOwn(e) \/ ListPending(e) \/ Claim(e)
             \/ StartBatch(e) \/ EndBatch(e) \/ Crash(e)
      PROVE  DeliveryStep /\ AckedHasLeft'
  BY <1>2, PollReads, ScanReads, ListReads, BatchDelivers
<1> QED
  BY <1>1, <1>2 DEF Next, Scan, Batch

\* Whatever is paged, capped, claimed, dropped or trimmed, a process gets no
\* entry that has been ACKed nor an invalid one, and only a batch ACKs a match.
THEOREM ConsumerImplementsDelivery == Spec => ImplementsDelivery
<1>1. Init => Delivery!Init /\ AckedHasLeft
  BY DEF Init, Delivery!Init, AckedHasLeft
<1>2. TypeOK /\ TypeOK' /\ AckedHasLeft /\ [Next]_vars
        => [Delivery!Next]_(Delivery!deliveryVars) /\ AckedHasLeft'
  BY NextIsDeliveryStep DEF DeliveryStep
<1> QED
  BY <1>1, <1>2, ConsumerTypeCorrect, PTL
     DEF Spec, ImplementsDelivery, Delivery!Spec
=============================================================================
