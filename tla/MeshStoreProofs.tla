-------------------------- MODULE MeshStoreProofs --------------------------
(***************************************************************************)
(* The relay-topology tables, for every set of nodes, batch size,          *)
(* retention and clock, as long as the feed is never silent for the raw    *)
(* retention: a prune drops only rows a compaction folded once, every      *)
(* reception is counted once, and a link answer is neither more nor less   *)
(* than the window.  The assumption is what the code needs: without it the *)
(* ids of a table pruned empty start again below the watermark.  At the    *)
(* end, the telemetry archive.                                             *)
(***************************************************************************)
EXTENDS MeshStore, MeshArchive, FiniteSums

\* The tables' types, as far as the argument needs them.
TableTypes ==
    /\ now \in Nat
    /\ watermark \in Nat
    /\ DOMAIN obs \subseteq Nat \ {0}
    /\ IsFiniteSet(DOMAIN obs)
    /\ \A i \in DOMAIN obs : obs[i] \in [chain : Chains, heard : Nat, rolled : Nat]
    /\ maint.now \in Nat /\ maint.now <= now
    /\ maint = [pc |-> maint.pc, now |-> maint.now, upTo |-> maint.upTo,
                failed |-> maint.failed]

\* Ids grow with the time a row was heard.
IdsInOrder ==
    \A i, j \in DOMAIN obs : i <= j => obs[i].heard <= obs[j].heard

\* The watermark separates the rows folded once from those never folded.
WatermarkSplits ==
    \A i \in DOMAIN obs : obs[i].rolled = IF i <= watermark THEN 1 ELSE 0

\* The row at or above the watermark that keeps its ids from being reused.
WatermarkHeld == watermark = 0 \/ \E i \in DOMAIN obs : watermark <= i

IInv ==
    /\ TableTypes
    /\ IdsInOrder
    /\ WatermarkSplits
    /\ WatermarkHeld
    /\ FeedAlive(now)

-----------------------------------------------------------------------------
\* A chunk takes the pending rows in id order, leaving no gap behind it.
LEMMA ChunkIsPrefix ==
    ASSUME TableTypes,
           NEW i \in Chunk, NEW j \in DOMAIN obs, j > watermark, j <= i
    PROVE  j \in Chunk
<1> DEFINE Below(k) == {l \in Past(watermark) : l < k}
<1>1. Past(watermark) \subseteq DOMAIN obs
    BY DEF Past
<1>2. IsFiniteSet(Below(i))
    BY <1>1, FS_Subset, Below(i) \subseteq DOMAIN obs DEF TableTypes
<1>3. i \in DOMAIN obs /\ i \in Nat /\ j \in Nat
    BY <1>1 DEF Chunk, TableTypes
<1>4. Below(j) \subseteq Below(i)
    <2> SUFFICES ASSUME NEW l \in Past(watermark), l < j
                 PROVE  l < i
        OBVIOUS
    <2>1. l \in Nat
        BY <1>1 DEF TableTypes
    <2> QED BY <2>1, <1>3
<1>5. IsFiniteSet(Below(j)) /\ Cardinality(Below(j)) <= Cardinality(Below(i))
    BY <1>2, <1>4, FS_Subset
<1>6. Cardinality(Below(i)) \in Nat /\ Cardinality(Below(j)) \in Nat
    BY <1>2, <1>5, FS_CardinalityType
<1>7. Cardinality(Below(i)) < MaxCompactBatch
    BY DEF Chunk
<1>8. Cardinality(Below(j)) < MaxCompactBatch
    BY <1>5, <1>6, <1>7, MeshAssumption
<1> QED BY <1>8 DEF Chunk, Past

\* So a chunk is every pending row up to the watermark it leaves.
LEMMA ChunkIsFolded ==
    ASSUME TableTypes, NEW wm \in DOMAIN obs \cup {watermark}, Advanced(Chunk, wm)
    PROVE  /\ Chunk \subseteq DOMAIN obs
           /\ wm \in Nat /\ watermark \in Nat /\ wm >= watermark
           /\ \A i \in DOMAIN obs : i \in Nat /\ (i \in Chunk <=> (i > watermark /\ i <= wm))
<1>1. Chunk \subseteq DOMAIN obs /\ \A i \in Chunk : i > watermark
    BY DEF Chunk, Past
<1>2. wm \in Nat /\ watermark \in Nat /\ wm >= watermark
    BY <1>1 DEF Advanced, TableTypes
<1>3. ASSUME NEW i \in DOMAIN obs
      PROVE  i \in Nat /\ (i \in Chunk <=> (i > watermark /\ i <= wm))
    <2>1. i \in Nat /\ watermark \in Nat
        BY DEF TableTypes
    <2>2. CASE Chunk = {}
        BY <2>1, <2>2 DEF Advanced
    <2>3. CASE Chunk # {}
        <3>1. wm \in Chunk /\ \A j \in Chunk : j <= wm
            BY <2>3 DEF Advanced
        <3>2. ASSUME i > watermark, i <= wm
              PROVE  i \in Chunk
            BY <3>1, <3>2, ChunkIsPrefix
        <3> QED BY <2>1, <3>1, <3>2, <1>1
    <2> QED BY <2>2, <2>3
<1> QED BY <1>1, <1>2, <1>3

\* The empty database satisfies the invariant.
LEMMA InitIInv == Init => IInv
<1> SUFFICES ASSUME Init PROVE IInv
    OBVIOUS
<1>1. DOMAIN obs = {}
    BY DEF Init
<1> QED BY <1>1, FS_EmptySet
        DEF Init, IInv, TableTypes, IdsInOrder, WatermarkSplits, WatermarkHeld,
            FeedAlive, IdleMaint

\* New ids lie above every id in the table and above the watermark.
LEMMA PollIInv ==
    ASSUME IInv, Poll
    PROVE  IInv'
<1>1. PICK batch \in Batches, h \in Times :
          h \in {now - 1, now} /\ RecordMeshTick(batch, h)
    BY DEF Poll
<1>2. PICK id \in DOMAIN obs \cup {0} :
        /\ LastId(id)
        /\ id + Len(batch) <= MaxId
        /\ obs' = [i \in DOMAIN obs \cup (id + 1 .. id + Len(batch)) |->
                      IF i \in DOMAIN obs THEN obs[i]
                      ELSE [chain |-> batch[i - id], heard |-> h, rolled |-> 0]]
    BY <1>1 DEF RecordMeshTick
<1> DEFINE n == Len(batch)
           new == id + 1 .. id + n
<1>3. id \in Nat /\ h \in Nat /\ h <= now
    BY <1>1, <1>2 DEF IInv, TableTypes, Times
<1>4. n \in Nat /\ \A k \in 1..n : batch[k] \in Chains
    BY MeshAssumption DEF Batches
<1>5. /\ DOMAIN obs' = DOMAIN obs \cup new
      /\ \A i \in DOMAIN obs : obs'[i] = obs[i]
      /\ \A i \in new : i \notin DOMAIN obs /\ i > id /\ i \in Nat
      /\ \A i \in new : obs'[i] = [chain |-> batch[i - id], heard |-> h, rolled |-> 0]
    <2>1. \A i \in new : i \notin DOMAIN obs /\ i > id /\ i \in Nat
        BY <1>2, <1>3, <1>4 DEF LastId
    <2> QED BY <2>1, <1>2
<1>13. ASSUME NEW i \in new
      PROVE  /\ obs'[i].heard = h
             /\ obs'[i].rolled = 0
             /\ obs'[i] \in [chain : Chains, heard : Nat, rolled : Nat]
    <2>1. obs'[i] = [chain |-> batch[i - id], heard |-> h, rolled |-> 0]
        BY <1>5
    <2>2. batch[i - id] \in Chains
        BY <1>3, <1>4
    <2> QED BY <2>1, <2>2, <1>3
<1>14. \A i \in DOMAIN obs : obs[i].heard <= h
    BY <1>1, Zenon DEF RecordMeshTick
<1>6. UNCHANGED <<now, watermark, maint>>
    BY <1>1 DEF RecordMeshTick
<1>7. watermark <= id
    BY <1>2, <1>3 DEF IInv, TableTypes, WatermarkHeld, LastId
<1>8. TableTypes'
    <2>1. IsFiniteSet(new)
        BY <1>3, <1>4, FS_Interval
    <2>2. IsFiniteSet(DOMAIN obs')
        <3>1. IsFiniteSet(DOMAIN obs \cup new)
            BY <2>1, FS_Union DEF IInv, TableTypes
        <3> QED BY <3>1, <1>5
    <2>3. \A i \in DOMAIN obs' : obs'[i] \in [chain : Chains, heard : Nat, rolled : Nat]
        <3>1. \A i \in DOMAIN obs :
                  obs[i] \in [chain : Chains, heard : Nat, rolled : Nat]
            BY DEF IInv, TableTypes
        <3> QED BY <3>1, <1>5, <1>13
    <2>4. DOMAIN obs' \subseteq Nat \ {0}
        BY <1>3, <1>5 DEF IInv, TableTypes
    <2> QED BY <2>2, <2>3, <2>4, <1>6 DEF IInv, TableTypes
<1>9. IdsInOrder'
    <2>1. \A i \in DOMAIN obs : obs[i].heard <= h /\ i <= id /\ i \in Nat
        BY <1>14, <1>2 DEF LastId, IInv, TableTypes
    <2>2. ASSUME NEW i \in DOMAIN obs', NEW j \in DOMAIN obs', i <= j
          PROVE  obs'[i].heard <= obs'[j].heard
        <3>1. CASE j \in DOMAIN obs
            <4>1. i \in DOMAIN obs
                BY <3>1, <2>1, <2>2, <1>3, <1>5
            <4> QED BY <4>1, <3>1, <2>2, <1>5 DEF IInv, IdsInOrder
        <3>2. CASE j \in new
            BY <3>2, <2>1, <1>3, <1>5, <1>13
        <3> QED BY <3>1, <3>2, <1>5
    <2> QED BY <2>2 DEF IdsInOrder
<1>10. WatermarkSplits'
    <2>1. \A i \in new : ~(i <= watermark)
        BY <1>3, <1>5, <1>7 DEF IInv, TableTypes
    <2> QED BY <2>1, <1>5, <1>13, <1>6 DEF IInv, WatermarkSplits
<1>11. WatermarkHeld'
    BY <1>5, <1>6 DEF IInv, WatermarkHeld
<1>12. FeedAlive(now)'
    <2>1. CASE new = {}
        BY <2>1, <1>5, <1>6 DEF IInv, FeedAlive
    <2>2. CASE new # {}
        <3>1. PICK i : i \in new
            BY <2>2
        <3>2. h >= now - ObservationRetention
            BY <1>1, MeshAssumption DEF IInv, TableTypes
        <3>3. i \in DOMAIN obs' /\ obs'[i].heard = h
            BY <3>1, <1>5, <1>13
        <3>4. obs'[i].heard >= now' - ObservationRetention
            BY <3>2, <3>3, <1>6
        <3> QED BY <3>3, <3>4 DEF FeedAlive
    <2> QED BY <2>1, <2>2
<1> QED BY <1>8, <1>9, <1>10, <1>11, <1>12 DEF IInv

\* A chunk folds every pending row up to the new watermark, and no other.
LEMMA CompactIInv ==
    ASSUME IInv, CompactChunk
    PROVE  IInv'
<1>1. PICK wm \in DOMAIN obs \cup {watermark} :
          Advanced(Chunk, wm) /\ watermark' = wm
    BY Zenon DEF CompactChunk
<1>2. obs' = [i \in DOMAIN obs |->
                 [obs[i] EXCEPT !.rolled = @ + IF i \in Chunk THEN 1 ELSE 0]]
    BY Zenon DEF CompactChunk
<1>3. now' = now /\ maint' = [maint EXCEPT !.pc = AfterChunk(Chunk)]
    BY Zenon DEF CompactChunk
<1>4. DOMAIN obs' = DOMAIN obs
    BY <1>2
<1>5. ASSUME NEW i \in DOMAIN obs
      PROVE  /\ obs'[i] \in [chain : Chains, heard : Nat, rolled : Nat]
             /\ obs'[i].heard = obs[i].heard
             /\ obs'[i].rolled = obs[i].rolled + IF i \in Chunk THEN 1 ELSE 0
    <2>1. obs[i] \in [chain : Chains, heard : Nat, rolled : Nat]
        BY DEF IInv, TableTypes
    <2> QED BY <2>1, <1>2
<1>7. wm \in Nat /\ wm >= watermark
    BY <1>1, ChunkIsFolded DEF IInv
<1>8. \A i \in DOMAIN obs : i \in Chunk <=> (i > watermark /\ i <= wm)
    BY <1>1, ChunkIsFolded DEF IInv
<1>9. TableTypes'
    <2>1. /\ maint'.now = maint.now
          /\ maint' = [pc |-> maint'.pc, now |-> maint'.now, upTo |-> maint'.upTo,
                       failed |-> maint'.failed]
        BY <1>3 DEF IInv, TableTypes
    <2> QED BY <2>1, <1>1, <1>3, <1>4, <1>5, <1>7 DEF IInv, TableTypes
<1>10. IdsInOrder'
    BY <1>4, <1>5 DEF IInv, IdsInOrder
<1>11. WatermarkSplits'
    <2> SUFFICES ASSUME NEW i \in DOMAIN obs
                 PROVE  obs'[i].rolled = IF i <= wm THEN 1 ELSE 0
        BY <1>1, <1>4 DEF WatermarkSplits
    <2>1. obs[i].rolled = IF i <= watermark THEN 1 ELSE 0
        BY DEF IInv, WatermarkSplits
    <2>2. i \in Nat /\ watermark \in Nat
        BY DEF IInv, TableTypes
    <2> QED BY <2>1, <2>2, <1>5, <1>7, <1>8
<1>12. WatermarkHeld'
    <2>1. CASE wm = watermark
        BY <2>1, <1>1, <1>4 DEF IInv, WatermarkHeld
    <2>2. CASE wm \in DOMAIN obs
        BY <2>2, <1>1, <1>4, <1>7 DEF WatermarkHeld
    <2> QED BY <2>1, <2>2
<1>13. FeedAlive(now)'
    BY <1>3, <1>4, <1>5 DEF IInv, FeedAlive
<1> QED BY <1>9, <1>10, <1>11, <1>12, <1>13 DEF IInv

(***************************************************************************)
(* A prune leaves the newest row: it was heard within the retention, as    *)
(* its id is the largest. So the watermark is still held.                  *)
(***************************************************************************)
LEMMA PruneIInv ==
    ASSUME IInv, PruneMeshObservations
    PROVE  IInv'
<1> DEFINE kept == DOMAIN obs \ Prunable(maint.now - ObservationRetention)
<1>1. obs' = [i \in kept |-> obs[i]] /\ UNCHANGED <<now, watermark>>
    BY DEF PruneMeshObservations
<1>2. DOMAIN obs' = kept /\ kept \subseteq DOMAIN obs
    BY <1>1
<1>3. \A i \in kept : obs'[i] = obs[i]
    BY <1>1
<1>4. maint' = [maint EXCEPT !.pc = "pruneRollup"]
    BY DEF PruneMeshObservations
<1>5. ASSUME NEW i \in DOMAIN obs, obs[i].heard >= now - ObservationRetention
      PROVE  i \in kept
    <2>1. obs[i].heard \in Nat
        BY DEF IInv, TableTypes
    <2> QED BY <2>1, <1>5, MeshAssumption DEF Prunable, IInv, TableTypes
<1>6. TableTypes'
    <2>1. IsFiniteSet(kept)
        BY <1>2, FS_Subset DEF IInv, TableTypes
    <2>2. maint'.now = maint.now
          /\ maint' = [pc |-> maint'.pc, now |-> maint'.now, upTo |-> maint'.upTo,
                       failed |-> maint'.failed]
        BY <1>4 DEF IInv, TableTypes
    <2> QED BY <2>1, <2>2, <1>1, <1>2, <1>3 DEF IInv, TableTypes
<1>7. IdsInOrder'
    BY <1>2, <1>3 DEF IInv, IdsInOrder
<1>8. WatermarkSplits'
    BY <1>1, <1>2, <1>3 DEF IInv, WatermarkSplits
<1>9. CASE DOMAIN obs = {}
    <2>1. DOMAIN obs' = {}
        BY <1>9, <1>2
    <2>2. WatermarkHeld'
        BY <2>1, <1>1, <1>9 DEF IInv, WatermarkHeld
    <2>3. FeedAlive(now)'
        BY <2>1 DEF FeedAlive
    <2> QED BY <2>2, <2>3, <1>6, <1>7, <1>8 DEF IInv
<1>10. CASE DOMAIN obs # {}
    <2>1. PICK r \in DOMAIN obs : obs[r].heard >= now - ObservationRetention
        BY <1>10 DEF IInv, FeedAlive
    <2>2. r \in kept
        BY <2>1, <1>5
    <2>3. FeedAlive(now)'
        <3>1. obs'[r].heard >= now' - ObservationRetention
            BY <2>1, <2>2, <1>1, <1>3
        <3> QED BY <3>1, <2>2, <1>2 DEF FeedAlive
    <2>4. WatermarkHeld'
        <3>1. CASE watermark = 0
            BY <3>1, <1>1 DEF WatermarkHeld
        <3>2. CASE watermark # 0
            <4>1. PICK w \in DOMAIN obs : watermark <= w
                BY <3>2 DEF IInv, WatermarkHeld
            <4>2. r \in Nat /\ w \in Nat /\ watermark \in Nat
                BY DEF IInv, TableTypes
            <4>3. CASE w <= r
                BY <4>1, <4>2, <4>3, <2>2, <1>1, <1>2 DEF WatermarkHeld
            <4>4. CASE r <= w
                <5>1. obs[r].heard <= obs[w].heard
                    BY <4>4 DEF IInv, IdsInOrder
                <5>2. obs[r].heard \in Nat /\ obs[w].heard \in Nat /\ now \in Nat
                    BY DEF IInv, TableTypes
                <5>3. w \in kept
                    BY <5>1, <5>2, <2>1, <1>5, MeshAssumption
                <5> QED BY <5>3, <4>1, <1>1, <1>2 DEF WatermarkHeld
            <4> QED BY <4>2, <4>3, <4>4
        <3> QED BY <3>1, <3>2
    <2> QED BY <2>3, <2>4, <1>6, <1>7, <1>8 DEF IInv
<1> QED BY <1>9, <1>10

\* Steps that leave the raw rows, the watermark and the clock alone.
LEMMA FrameIInv ==
    ASSUME IInv, UNCHANGED <<now, obs, watermark>>,
           maint'.now \in {0, now, maint.now},
           maint' = [pc |-> maint'.pc, now |-> maint'.now, upTo |-> maint'.upTo,
                     failed |-> maint'.failed]
    PROVE  IInv'
<1>1. maint'.now \in Nat /\ maint'.now <= now
    BY DEF IInv, TableTypes
<1>2. TableTypes'
    BY <1>1 DEF IInv, TableTypes
<1> QED BY <1>2 DEF IInv, IdsInOrder, WatermarkSplits, WatermarkHeld, FeedAlive

\* Every step of a system whose feed never goes silent keeps the invariant.
LEMMA NextIInv ==
    ASSUME MaySilence = FALSE, IInv, [Next]_vars
    PROVE  IInv'
<1>1. CASE Poll
    BY <1>1, PollIInv
<1>2. CASE MaintStart
    <2>1. PICK id \in DOMAIN obs \cup {0} :
              maint' = [pc |-> "compact", now |-> now, upTo |-> id, failed |-> FALSE]
        BY <1>2 DEF MaintStart
    <2>2. id \in Nat
        BY DEF IInv, TableTypes
    <2>3. UNCHANGED <<now, obs, watermark>>
        BY <1>2 DEF MaintStart
    <2> QED BY <2>1, <2>2, <2>3, FrameIInv
<1>3. CASE CompactChunk
    BY <1>3, CompactIInv
<1>4. CASE CompactFails
    <2>1. /\ maint' = [maint EXCEPT !.pc = "pruneObservations", !.failed = TRUE]
          /\ UNCHANGED <<now, obs, watermark>>
        BY <1>4 DEF CompactFails
    <2>2. /\ maint'.now = maint.now
          /\ maint' = [pc |-> maint'.pc, now |-> maint'.now, upTo |-> maint'.upTo,
                    failed |-> maint'.failed]
        BY <2>1 DEF IInv, TableTypes
    <2> QED BY <2>1, <2>2, FrameIInv
<1>5. CASE PruneMeshObservations
    BY <1>5, PruneIInv
<1>6. CASE PruneObservationsFails
    <2>1. /\ maint' = [maint EXCEPT !.pc = "pruneRollup"]
          /\ UNCHANGED <<now, obs, watermark>>
        BY <1>6 DEF PruneObservationsFails
    <2>2. /\ maint'.now = maint.now
          /\ maint' = [pc |-> maint'.pc, now |-> maint'.now, upTo |-> maint'.upTo,
                    failed |-> maint'.failed]
        BY <2>1 DEF IInv, TableTypes
    <2> QED BY <2>1, <2>2, FrameIInv
<1>7. CASE PruneMeshLinkRollup \/ MaintEnds \/ Restart
    <2>1. maint' = IdleMaint /\ UNCHANGED <<now, obs, watermark>>
        BY <1>7, Zenon DEF PruneMeshLinkRollup, MaintEnds, Restart
    <2> QED BY <2>1, FrameIInv DEF IdleMaint
<1>8. CASE LinksStart \/ ReadRollup \/ ReadWatermark \/ ReadTail \/ UNCHANGED vars
    <2>1. UNCHANGED <<now, obs, watermark, maint>>
        BY <1>8, Zenon DEF LinksStart, ReadRollup, ReadWatermark, ReadTail, vars
    <2> QED BY <2>1, FrameIInv DEF IInv, TableTypes
<1>9. CASE Clock
    <2>1. now' = now + 1 /\ FeedAlive(now + 1) /\ UNCHANGED <<obs, watermark, maint>>
        BY <1>9 DEF Clock
    <2>2. TableTypes'
        BY <2>1 DEF IInv, TableTypes
    <2>3. FeedAlive(now)'
        BY <2>1 DEF FeedAlive
    <2> QED BY <2>1, <2>2, <2>3
            DEF IInv, IdsInOrder, WatermarkSplits, WatermarkHeld
<1> QED BY <1>1, <1>2, <1>3, <1>4, <1>5, <1>6, <1>7, <1>8, <1>9 DEF Next

(***************************************************************************)
(* The watermark splits the raw rows into those folded once and those not  *)
(* folded yet, and every id handed out later lies above it.                *)
(***************************************************************************)
THEOREM WatermarkTheorem ==
    ASSUME MaySilence = FALSE
    PROVE  Spec => []IInv
<1>1. Init => IInv
    BY InitIInv
<1>2. IInv /\ [Next]_vars => IInv'
    BY NextIInv
<1> QED BY <1>1, <1>2, PTL DEF Spec

\* A row leaves the table only in a prune, which takes folded rows.
LEMMA DeletedWereRolled ==
    ASSUME IInv, [Next]_vars, NEW i \in DOMAIN obs \ DOMAIN obs'
    PROVE  obs[i].rolled = 1
<1>1. CASE PruneMeshObservations
    <2>1. i \in Prunable(maint.now - ObservationRetention)
        BY <1>1 DEF PruneMeshObservations
    <2> QED BY <2>1 DEF Prunable, IInv, WatermarkSplits
<1>2. CASE Poll
    <2>1. PICK batch \in Batches, h \in Times : RecordMeshTick(batch, h)
        BY <1>2 DEF Poll
    <2>2. \E S : obs' = [k \in DOMAIN obs \cup S |-> obs'[k]]
        <3>1. PICK id \in DOMAIN obs \cup {0} :
                obs' = [k \in DOMAIN obs \cup (id + 1 .. id + Len(batch)) |->
                          IF k \in DOMAIN obs THEN obs[k]
                          ELSE [chain |-> batch[k - id], heard |-> h, rolled |-> 0]]
            BY <2>1, Zenon DEF RecordMeshTick
        <3> QED BY <3>1
    <2> QED BY <2>2
<1>3. CASE CompactChunk
    <2>1. obs' = [k \in DOMAIN obs |->
                     [obs[k] EXCEPT !.rolled = @ + IF k \in Chunk THEN 1 ELSE 0]]
        BY <1>3, Zenon DEF CompactChunk
    <2> QED BY <2>1
<1>4. CASE UNCHANGED obs
    BY <1>4
<1>5. PruneMeshObservations \/ Poll \/ CompactChunk \/ UNCHANGED obs
    BY Zenon DEF Next, vars, MaintStart, CompactFails, PruneObservationsFails,
        PruneMeshLinkRollup, MaintEnds, LinksStart, ReadRollup, ReadWatermark,
        ReadTail, Restart, Clock
<1> QED BY <1>1, <1>2, <1>3, <1>4, <1>5

(***************************************************************************)
(* The watermark gate of PruneMeshObservations: in a system whose feed is  *)
(* never silent for the raw retention, no reception is deleted before it   *)
(* was rolled up, and none was rolled up twice.                            *)
(***************************************************************************)
THEOREM PruneKeepsUnrolledTheorem ==
    ASSUME MaySilence = FALSE
    PROVE  Spec => PruneKeepsUnrolled
<1>1. IInv /\ [Next]_vars => [\A i \in DOMAIN obs \ DOMAIN obs' : obs[i].rolled = 1]_vars
    BY DeletedWereRolled
<1>2. Spec => []IInv
    BY WatermarkTheorem
<1> QED BY <1>1, <1>2, PTL DEF Spec, PruneKeepsUnrolled

-----------------------------------------------------------------------------
(***************************************************************************)
(* Counting.  A link's day in the rollup and its rows past the watermark   *)
(* together are what was received; the sums are those of FiniteSums.       *)
(***************************************************************************)
CountTypes ==
    /\ rollup \in [Links -> [Buckets -> Nat]]
    /\ received \in [Links -> [Times -> Nat]]
    /\ \A i \in DOMAIN obs : obs[i].heard \in Times

Day(b) == {t \in Times : Bucket(t) = b}

Received(e, b) == SumFunctionOnSet(received[e], Day(b))

\* The rows of a day that are not folded yet, and how often they cross a link.
Pending(b) == OfDay(Past(watermark), b)
Left(e, b) == Crossings(Pending(b), e)

\* A day is never counted over, and exactly as long as the rollup is kept.
DayCounted(e, b) ==
    /\ rollup[e][b] + Left(e, b) <= Received(e, b)
    /\ b >= now - RollupRetention => rollup[e][b] + Left(e, b) = Received(e, b)

DaysCounted == \A e \in Links, b \in Buckets : DayCounted(e, b)

\* Of the rows past the watermark no more were heard at a time than were received then.
AtTime(t) == {i \in Past(watermark) : obs[i].heard = t}

TimesCounted == \A e \in Links, t \in Times : Crossings(AtTime(t), e) <= received[e][t]

CountInv == IInv /\ CountTypes /\ DaysCounted /\ TimesCounted

(***************************************************************************)
(* A link read: what it has added up so far and what its last query would  *)
(* still add lie between the receptions of the window that were stored     *)
(* when it began and those of the window's days that are stored now.       *)
(***************************************************************************)
ReaderTypes ==
    reader \in [pc : {"idle", "rollup", "watermark", "tail", "answered"},
                since : Nat, wm : Nat, links : [Links -> Nat],
                before : [Links -> [Times -> Nat]], wmStart : Nat]

ReadFrom == IF reader.pc = "tail" THEN reader.wm ELSE watermark

Rest(e) == IF reader.pc = "answered" THEN 0 ELSE Crossings(TailOf(ReadFrom, reader.since), e)

Bracketed(e) ==
    /\ reader.links[e] + Rest(e) <= Within(received, e, Bucket(reader.since))
    /\ watermark = reader.wmStart /\ Bucket(reader.since) >= now - RollupRetention =>
          Within(reader.before, e, reader.since) <= reader.links[e] + Rest(e)

ReaderInv ==
    /\ ReaderTypes
    /\ reader.pc # "idle" =>
          /\ reader.wmStart <= watermark
          /\ reader.pc = "tail" => reader.wmStart <= reader.wm /\ reader.wm <= watermark
          /\ \A e \in Links, t \in Times : reader.before[e][t] <= received[e][t]
    /\ reader.pc \in {"watermark", "tail", "answered"} => \A e \in Links : Bracketed(e)

AnswerInv == CountInv /\ ReaderInv

-----------------------------------------------------------------------------
LEMMA EachEdgeType == ASSUME NEW chain \in Chains, NEW e PROVE EachEdge(chain, e) \in Nat
<1>1. chain \in Seq(Nodes \cup {Unresolved})  BY MeshAssumption
<1>2. Len(chain) - 1 \in Int  BY <1>1
<1>3. IsFiniteSet(1 .. Len(chain) - 1)  BY <1>2, FS_Interval
<1>4. IsFiniteSet({i \in 1 .. Len(chain) - 1 : {chain[i], chain[i + 1]} = e})  BY <1>3, FS_Subset
<1> QED  BY <1>4, FS_CardinalityType DEF EachEdge

LEMMA BucketDivides ==
    ASSUME NEW s \in Nat
    PROVE  \E a \in Nat, x \in 0 .. DayLength - 1 : s = DayLength * a + x /\ Bucket(s) = DayLength * a
<1>1. DayLength \in Nat \ {0}  BY MeshAssumption
<1>2. s % DayLength \in 0 .. DayLength - 1 /\ s \div DayLength \in Nat /\ s = DayLength * (s \div DayLength) + (s % DayLength)
  BY <1>1
<1>3. PICK a \in Nat, x \in 0 .. DayLength - 1 : x = s % DayLength /\ s = DayLength * a + x  BY <1>2
<1>4. DayLength * a \in Nat  BY <1>1
<1>5. Bucket(s) = DayLength * a  BY <1>1, <1>3, <1>4 DEF Bucket
<1> QED  BY <1>3, <1>5

\* A day begins at or before each of its times, and days follow each other.
LEMMA BucketOrder ==
    ASSUME NEW s \in Nat
    PROVE  Bucket(s) \in Nat /\ Bucket(s) <= s /\ \A t \in Nat : s <= t => Bucket(s) <= Bucket(t)
<1>1. DayLength \in Nat \ {0}  BY MeshAssumption
<1>2. PICK a \in Nat, x \in 0 .. DayLength - 1 : s = DayLength * a + x /\ Bucket(s) = DayLength * a  BY BucketDivides
<1>3. DayLength * a \in Nat  BY <1>1
<1>4. ASSUME NEW t \in Nat, s <= t PROVE Bucket(s) <= Bucket(t)
  <2>1. PICK c \in Nat, y \in 0 .. DayLength - 1 : t = DayLength * c + y /\ Bucket(t) = DayLength * c  BY BucketDivides
  <2>2. DayLength * c \in Nat  BY <1>1
  <2>3. a <= c
    <3> SUFFICES ASSUME a >= c + 1 PROVE FALSE  OBVIOUS
    <3>1. PICK k \in Nat : a = c + 1 + k  OBVIOUS
    <3>2. DayLength * a = DayLength * c + DayLength + DayLength * k /\ DayLength * k \in Nat  BY <1>1, <3>1
    <3> QED  BY <1>1, <1>2, <1>3, <1>4, <2>1, <2>2, <3>2
  <2>4. PICK k \in Nat : c = a + k  BY <2>3
  <2>5. DayLength * c = DayLength * a + DayLength * k /\ DayLength * k \in Nat  BY <1>1, <2>4
  <2> QED  BY <1>2, <1>3, <2>1, <2>2, <2>5
<1> QED  BY <1>2, <1>3, <1>4

LEMMA TimesAreFinite ==
    /\ IsFiniteSet(Times) /\ Times \subseteq Nat
    /\ IsFiniteSet(Buckets) /\ Buckets \subseteq Int
    /\ \A b : IsFiniteSet(Day(b)) /\ Day(b) \subseteq Times
<1>1. IsFiniteSet(Times) /\ Times \subseteq Nat  BY FS_Interval, MeshAssumption DEF Times
<1>2. ASSUME NEW b \in Buckets PROVE b \in Times
  <2>1. PICK t \in Times : b = Bucket(t)  BY DEF Buckets
  <2>2. Bucket(t) \in Nat /\ Bucket(t) <= t /\ t \in Nat /\ t <= MaxTime /\ MaxTime \in Nat
    BY MeshAssumption, BucketOrder DEF Times
  <2> QED  BY <2>1, <2>2 DEF Times
<1>3. IsFiniteSet(Buckets) /\ Buckets \subseteq Int
  <2>1. Buckets \subseteq Times  BY <1>2
  <2>2. IsFiniteSet(Buckets)  BY <1>1, <2>1, FS_Subset
  <2>3. Buckets \subseteq Int  BY <1>1, <2>1
  <2> QED  BY <2>2, <2>3
<1>4. \A b : Day(b) \subseteq Times  BY DEF Day
<1>5. \A b : IsFiniteSet(Day(b))  BY <1>1, <1>4, FS_Subset
<1> QED  BY <1>1, <1>3, <1>4, <1>5

\* The crossings as a sum over the table.
Weight(e) == [i \in DOMAIN obs |-> EachEdge(obs[i].chain, e)]

LEMMA CrossingsIsSum ==
    ASSUME TableTypes, NEW e, NEW S, S \subseteq DOMAIN obs
    PROVE  /\ IsFiniteSet(S) /\ Crossings(S, e) \in Nat
           /\ Crossings(S, e) = SumFunctionOnSet(Weight(e), S)
           /\ \A i \in DOMAIN obs : Weight(e)[i] \in Nat
<1>1. \A i \in DOMAIN obs : obs[i].chain \in Chains  BY DEF TableTypes
<1>2. \A i \in DOMAIN obs : Weight(e)[i] \in Nat  BY <1>1, EachEdgeType DEF Weight
<1>3. IsFiniteSet(S)  BY FS_Subset DEF TableTypes
<1> DEFINE v == [i \in S |-> EachEdge(obs[i].chain, e)]
<1>4. Crossings(S, e) = SumFunctionOnSet(v, S)  BY DEF Crossings, SumFunction
<1>5. \A i \in S : v[i] = Weight(e)[i] /\ Weight(e)[i] \in Nat  BY <1>2 DEF Weight
<1> HIDE DEF v
<1>6. SumFunctionOnSet(v, S) = SumFunctionOnSet(Weight(e), S)  BY <1>3, <1>5, SumSame
<1>7. SumFunctionOnSet(Weight(e), S) \in Nat  BY <1>3, <1>5, SumType
<1> QED  BY <1>2, <1>3, <1>4, <1>6, <1>7

\* Crossings of some rows, and of two sets of rows.
LEMMA CrossingsAdd ==
    ASSUME TableTypes, NEW e, NEW A, NEW B, A \subseteq DOMAIN obs, B \subseteq DOMAIN obs, A \cap B = {}
    PROVE  Crossings(A \cup B, e) = Crossings(A, e) + Crossings(B, e)
<1>1. /\ Crossings(A, e) = SumFunctionOnSet(Weight(e), A) /\ IsFiniteSet(A)
      /\ Crossings(B, e) = SumFunctionOnSet(Weight(e), B) /\ IsFiniteSet(B)
      /\ \A i \in DOMAIN obs : Weight(e)[i] \in Nat
  BY CrossingsIsSum
<1>2. Crossings(A \cup B, e) = SumFunctionOnSet(Weight(e), A \cup B)
  <2>1. PICK S : S = A \cup B  OBVIOUS
  <2>2. S \subseteq DOMAIN obs  BY <2>1
  <2>3. Crossings(S, e) = SumFunctionOnSet(Weight(e), S)  BY <2>2, CrossingsIsSum
  <2> QED  BY <2>1, <2>3
<1>3. \A i \in A \cup B : Weight(e)[i] \in Nat  BY <1>1
<1>4. SumFunctionOnSet(Weight(e), A \cup B) = SumFunctionOnSet(Weight(e), A) + SumFunctionOnSet(Weight(e), B)
  BY <1>1, <1>3, SumUnion
<1> QED  BY <1>1, <1>2, <1>4

LEMMA CrossingsSubset ==
    ASSUME TableTypes, NEW e, NEW A, NEW B, A \subseteq B, B \subseteq DOMAIN obs
    PROVE  Crossings(A, e) <= Crossings(B, e)
<1>1. A \subseteq DOMAIN obs  OBVIOUS
<1>2. /\ Crossings(A, e) = SumFunctionOnSet(Weight(e), A)
      /\ Crossings(B, e) = SumFunctionOnSet(Weight(e), B) /\ IsFiniteSet(B)
      /\ \A i \in DOMAIN obs : Weight(e)[i] \in Nat
  BY <1>1, CrossingsIsSum
<1>3. \A i \in B : Weight(e)[i] \in Nat  BY <1>2
<1> QED  BY <1>2, <1>3, SumSubset

\* The same, of the table after a step.
LEMMA CrossingsAfter ==
    /\ (\A x, S : TableTypes /\ S \subseteq DOMAIN obs => Crossings(S, x) \in Nat)'
    /\ (\A x, S, T : TableTypes /\ S \subseteq DOMAIN obs /\ T \subseteq DOMAIN obs /\ S \cap T = {}
                       => Crossings(S \cup T, x) = Crossings(S, x) + Crossings(T, x))'
<1>1. \A x, S : TableTypes /\ S \subseteq DOMAIN obs => Crossings(S, x) \in Nat  BY CrossingsIsSum
<1>2. \A x, S, T : TableTypes /\ S \subseteq DOMAIN obs /\ T \subseteq DOMAIN obs /\ S \cap T = {}
                     => Crossings(S \cup T, x) = Crossings(S, x) + Crossings(T, x)
  BY CrossingsAdd
<1> QED  BY <1>1, <1>2, PTL

\* Rows that keep their chains cross what they crossed.
LEMMA CrossingsStay ==
    ASSUME NEW e, NEW S, \A i \in S : obs'[i].chain = obs[i].chain
    PROVE  Crossings(S, e)' = Crossings(S, e)
<1>1. Crossings(S, e) = SumFunction([i \in S |-> EachEdge(obs[i].chain, e)])  BY DEF Crossings
<1>2. Crossings(S, e)' = SumFunction([i \in S |-> EachEdge(obs'[i].chain, e)])  BY DEF Crossings, EachEdge
<1>3. [i \in S |-> EachEdge(obs'[i].chain, e)] = [i \in S |-> EachEdge(obs[i].chain, e)]  OBVIOUS
<1> QED  BY <1>1, <1>2, <1>3

LEMMA PendingType ==
    ASSUME TableTypes, NEW b
    PROVE  /\ Pending(b) = {i \in DOMAIN obs : i > watermark /\ Bucket(obs[i].heard) = b}
           /\ Pending(b) \subseteq DOMAIN obs /\ \A e : Left(e, b) \in Nat
<1>1. Pending(b) = {i \in DOMAIN obs : i > watermark /\ Bucket(obs[i].heard) = b}  BY DEF Pending, OfDay, Past
<1>2. Pending(b) \subseteq DOMAIN obs  BY <1>1
<1>3. \A e : Left(e, b) \in Nat  BY <1>2, CrossingsIsSum DEF Left
<1> QED  BY <1>1, <1>2, <1>3

LEMMA PendingAfter ==
    (TableTypes => \A b : /\ Pending(b) = {i \in DOMAIN obs : i > watermark /\ Bucket(obs[i].heard) = b}
                          /\ \A e : Left(e, b) \in Nat)'
<1>1. TableTypes => \A b : /\ Pending(b) = {i \in DOMAIN obs : i > watermark /\ Bucket(obs[i].heard) = b}
                           /\ \A e : Left(e, b) \in Nat
  BY PendingType
<1> QED  BY <1>1, PTL

(***************************************************************************)
(* What a poll does to the counts: its rows are new, above the watermark   *)
(* and heard at h, and they cross link e size[e] times.                    *)
(***************************************************************************)
Polled(h, new, size) ==
    /\ h \in Times
    /\ UNCHANGED <<now, rollup, watermark, reader>>
    /\ DOMAIN obs' = DOMAIN obs \cup new
    /\ \A i \in DOMAIN obs : obs'[i] = obs[i]
    /\ \A i \in new : i \in Nat /\ i \notin DOMAIN obs /\ i > watermark /\ obs'[i].heard = h
    /\ \A e \in Links : size[e] \in Nat
    /\ \A e \in Links : Crossings(new, e)' = size[e]
    /\ received' \in [Links -> [Times -> Nat]]
    /\ \A e \in Links, t \in Times : received'[e][t] = received[e][t] + IF t = h THEN size[e] ELSE 0

LEMMA PollAdds ==
    ASSUME IInv, CountTypes, Poll PROVE \E h, new, size : Polled(h, new, size)
<1>1. PICK batch \in Batches, h \in Times :
          h \in {now - 1, now} /\ RecordMeshTick(batch, h)
  BY DEF Poll
<1>2. PICK id \in DOMAIN obs \cup {0} :
        /\ LastId(id)
        /\ obs' = [i \in DOMAIN obs \cup (id + 1 .. id + Len(batch)) |->
                      IF i \in DOMAIN obs THEN obs[i]
                      ELSE [chain |-> batch[i - id], heard |-> h, rolled |-> 0]]
  BY <1>1 DEF RecordMeshTick
<1>3. /\ UNCHANGED <<now, rollup, watermark, reader>>
      /\ received' = [e \in Links |-> [received[e] EXCEPT ![h] =
                          @ + SumFunction([k \in DOMAIN batch |-> EachEdge(batch[k], e)])]]
  BY <1>1 DEF RecordMeshTick
<1>4. TableTypes  BY DEF IInv
<1> DEFINE n == Len(batch)
           new == id + 1 .. id + n
           size == [e \in Links |-> SumFunction([k \in DOMAIN batch |-> EachEdge(batch[k], e)])]
<1>5. n \in Nat /\ DOMAIN batch = 1 .. n /\ \A k \in 1 .. n : batch[k] \in Chains  BY MeshAssumption DEF Batches
<1>6. id \in Nat /\ watermark \in Nat /\ watermark <= id
  BY <1>2, <1>4 DEF IInv, TableTypes, WatermarkHeld, LastId
<1>7. /\ DOMAIN obs' = DOMAIN obs \cup new
      /\ \A i \in DOMAIN obs : obs'[i] = obs[i]
      /\ \A i \in new : i \in Nat /\ i \notin DOMAIN obs /\ i > watermark
      /\ \A i \in new : obs'[i].chain = batch[i - id] /\ obs'[i].heard = h
  <2>1. \A i \in new : i \in Nat /\ i \notin DOMAIN obs /\ i > watermark
    BY <1>2, <1>5, <1>6 DEF LastId
  <2> QED  BY <2>1, <1>2
\* The batch, summed over its places in the table.
<1>8. ASSUME NEW e \in Links
      PROVE  size[e] \in Nat /\ Crossings(new, e)' = size[e]
  <2> DEFINE f == [k \in DOMAIN batch |-> EachEdge(batch[k], e)]
             g == [i \in new |-> EachEdge(obs'[i].chain, e)]
             T == 1 .. n
  <2>1. size[e] = SumFunctionOnSet(f, T)  BY <1>5 DEF SumFunction
  <2>2. Crossings(new, e)' = SumFunctionOnSet(g, new)  BY DEF Crossings, SumFunction, EachEdge
  <2>3. IsFiniteSet(T) /\ T \subseteq Int  BY <1>5, FS_Interval
  <2>4. \A k \in T : f[k] \in Nat  BY <1>5, EachEdgeType
  <2>5. \A k \in T : k + id \in new /\ (k + id) - id = k  BY <1>5, <1>6
  <2>6. \A k \in T : g[k + id] = f[k]  BY <1>5, <1>7, <2>5
  <2>7. \A i \in new : i - id \in T /\ i \in Int  BY <1>5, <1>6
  <2>8. SumFunctionOnSet(f, T) \in Nat  BY <2>3, <2>4, SumType
  <2> HIDE DEF f, g, T, new, size
  <2>9. Shifts(id, f, T, g, new)
    <3>1. id \in Int /\ new \subseteq Int  BY <1>6, <2>7
    <3>2. \A k \in T : f[k] \in Nat /\ k + id \in new /\ g[k + id] = f[k]  BY <2>4, <2>5, <2>6
    <3>3. \A i \in new : i - id \in T  BY <2>7
    <3> QED  BY <2>3, <3>1, <3>2, <3>3 DEF Shifts
  <2>10. SumFunctionOnSet(g, new) = SumFunctionOnSet(f, T)  BY <2>3, <2>9, SumShift
  <2> QED  BY <2>1, <2>2, <2>8, <2>10
<1>9. \A e \in Links : received'[e] = [received[e] EXCEPT ![h] = received[e][h] + size[e]]  BY <1>3
<1>10. received' = [e \in Links |-> received'[e]]  BY <1>3
<1> HIDE DEF size, new
<1>11. ASSUME NEW e \in Links
       PROVE  /\ received'[e] \in [Times -> Nat]
              /\ \A t \in Times : received'[e][t] = received[e][t] + IF t = h THEN size[e] ELSE 0
  <2>1. received[e] \in [Times -> Nat] /\ size[e] \in Nat  BY <1>8 DEF CountTypes
  <2>2. PICK s \in Nat : s = received[e][h] + size[e]  BY <2>1
  <2>3. received'[e] = [received[e] EXCEPT ![h] = s]  BY <1>9, <2>2
  <2>4. received'[e] \in [Times -> Nat]  BY <2>1, <2>3
  <2>5. \A t \in Times : received'[e][t] = IF t = h THEN s ELSE received[e][t]  BY <2>1, <2>3
  <2>6. \A t \in Times : received[e][t] \in Nat /\ received[e][t] + 0 = received[e][t]  BY <2>1
  <2> QED  BY <2>1, <2>2, <2>4, <2>5, <2>6
<1>12. received' \in [Links -> [Times -> Nat]]  BY <1>10, <1>11
<1>13. Polled(h, new, size)  BY <1>3, <1>7, <1>8, <1>11, <1>12 DEF Polled
<1> QED  BY <1>13

\* Rows that were there and some of a poll's, and a sum of what was received.
LEMMA PollMoves ==
    ASSUME IInv, CountTypes, TableTypes', NEW h, NEW new, NEW size, Polled(h, new, size), NEW e \in Links,
           NEW S, S \subseteq DOMAIN obs
    PROVE  /\ Crossings(S, e)' = Crossings(S, e)
           /\ Crossings(S \cup new, e)' = Crossings(S, e) + size[e]
<1>1. Crossings(S, e)' = Crossings(S, e)
  <2>1. \A i \in S : obs'[i].chain = obs[i].chain  BY DEF Polled
  <2> QED  BY <2>1, CrossingsStay
<1>2. S \subseteq DOMAIN obs' /\ new \subseteq DOMAIN obs' /\ S \cap new = {}  BY DEF Polled
<1>3. Crossings(S \cup new, e)' = Crossings(S, e)' + Crossings(new, e)'  BY <1>2, CrossingsAfter
<1>4. Crossings(new, e)' = size[e]  BY DEF Polled
<1> QED  BY <1>1, <1>3, <1>4

LEMMA PollReceives ==
    ASSUME CountTypes, NEW h, NEW new, NEW size, Polled(h, new, size), NEW e \in Links,
           NEW T, T \subseteq Times
    PROVE  /\ SumFunctionOnSet(received[e], T) \in Nat
           /\ SumFunctionOnSet(received'[e], T)
                = SumFunctionOnSet(received[e], T) + IF h \in T THEN size[e] ELSE 0
<1>1. PICK f, g, n : f = received[e] /\ g = received'[e] /\ n = size[e]  OBVIOUS
<1>2. n \in Nat /\ \A t \in T : f[t] \in Nat /\ g[t] = f[t] + IF t = h THEN n ELSE 0  BY <1>1 DEF Polled, CountTypes
<1>3. IsFiniteSet(T)  BY TimesAreFinite, FS_Subset
<1>4. SumFunctionOnSet(f, T) \in Nat  BY <1>2, <1>3, SumType
<1>5. SumFunctionOnSet(g, T) = SumFunctionOnSet(f, T) + IF h \in T THEN n ELSE 0  BY <1>2, <1>3, SumBump
<1> QED  BY <1>1, <1>4, <1>5

\* A poll adds its receptions to the pending rows of one day and one time.
LEMMA PollCounts ==
    ASSUME CountInv, Poll PROVE CountInv'
<1>1. IInv /\ CountTypes /\ DaysCounted /\ TimesCounted /\ TableTypes  BY DEF CountInv, IInv
<1>2. IInv' /\ TableTypes'  BY <1>1, PollIInv DEF IInv
<1>3. PICK h, new, size : Polled(h, new, size)  BY <1>1, PollAdds
<1>4. CountTypes'
  <2>1. rollup' = rollup /\ received' \in [Links -> [Times -> Nat]]  BY <1>3 DEF Polled
  <2>2. \A i \in DOMAIN obs' : obs'[i].heard \in Times  BY <1>1, <1>3 DEF Polled, CountTypes
  <2> QED  BY <1>1, <2>1, <2>2 DEF CountTypes
<1>5. ASSUME NEW e \in Links, NEW b \in Buckets PROVE DayCounted(e, b)'
  <2>1. DayCounted(e, b)  BY <1>1 DEF DaysCounted
  <2>2. PICK S : S = Pending(b)  OBVIOUS
  <2>3. S \subseteq DOMAIN obs /\ S = {i \in DOMAIN obs : i > watermark /\ Bucket(obs[i].heard) = b}
        /\ Left(e, b) \in Nat /\ rollup[e][b] \in Nat
    BY <1>1, <2>2, PendingType DEF CountTypes
  <2>4. Pending(b)' = {i \in DOMAIN obs' : i > watermark' /\ Bucket(obs'[i].heard) = b}
    BY <1>2, PendingAfter DEF Bucket
  <2>5. Pending(b)' = IF Bucket(h) = b THEN S \cup new ELSE S
    <3>1. CASE Bucket(h) = b  BY <1>3, <2>3, <2>4, <3>1 DEF Polled
    <3>2. CASE Bucket(h) # b  BY <1>3, <2>3, <2>4, <3>2 DEF Polled
    <3> QED  BY <3>1, <3>2
  <2>6. size[e] \in Nat  BY <1>3 DEF Polled
  <2>7. Left(e, b)' = Left(e, b) + IF Bucket(h) = b THEN size[e] ELSE 0
    <3>1. Crossings(S, e)' = Crossings(S, e) /\ Crossings(S \cup new, e)' = Crossings(S, e) + size[e]
      BY <1>1, <1>2, <1>3, <2>3, PollMoves
    <3>2. Left(e, b) = Crossings(S, e)  BY <2>2 DEF Left
    <3>3. CASE Bucket(h) = b
      <4>1. Left(e, b)' = Crossings(S \cup new, e)'  BY <2>5, <3>3 DEF Left, Crossings
      <4> QED  BY <3>1, <3>2, <3>3, <4>1
    <3>4. CASE Bucket(h) # b
      <4>1. Left(e, b)' = Crossings(S, e)'  BY <2>5, <3>4 DEF Left, Crossings
      <4> QED  BY <2>3, <3>1, <3>2, <3>4, <4>1
    <3> QED  BY <3>3, <3>4
  <2>8. /\ Received(e, b) \in Nat
        /\ Received(e, b)' = Received(e, b) + IF h \in Day(b) THEN size[e] ELSE 0
    <3>1. Received(e, b)' = SumFunctionOnSet(received'[e], Day(b))  BY DEF Received, Day, Bucket
    <3> QED  BY <1>1, <1>3, <3>1, TimesAreFinite, PollReceives DEF Received
  <2>9. h \in Day(b) <=> Bucket(h) = b  BY <1>3 DEF Day, Polled
  <2>10. rollup'[e][b] = rollup[e][b] /\ now' = now  BY <1>3 DEF Polled
  <2> QED  BY <2>1, <2>3, <2>6, <2>7, <2>8, <2>9, <2>10 DEF DayCounted
<1>6. ASSUME NEW e \in Links, NEW t \in Times PROVE Crossings(AtTime(t), e)' <= received'[e][t]
  <2>1. Crossings(AtTime(t), e) <= received[e][t]  BY <1>1 DEF TimesCounted
  <2>2. PICK S : S = AtTime(t)  OBVIOUS
  <2>3. S \subseteq DOMAIN obs /\ S = {i \in DOMAIN obs : i > watermark /\ obs[i].heard = t}  BY <2>2 DEF AtTime, Past
  <2>4. AtTime(t)' = {i \in DOMAIN obs' : i > watermark' /\ obs'[i].heard = t}  BY DEF AtTime, Past
  <2>5. Crossings(S, e) \in Nat  BY <1>1, <2>3, CrossingsIsSum
  <2>6. Crossings(S, e)' = Crossings(S, e) /\ Crossings(S \cup new, e)' = Crossings(S, e) + size[e]
    BY <1>1, <1>2, <1>3, <2>3, PollMoves
  <2>7. received'[e][t] = received[e][t] + (IF t = h THEN size[e] ELSE 0)
        /\ size[e] \in Nat /\ received[e][t] \in Nat
    BY <1>1, <1>3 DEF Polled, CountTypes
  <2>8. CASE t = h
    <3>1. AtTime(t)' = S \cup new  BY <1>3, <2>3, <2>4, <2>8 DEF Polled
    <3>2. Crossings(AtTime(t), e)' = Crossings(S \cup new, e)'  BY <3>1 DEF Crossings
    <3> QED  BY <2>1, <2>2, <2>5, <2>6, <2>7, <2>8, <3>2
  <2>9. CASE t # h
    <3>1. AtTime(t)' = S  BY <1>3, <2>3, <2>4, <2>9 DEF Polled
    <3>2. Crossings(AtTime(t), e)' = Crossings(S, e)'  BY <3>1 DEF Crossings
    <3> QED  BY <2>1, <2>2, <2>5, <2>6, <2>7, <2>9, <3>2
  <2> QED  BY <2>8, <2>9
<1>7. DaysCounted' /\ TimesCounted'  BY <1>5, <1>6 DEF DaysCounted, TimesCounted
<1> QED  BY <1>2, <1>4, <1>7 DEF CountInv

(***************************************************************************)
(* Every other step leaves the rows it keeps as they were heard, and as    *)
(* long as the watermark stays it takes none of those past it.             *)
(***************************************************************************)
Shrinks ==
    /\ DOMAIN obs' \subseteq DOMAIN obs
    /\ \A i \in DOMAIN obs' : obs'[i].chain = obs[i].chain /\ obs'[i].heard = obs[i].heard
    /\ watermark' \in Nat /\ watermark' >= watermark
    /\ watermark' = watermark => \A i \in DOMAIN obs : i > watermark => i \in DOMAIN obs'
    /\ received' = received

LEMMA ShrunkCounts ==
    ASSUME TableTypes, CountTypes, TimesCounted, Shrinks, rollup' \in [Links -> [Buckets -> Nat]]
    PROVE  CountTypes' /\ TimesCounted'
<1>1. CountTypes'  BY DEF CountTypes, Shrinks
<1>2. ASSUME NEW e \in Links, NEW t \in Times PROVE Crossings(AtTime(t), e)' <= received'[e][t]
  <2>1. PICK S : S = AtTime(t)'  OBVIOUS
  <2>2. S = {i \in DOMAIN obs' : i > watermark' /\ obs'[i].heard = t}  BY <2>1 DEF AtTime, Past
  <2>3. AtTime(t) = {i \in DOMAIN obs : i > watermark /\ obs[i].heard = t}  BY DEF AtTime, Past
  <2>4. S \subseteq AtTime(t) /\ AtTime(t) \subseteq DOMAIN obs
    <3>1. \A i \in DOMAIN obs : i > watermark' => i > watermark  BY DEF Shrinks, TableTypes
    <3> QED  BY <2>2, <2>3, <3>1 DEF Shrinks
  <2>5. Crossings(AtTime(t), e)' = Crossings(S, e)'  BY <2>1 DEF Crossings
  <2>6. Crossings(S, e)' = Crossings(S, e)
    <3>1. \A i \in S : obs'[i].chain = obs[i].chain  BY <2>2 DEF Shrinks
    <3> QED  BY <3>1, CrossingsStay
  <2>7. Crossings(S, e) <= Crossings(AtTime(t), e)  BY <2>4, CrossingsSubset
  <2>8. Crossings(S, e) \in Nat /\ Crossings(AtTime(t), e) \in Nat
    <3>1. S \subseteq DOMAIN obs  BY <2>4
    <3> QED  BY <2>4, <3>1, CrossingsIsSum
  <2>9. Crossings(AtTime(t), e) <= received[e][t] /\ received[e][t] \in Nat  BY DEF TimesCounted, CountTypes
  <2>10. received'[e][t] = received[e][t]  BY DEF Shrinks
  <2> QED  BY <2>5, <2>6, <2>7, <2>8, <2>9, <2>10
<1>3. TimesCounted'  BY <1>2 DEF TimesCounted
<1> QED  BY <1>1, <1>3

LEMMA ReceivedStays ==
    ASSUME CountTypes, received' = received, NEW e \in Links, NEW b
    PROVE  Received(e, b)' = Received(e, b) /\ Received(e, b) \in Nat
<1>1. Received(e, b)' = Received(e, b)  BY DEF Received, Day, Bucket
<1>2. IsFiniteSet(Day(b)) /\ \A t \in Day(b) : received[e][t] \in Nat  BY TimesAreFinite DEF CountTypes
<1>3. Received(e, b) \in Nat  BY <1>2, SumType DEF Received
<1> QED  BY <1>1, <1>3

\* While the watermark stays, so does what is left of a day.
LEMMA LeftStays ==
    ASSUME TableTypes, TableTypes', Shrinks, watermark' = watermark, NEW e, NEW b
    PROVE  Left(e, b)' = Left(e, b)
<1>1. PICK S : S = Pending(b)  OBVIOUS
<1>2. S = {i \in DOMAIN obs : i > watermark /\ Bucket(obs[i].heard) = b}  BY <1>1, PendingType
<1>3. Pending(b)' = {i \in DOMAIN obs' : i > watermark' /\ Bucket(obs'[i].heard) = b}  BY PendingAfter DEF Bucket
<1>4. Pending(b)' = S /\ \A i \in S : obs'[i].chain = obs[i].chain
  <2>1. \A i \in DOMAIN obs : i > watermark => i \in DOMAIN obs'  BY DEF Shrinks
  <2>2. DOMAIN obs' \subseteq DOMAIN obs /\ \A i \in DOMAIN obs' : obs'[i].chain = obs[i].chain /\ obs'[i].heard = obs[i].heard
    BY DEF Shrinks
  <2>3. \A i \in S : obs'[i].chain = obs[i].chain  BY <1>2, <2>1, <2>2
  <2>4. Pending(b)' = S  BY <1>2, <1>3, <2>1, <2>2
  <2> QED  BY <2>3, <2>4
<1>5. Left(e, b)' = Crossings(S, e)'  BY <1>4 DEF Left, Crossings
<1>6. Crossings(S, e)' = Crossings(S, e)  BY <1>4, CrossingsStay
<1> QED  BY <1>1, <1>5, <1>6 DEF Left

\* A chunk's rows move from the pending ones to the rollup, day by day.
LEMMA CompactCounts ==
    ASSUME CountInv, CompactChunk PROVE CountInv' /\ Shrinks
<1>1. PICK wm \in DOMAIN obs \cup {watermark} : Advanced(Chunk, wm) /\ watermark' = wm
  BY Zenon DEF CompactChunk
<1>2. obs' = [i \in DOMAIN obs |-> [obs[i] EXCEPT !.rolled = @ + IF i \in Chunk THEN 1 ELSE 0]]
  BY Zenon DEF CompactChunk
<1>3. /\ now' = now /\ received' = received
      /\ rollup' = [e \in Links |-> [b \in Buckets |-> rollup[e][b] + Crossings(OfDay(Chunk, b), e)]]
  BY Zenon DEF CompactChunk
<1>4. TableTypes /\ IInv /\ CountTypes /\ DaysCounted /\ TimesCounted  BY DEF CountInv, IInv
<1>5. ASSUME NEW i \in DOMAIN obs PROVE obs'[i].heard = obs[i].heard /\ obs'[i].chain = obs[i].chain
  <2>1. obs[i] \in [chain : Chains, heard : Nat, rolled : Nat]  BY <1>4 DEF TableTypes
  <2> QED  BY <2>1, <1>2
<1>6. DOMAIN obs' = DOMAIN obs  BY <1>2
<1>7. wm \in Nat /\ wm >= watermark /\ watermark \in Nat /\ Chunk \subseteq DOMAIN obs
      /\ \A i \in DOMAIN obs : i \in Nat /\ (i \in Chunk <=> (i > watermark /\ i <= wm))
  BY <1>1, <1>4, ChunkIsFolded
<1>8. Shrinks  BY <1>1, <1>3, <1>5, <1>6, <1>7 DEF Shrinks
<1>9. IInv' /\ TableTypes'  BY <1>4, CompactIInv DEF IInv
<1>10. ASSUME NEW e \in Links, NEW b \in Buckets
      PROVE  /\ Crossings(OfDay(Chunk, b), e) \in Nat
             /\ Left(e, b) = Crossings(OfDay(Chunk, b), e) + Left(e, b)'
  <2>1. PICK A : A = OfDay(Chunk, b)  OBVIOUS
  <2>2. PICK B : B = {i \in DOMAIN obs : i > wm /\ Bucket(obs[i].heard) = b}  OBVIOUS
  <2>3. A = {i \in Chunk : Bucket(obs[i].heard) = b}  BY <2>1 DEF OfDay
  <2>4. Pending(b) = {i \in DOMAIN obs : i > watermark /\ Bucket(obs[i].heard) = b}  BY <1>4, PendingType
  <2>5. A \subseteq DOMAIN obs /\ B \subseteq DOMAIN obs /\ A \cap B = {}  BY <1>7, <2>2, <2>3
  <2>6. Pending(b) = A \cup B
    <3>1. \A i \in DOMAIN obs : i > watermark <=> (i \in Chunk \/ i > wm)  BY <1>7
    <3> QED  BY <1>7, <2>2, <2>3, <2>4, <3>1
  <2>7. Crossings(A, e) \in Nat /\ Left(e, b) = Crossings(A, e) + Crossings(B, e)
    <3>1. Left(e, b) = Crossings(A \cup B, e)  BY <2>6 DEF Left
    <3> QED  BY <1>4, <2>5, <3>1, CrossingsAdd, CrossingsIsSum
  <2>8. Left(e, b)' = Crossings(B, e)
    <3>1. Pending(b)' = {i \in DOMAIN obs' : i > watermark' /\ Bucket(obs'[i].heard) = b}
      BY <1>9, PendingAfter DEF Bucket
    <3>2. Pending(b)' = B  BY <1>1, <1>5, <1>6, <2>2, <3>1
    <3>3. Left(e, b)' = Crossings(B, e)'  BY <3>2 DEF Left, Crossings
    <3>4. Crossings(B, e)' = Crossings(B, e)  BY <1>5, <2>5, CrossingsStay
    <3> QED  BY <3>3, <3>4
  <2> QED  BY <2>1, <2>7, <2>8
<1>11. rollup' \in [Links -> [Buckets -> Nat]]
  <2>1. \A e \in Links, b \in Buckets : rollup[e][b] + Crossings(OfDay(Chunk, b), e) \in Nat
    BY <1>4, <1>10 DEF CountTypes
  <2> QED  BY <1>3, <2>1
<1>12. ASSUME NEW e \in Links, NEW b \in Buckets PROVE DayCounted(e, b)'
  <2>1. DayCounted(e, b)  BY <1>4 DEF DaysCounted
  <2>2. rollup'[e][b] = rollup[e][b] + Crossings(OfDay(Chunk, b), e)  BY <1>3
  <2>3. rollup[e][b] \in Nat  BY <1>4 DEF CountTypes
  <2>4. Left(e, b)' \in Nat  BY <1>9, PendingAfter
  <2>5. Received(e, b)' = Received(e, b) /\ Received(e, b) \in Nat  BY <1>3, <1>4, ReceivedStays
  <2>6. rollup'[e][b] + Left(e, b)' = rollup[e][b] + Left(e, b)  BY <1>10, <2>2, <2>3, <2>4
  <2> QED  BY <1>3, <2>1, <2>5, <2>6 DEF DayCounted
<1>13. DaysCounted'  BY <1>12 DEF DaysCounted
<1>14. CountTypes' /\ TimesCounted'  BY <1>4, <1>8, <1>11, ShrunkCounts
<1> QED  BY <1>8, <1>9, <1>13, <1>14 DEF CountInv

(***************************************************************************)
(* A prune of the raw rows takes none of the pending ones, a prune of the  *)
(* rollup only days past the retention; the other steps touch no count.    *)
(***************************************************************************)
LEMMA QuietCounts ==
    ASSUME CountInv, IInv', Shrinks, watermark' = watermark, now' \in {now, now + 1},
           rollup' \in [Links -> [Buckets -> Nat]],
           \A e \in Links, b \in Buckets :
               rollup'[e][b] <= rollup[e][b] /\ (b >= now - RollupRetention => rollup'[e][b] = rollup[e][b])
    PROVE  CountInv'
<1>1. IInv /\ TableTypes /\ CountTypes /\ DaysCounted /\ TimesCounted /\ TableTypes'  BY DEF CountInv, IInv
<1>2. ASSUME NEW e \in Links, NEW b \in Buckets PROVE DayCounted(e, b)'
  <2>1. DayCounted(e, b)  BY <1>1 DEF DaysCounted
  <2>2. rollup[e][b] \in Nat /\ rollup'[e][b] \in Nat  BY <1>1 DEF CountTypes
  <2>3. Left(e, b)' = Left(e, b) /\ Left(e, b) \in Nat  BY <1>1, LeftStays, PendingType
  <2>4. received' = received  BY DEF Shrinks
  <2>5. Received(e, b)' = Received(e, b) /\ Received(e, b) \in Nat  BY <1>1, <2>4, ReceivedStays
  <2>6. b \in Int /\ now \in Nat /\ RollupRetention \in Nat  BY <1>1, TimesAreFinite, MeshAssumption DEF TableTypes
  <2>7. b >= now' - RollupRetention => b >= now - RollupRetention
    <3>1. CASE now' = now  BY <3>1
    <3>2. CASE now' = now + 1
      <4>1. b >= (now + 1) - RollupRetention => b >= now - RollupRetention  BY <2>6
      <4> QED  BY <3>2, <4>1
    <3> QED  BY <3>1, <3>2
  <2> QED  BY <2>1, <2>2, <2>3, <2>5, <2>7 DEF DayCounted
<1>3. DaysCounted'  BY <1>2 DEF DaysCounted
<1>4. CountTypes' /\ TimesCounted'  BY <1>1, ShrunkCounts
<1> QED  BY <1>3, <1>4 DEF CountInv

\* The steps of QuietCounts.
Quiet ==
    /\ Shrinks /\ watermark' = watermark /\ now' \in {now, now + 1}
    /\ rollup' \in [Links -> [Buckets -> Nat]]
    /\ \A e \in Links, b \in Buckets :
           rollup'[e][b] <= rollup[e][b] /\ (b >= now - RollupRetention => rollup'[e][b] = rollup[e][b])

LEMMA QuietSteps ==
    ASSUME CountInv, [Next]_vars PROVE Poll \/ CompactChunk \/ Quiet
<1>1. TableTypes /\ CountTypes  BY DEF CountInv, IInv
<1>2. \A e \in Links, b \in Buckets : rollup[e][b] \in Nat  BY <1>1 DEF CountTypes
<1>3. ASSUME UNCHANGED <<obs, watermark, received>> PROVE Shrinks
  BY <1>1, <1>3 DEF Shrinks, TableTypes
<1>4. CASE UNCHANGED <<obs, watermark, rollup, received>> /\ now' \in {now, now + 1}
  <2>1. Shrinks  BY <1>3, <1>4
  <2>2. rollup' \in [Links -> [Buckets -> Nat]]  BY <1>1, <1>4 DEF CountTypes
  <2>3. \A e \in Links, b \in Buckets : rollup'[e][b] <= rollup[e][b] /\ rollup'[e][b] = rollup[e][b]  BY <1>2, <1>4
  <2> QED  BY <1>4, <2>1, <2>2, <2>3 DEF Quiet
<1>5. CASE PruneMeshObservations
  <2> DEFINE kept == DOMAIN obs \ Prunable(maint.now - ObservationRetention)
  <2>1. obs' = [i \in kept |-> obs[i]] /\ UNCHANGED <<now, watermark, rollup, received>>  BY <1>5 DEF PruneMeshObservations
  <2>2. DOMAIN obs' = kept /\ \A i \in kept : obs'[i] = obs[i]  BY <2>1
  <2>3. kept \subseteq DOMAIN obs /\ \A i \in DOMAIN obs : i > watermark => i \in kept
    BY <1>1 DEF TableTypes, Prunable
  <2> HIDE DEF kept
  <2>4. watermark' \in Nat /\ watermark' >= watermark  BY <1>1, <2>1 DEF TableTypes
  <2>5. Shrinks  BY <2>1, <2>2, <2>3, <2>4 DEF Shrinks
  <2>6. rollup' \in [Links -> [Buckets -> Nat]]  BY <1>1, <2>1 DEF CountTypes
  <2>7. \A e \in Links, b \in Buckets : rollup'[e][b] <= rollup[e][b] /\ rollup'[e][b] = rollup[e][b]  BY <1>2, <2>1
  <2> QED  BY <2>1, <2>5, <2>6, <2>7 DEF Quiet
<1>6. CASE PruneMeshLinkRollup
  <2>1. /\ UNCHANGED <<now, obs, watermark, received>>
        /\ rollup' = [e \in Links |-> [b \in Buckets |->
                         IF b < maint.now - RollupRetention THEN 0 ELSE rollup[e][b]]]
    BY <1>6 DEF PruneMeshLinkRollup
  <2>2. Shrinks  BY <1>3, <2>1
  <2>3. rollup' \in [Links -> [Buckets -> Nat]]  BY <1>2, <2>1
  <2>4. ASSUME NEW e \in Links, NEW b \in Buckets
        PROVE  rollup'[e][b] <= rollup[e][b] /\ (b >= now - RollupRetention => rollup'[e][b] = rollup[e][b])
    <3>1. b \in Int /\ rollup[e][b] \in Nat  BY <1>2, TimesAreFinite
    <3>2. rollup'[e][b] = IF b < maint.now - RollupRetention THEN 0 ELSE rollup[e][b]  BY <2>1
    <3>3. b >= now - RollupRetention => ~(b < maint.now - RollupRetention)  BY <1>1, <3>1, MeshAssumption DEF TableTypes
    <3> QED  BY <3>1, <3>2, <3>3
  <2> QED  BY <2>1, <2>2, <2>3, <2>4 DEF Quiet
<1>7. \/ Poll \/ CompactChunk \/ PruneMeshObservations \/ PruneMeshLinkRollup
      \/ UNCHANGED <<obs, watermark, rollup, received>> /\ now' \in {now, now + 1}
  BY Zenon DEF Next, vars, MaintStart, CompactFails, PruneObservationsFails, MaintEnds,
     LinksStart, ReadRollup, ReadWatermark, ReadTail, Restart, Clock
<1> QED  BY <1>4, <1>5, <1>6, <1>7

\* Empty tables have counted nothing, and nothing was received.
LEMMA InitCounts == ASSUME Init PROVE CountInv
<1>1. IInv /\ TableTypes  BY InitIInv DEF IInv
<1>2. DOMAIN obs = {}  BY DEF Init
<1>3. CountTypes  BY <1>2 DEF Init, CountTypes, NoneReceived
<1>4. \A e : Crossings({}, e) = 0
  <2>1. \A e : Crossings({}, e) = SumFunctionOnSet([i \in {} |-> EachEdge(obs[i].chain, e)], {})
    BY DEF Crossings, SumFunction
  <2> QED  BY <2>1, FS_EmptySet, SumUnfolds
<1>5. ASSUME NEW e \in Links, NEW b \in Buckets PROVE DayCounted(e, b)
  <2>1. rollup[e][b] = 0  BY DEF Init
  <2>2. Pending(b) = {}  BY <1>2 DEF Pending, OfDay, Past
  <2>3. Left(e, b) = 0  BY <1>4, <2>2 DEF Left
  <2>4. \A t \in Day(b) : received[e][t] = 0  BY DEF Init, NoneReceived, Day
  <2>5. Received(e, b) = 0  BY <2>4, TimesAreFinite, SumZero DEF Received
  <2> QED  BY <2>1, <2>3, <2>5 DEF DayCounted
<1>6. ASSUME NEW e \in Links, NEW t \in Times PROVE Crossings(AtTime(t), e) <= received[e][t]
  <2>1. AtTime(t) = {}  BY <1>2 DEF AtTime, Past
  <2>2. received[e][t] = 0  BY DEF Init, NoneReceived
  <2> QED  BY <1>4, <2>1, <2>2
<1> QED  BY <1>1, <1>3, <1>5, <1>6 DEF CountInv, DaysCounted, TimesCounted

LEMMA NextCounts ==
    ASSUME MaySilence = FALSE, CountInv, [Next]_vars PROVE CountInv'
<1>1. IInv'  BY NextIInv DEF CountInv
<1>2. CASE Quiet
  <2>1. Shrinks /\ watermark' = watermark /\ now' \in {now, now + 1} /\ rollup' \in [Links -> [Buckets -> Nat]]  BY <1>2 DEF Quiet
  <2>2. \A e \in Links, b \in Buckets :
           rollup'[e][b] <= rollup[e][b] /\ (b >= now - RollupRetention => rollup'[e][b] = rollup[e][b])
    BY <1>2 DEF Quiet
  <2> QED  BY <1>1, <2>1, <2>2, QuietCounts
<1>3. CASE Poll  BY <1>3, PollCounts
<1>4. CASE CompactChunk  BY <1>4, CompactCounts
<1> QED  BY <1>2, <1>3, <1>4, QuietSteps

(***************************************************************************)
(* RecordMeshTick, CompactMeshObservations and the two prunes together: a  *)
(* link's day in the rollup plus its rows past the watermark is what was   *)
(* received, for every batch size, retention and interleaving, in a system *)
(* whose feed is never silent for the raw retention.                       *)
(***************************************************************************)
THEOREM CountedTheorem ==
    ASSUME MaySilence = FALSE
    PROVE  Spec => []EachReceptionCountedOnce
<1>1. Init => CountInv  BY InitCounts
<1>2. CountInv /\ [Next]_vars => CountInv'  BY NextCounts
<1>3. CountInv => EachReceptionCountedOnce
  BY DEF CountInv, DaysCounted, DayCounted, Left, Pending, Received, Day, EachReceptionCountedOnce
<1> QED  BY <1>1, <1>2, <1>3, PTL DEF Spec

-----------------------------------------------------------------------------
\* The rows of the days of S, day by day.
LEMMA LeftOfDays ==
    ASSUME TableTypes, NEW e, NEW S, IsFiniteSet(S)
    PROVE  SumFunctionOnSet([b \in S |-> Left(e, b)], S)
             = Crossings({i \in Past(watermark) : Bucket(obs[i].heard) \in S}, e)
<1> DEFINE T == Past(watermark)
           f == Weight(e)
           share == [b \in S |-> Pending(b)]
           d == [b \in S |-> Left(e, b)]
           U == {i \in T : Bucket(obs[i].heard) \in S}
<1>1. T \subseteq DOMAIN obs /\ U \subseteq DOMAIN obs  BY DEF Past
<1>2. IsFiniteSet(T) /\ (\A i \in T : f[i] \in Nat) /\ Crossings(U, e) = SumFunctionOnSet(f, U)
  <2> HIDE DEF T, U
  <2> QED  BY <1>1, CrossingsIsSum
<1>3. ASSUME NEW b \in S
      PROVE  share[b] = {i \in T : Bucket(obs[i].heard) = b} /\ d[b] = SumFunctionOnSet(f, share[b])
  <2>1. share[b] = {i \in T : Bucket(obs[i].heard) = b}  BY DEF Pending, OfDay
  <2>2. Pending(b) \subseteq DOMAIN obs  BY PendingType
  <2>3. Left(e, b) = SumFunctionOnSet(Weight(e), Pending(b))  BY <2>2, CrossingsIsSum DEF Left
  <2> QED  BY <2>1, <2>3
<1>4. Parts(f, T, share, d, S)
  <2>1. \A b \in S : share[b] \subseteq T /\ d[b] = SumFunctionOnSet(f, share[b])  BY <1>3
  <2>2. \A b, c \in S : b # c => share[b] \cap share[c] = {}  BY <1>3
  <2> HIDE DEF f, T, share, d, U
  <2> QED  BY <1>2, <2>1, <2>2 DEF Parts
<1>5. U = {i \in T : \E b \in S : i \in share[b]}  BY <1>3
<1> HIDE DEF f, T, share, d, U
<1>6. SumFunctionOnSet(d, S) = SumFunctionOnSet(f, U)  BY <1>2, <1>4, <1>5, SumParts
<1>7. SumFunctionOnSet(d, S) = Crossings(U, e)  BY <1>2, <1>6
<1> QED  BY <1>7 DEF d, U, T

\* What was received on the days of S, day by day.
LEMMA ReceivedOnDays ==
    ASSUME CountTypes, NEW e \in Links, NEW S, IsFiniteSet(S)
    PROVE  SumFunctionOnSet([b \in S |-> Received(e, b)], S)
             = SumFunctionOnSet(received[e], {t \in Times : Bucket(t) \in S})
<1> DEFINE T == Times
           f == received[e]
           share == [b \in S |-> Day(b)]
           d == [b \in S |-> Received(e, b)]
           U == {t \in T : Bucket(t) \in S}
<1>1. IsFiniteSet(T) /\ \A t \in T : f[t] \in Nat  BY TimesAreFinite DEF CountTypes
<1>2. \A b \in S : share[b] = {t \in T : Bucket(t) = b} /\ d[b] = SumFunctionOnSet(f, share[b])  BY DEF Day, Received
<1>3. Parts(f, T, share, d, S)
  <2>1. \A b \in S : share[b] \subseteq T /\ d[b] = SumFunctionOnSet(f, share[b])  BY <1>2
  <2>2. \A b, c \in S : b # c => share[b] \cap share[c] = {}  BY <1>2
  <2> HIDE DEF f, T, share, d, U
  <2> QED  BY <1>1, <2>1, <2>2 DEF Parts
<1>4. U = {t \in T : \E b \in S : t \in share[b]}  BY <1>2
<1> HIDE DEF f, T, share, d, U
<1>5. SumFunctionOnSet(d, S) = SumFunctionOnSet(f, U)  BY <1>1, <1>3, <1>4, SumParts
<1> QED  BY <1>5 DEF d, f, U, T

\* The rows past the watermark heard at the times of Y are no more than were received then.
LEMMA LeftOfTimes ==
    ASSUME TableTypes, CountTypes, TimesCounted, NEW e \in Links, NEW Y, Y \subseteq Times
    PROVE  Crossings({i \in Past(watermark) : obs[i].heard \in Y}, e) <= SumFunctionOnSet(received[e], Y)
<1> DEFINE T == Past(watermark)
           f == Weight(e)
           share == [t \in Y |-> AtTime(t)]
           d == [t \in Y |-> Crossings(AtTime(t), e)]
           U == {i \in T : obs[i].heard \in Y}
<1>1. T \subseteq DOMAIN obs /\ U \subseteq DOMAIN obs  BY DEF Past
<1>2. IsFiniteSet(Y)  BY TimesAreFinite, FS_Subset
<1>3. IsFiniteSet(T) /\ (\A i \in T : f[i] \in Nat) /\ Crossings(U, e) = SumFunctionOnSet(f, U)
  <2> HIDE DEF T, U
  <2> QED  BY <1>1, CrossingsIsSum
<1>4. ASSUME NEW t \in Y
      PROVE  share[t] = {i \in T : obs[i].heard = t} /\ d[t] = SumFunctionOnSet(f, share[t]) /\ d[t] \in Nat
  <2>1. share[t] = {i \in T : obs[i].heard = t}  BY DEF AtTime
  <2>2. AtTime(t) \subseteq DOMAIN obs  BY DEF AtTime, Past
  <2>3. Crossings(AtTime(t), e) = SumFunctionOnSet(Weight(e), AtTime(t)) /\ Crossings(AtTime(t), e) \in Nat
    BY <2>2, CrossingsIsSum
  <2> QED  BY <2>1, <2>3
<1>5. Parts(f, T, share, d, Y)
  <2>1. \A t \in Y : share[t] \subseteq T /\ d[t] = SumFunctionOnSet(f, share[t])  BY <1>4
  <2>2. \A t, c \in Y : t # c => share[t] \cap share[c] = {}  BY <1>4
  <2> HIDE DEF f, T, share, d, U
  <2> QED  BY <1>3, <2>1, <2>2 DEF Parts
<1>6. U = {i \in T : \E t \in Y : i \in share[t]}  BY <1>4
<1>7. \A t \in Y : d[t] \in Nat /\ received[e][t] \in Nat /\ d[t] <= received[e][t]  BY <1>4 DEF TimesCounted, CountTypes
<1> HIDE DEF f, T, share, d, U
<1>8. SumFunctionOnSet(d, Y) = SumFunctionOnSet(f, U)  BY <1>2, <1>3, <1>5, <1>6, SumParts
<1>9. SumFunctionOnSet(d, Y) <= SumFunctionOnSet(received[e], Y)
  <2>1. PICK g : g = received[e]  OBVIOUS
  <2>2. \A t \in Y : d[t] \in Nat /\ g[t] \in Nat /\ d[t] <= g[t]  BY <1>7, <2>1
  <2>3. SumFunctionOnSet(d, Y) <= SumFunctionOnSet(g, Y)  BY <1>2, <2>2, SumGrows
  <2> QED  BY <2>1, <2>3
<1>10. Crossings(U, e) <= SumFunctionOnSet(received[e], Y)  BY <1>3, <1>8, <1>9
<1> QED  BY <1>10 DEF U, T

LEMMA WithinType ==
    ASSUME NEW rec \in [Links -> [Times -> Nat]], NEW e \in Links, NEW from
    PROVE  Within(rec, e, from) \in Nat
<1>1. PICK T : T = {t \in Times : t >= from}  OBVIOUS
<1>2. PICK f : f = rec[e]  OBVIOUS
<1>3. IsFiniteSet(T) /\ \A t \in T : f[t] \in Nat
  <2>1. T \subseteq Times  BY <1>1
  <2>2. IsFiniteSet(T)  BY <2>1, TimesAreFinite, FS_Subset
  <2> QED  BY <1>2, <2>1, <2>2
<1>4. SumFunctionOnSet(f, T) \in Nat  BY <1>3, SumType
<1> QED  BY <1>1, <1>2, <1>4 DEF Within

LEMMA TailType ==
    ASSUME TableTypes, NEW w, NEW s
    PROVE  /\ TailOf(w, s) = {i \in DOMAIN obs : i > w /\ obs[i].heard >= s}
           /\ TailOf(w, s) \subseteq DOMAIN obs /\ \A e : Crossings(TailOf(w, s), e) \in Nat
<1>1. TailOf(w, s) = {i \in DOMAIN obs : i > w /\ obs[i].heard >= s}  BY DEF TailOf, Past
<1>2. TailOf(w, s) \subseteq DOMAIN obs  BY <1>1
<1>3. \A e : Crossings(TailOf(w, s), e) \in Nat  BY <1>2, CrossingsIsSum
<1> QED  BY <1>1, <1>2, <1>3

(***************************************************************************)
(* The rollup of the window's days and the rows past the watermark that    *)
(* lie in the window: no more than was received on those days, and within  *)
(* the retention no less than was received in the window.                  *)
(***************************************************************************)
LEMMA RollupBrackets ==
    ASSUME TableTypes, CountTypes, DaysCounted, TimesCounted, NEW e \in Links, NEW since \in Nat
    PROVE  /\ RollupSum(e, since) \in Nat
           /\ RollupSum(e, since) + Crossings(TailOf(watermark, since), e) <= Within(received, e, Bucket(since))
           /\ Bucket(since) >= now - RollupRetention =>
                 Within(received, e, since) <= RollupSum(e, since) + Crossings(TailOf(watermark, since), e)
<1> DEFINE B == Bucket(since)
           S == {b \in Buckets : b >= B}
           r == rollup[e]
           l == [b \in S |-> Left(e, b)]
           c == [b \in S |-> rollup[e][b] + Left(e, b)]
           d == [b \in S |-> Received(e, b)]
           P == {i \in Past(watermark) : Bucket(obs[i].heard) \in S}
           Q == TailOf(watermark, since)
           R == P \ Q
           V == {t \in Times : Bucket(t) \in S}
           W == {t \in Times : t >= since}
           Y == V \ W
           rec == received[e]
<1>1. B \in Nat /\ B <= since /\ \A t \in Nat : since <= t => B <= Bucket(t)  BY BucketOrder
<1>2. IsFiniteSet(S) /\ S \subseteq Buckets  BY TimesAreFinite, FS_Subset
<1>3. ASSUME NEW b \in S
      PROVE  /\ r[b] \in Nat /\ l[b] \in Nat /\ d[b] \in Nat
             /\ c[b] = r[b] + l[b] /\ c[b] <= d[b] /\ (B >= now - RollupRetention => c[b] = d[b])
  <2>1. b \in Buckets /\ b >= B /\ b \in Int  BY TimesAreFinite
  <2>2. r[b] \in Nat /\ l[b] \in Nat  BY <2>1, PendingType DEF CountTypes
  <2>3. d[b] \in Nat
    <3>1. IsFiniteSet(Day(b)) /\ \A t \in Day(b) : received[e][t] \in Nat  BY TimesAreFinite DEF CountTypes
    <3> QED  BY <3>1, SumType DEF Received
  <2>4. DayCounted(e, b)  BY <2>1 DEF DaysCounted
  <2>5. B >= now - RollupRetention => b >= now - RollupRetention
    <3>1. now \in Nat /\ RollupRetention \in Nat  BY MeshAssumption DEF TableTypes
    <3> HIDE DEF S, B
    <3> QED  BY <1>1, <2>1, <3>1
  <2> QED  BY <2>2, <2>3, <2>4, <2>5 DEF DayCounted
<1>4. RollupSum(e, since) = SumFunctionOnSet(r, S)  BY DEF RollupSum
<1>5. SumFunctionOnSet(l, S) = Crossings(P, e)  BY <1>2, LeftOfDays
<1>6. SumFunctionOnSet(d, S) = SumFunctionOnSet(rec, V)  BY <1>2, ReceivedOnDays
<1>7. Q \subseteq P /\ P \subseteq DOMAIN obs /\ R \subseteq DOMAIN obs
  <2>1. ASSUME NEW i \in Q PROVE i \in P
    <3>1. i \in Past(watermark) /\ i \in DOMAIN obs /\ obs[i].heard >= since  BY DEF TailOf, Past
    <3>2. obs[i].heard \in Times /\ obs[i].heard \in Nat  BY <3>1, TimesAreFinite DEF CountTypes
    <3>3. Bucket(obs[i].heard) \in Buckets  BY <3>2 DEF Buckets
    <3>4. Bucket(obs[i].heard) >= B
      <4>1. PICK t \in Nat : t = obs[i].heard  BY <3>2
      <4>2. since <= t /\ Bucket(t) \in Nat  BY <3>1, <4>1, BucketOrder
      <4>3. B <= Bucket(t)  BY <1>1, <4>2
      <4> HIDE DEF B
      <4> QED  BY <1>1, <4>1, <4>2, <4>3
    <3> QED  BY <3>1, <3>3, <3>4
  <2>2. P \subseteq DOMAIN obs  BY DEF Past
  <2> QED  BY <2>1, <2>2
<1>8. W \subseteq V /\ V \subseteq Times
  <2>1. ASSUME NEW t \in W PROVE t \in V
    <3>1. t \in Times /\ t \in Nat /\ since <= t  BY TimesAreFinite
    <3>2. Bucket(t) \in Buckets /\ B <= Bucket(t) /\ Bucket(t) \in Nat  BY <1>1, <3>1, BucketOrder DEF Buckets
    <3> QED  BY <1>1, <3>1, <3>2
  <2> QED  BY <2>1
<1>9. R = {i \in Past(watermark) : obs[i].heard \in Y}
  <2>1. \A i \in Past(watermark) : i \in DOMAIN obs /\ obs[i].heard \in Times  BY DEF Past, CountTypes
  <2>2. \A i \in Past(watermark) : i \in P <=> obs[i].heard \in V  BY <2>1
  <2>3. \A i \in Past(watermark) : i \in Q <=> obs[i].heard \in W  BY <2>1 DEF TailOf
  <2>4. P \subseteq Past(watermark)  OBVIOUS
  <2> HIDE DEF P, Q, V, W
  <2> QED  BY <2>2, <2>3, <2>4
<1>10. V \subseteq {t \in Times : t >= B}
  <2>1. ASSUME NEW t \in V PROVE t >= B
    <3>1. t \in Nat /\ Bucket(t) >= B  BY TimesAreFinite
    <3>2. Bucket(t) \in Nat /\ Bucket(t) <= t  BY <3>1, BucketOrder
    <3> HIDE DEF B, V
    <3> QED  BY <1>1, <3>1, <3>2
  <2> QED  BY <2>1
<1>11. \A t \in Times : rec[t] \in Nat  BY DEF CountTypes
<1>12. Within(received, e, since) = SumFunctionOnSet(rec, W)  BY DEF Within
<1>13. SumFunctionOnSet(rec, V) <= Within(received, e, B)
  <2>1. PICK Z : Z = {t \in Times : t >= B}  OBVIOUS
  <2>2. Within(received, e, B) = SumFunctionOnSet(rec, Z)  BY <2>1 DEF Within
  <2>3. Z \subseteq Times /\ V \subseteq Z  BY <1>10, <2>1
  <2>4. IsFiniteSet(Z) /\ \A t \in Z : rec[t] \in Nat  BY <1>11, <2>3, TimesAreFinite, FS_Subset
  <2> HIDE DEF V, rec, B
  <2> QED  BY <2>2, <2>3, <2>4, SumSubset
<1>14. Y \subseteq Times /\ Y \cap W = {} /\ W \cup Y = V  BY <1>8
<1>15. Crossings({i \in Past(watermark) : obs[i].heard \in Y}, e) <= SumFunctionOnSet(received[e], Y)
  <2> HIDE DEF Y
  <2> QED  BY <1>14, LeftOfTimes
<1>16. Crossings(R, e) <= SumFunctionOnSet(rec, Y)  BY <1>9, <1>15
<1>17. Q \cup R = P /\ Q \cap R = {}  BY <1>7
<1>18. Q \subseteq DOMAIN obs  BY <1>7
<1> HIDE DEF B, S, r, l, c, d, P, Q, R, V, W, Y, rec
<1>19. Crossings(P, e) = Crossings(Q, e) + Crossings(R, e)
  <2>1. Crossings(Q \cup R, e) = Crossings(Q, e) + Crossings(R, e)  BY <1>7, <1>17, <1>18, CrossingsAdd
  <2> QED  BY <1>17, <2>1
<1>20. Crossings(P, e) \in Nat /\ Crossings(Q, e) \in Nat /\ Crossings(R, e) \in Nat  BY <1>7, <1>18, CrossingsIsSum
<1>21. IsFiniteSet(W) /\ IsFiniteSet(Y) /\ IsFiniteSet(V)
  <2>1. W \subseteq Times /\ Y \subseteq Times /\ V \subseteq Times  BY <1>8, <1>14
  <2> QED  BY <2>1, TimesAreFinite, FS_Subset
<1>22. SumFunctionOnSet(rec, V) = SumFunctionOnSet(rec, W) + SumFunctionOnSet(rec, Y)
  <2>1. (\A t \in W \cup Y : rec[t] \in Nat) /\ W \cap Y = {}  BY <1>8, <1>11, <1>14
  <2>2. SumFunctionOnSet(rec, W \cup Y) = SumFunctionOnSet(rec, W) + SumFunctionOnSet(rec, Y)  BY <1>21, <2>1, SumUnion
  <2> QED  BY <1>14, <2>2
<1>23. SumFunctionOnSet(rec, W) \in Nat /\ SumFunctionOnSet(rec, Y) \in Nat /\ SumFunctionOnSet(rec, V) \in Nat
  <2>1. (\A t \in W : rec[t] \in Nat) /\ (\A t \in Y : rec[t] \in Nat) /\ \A t \in V : rec[t] \in Nat  BY <1>8, <1>11, <1>14
  <2> QED  BY <1>21, <2>1, SumType
<1>24. SumFunctionOnSet(r, S) \in Nat  BY <1>2, <1>3, SumType
<1>25. SumFunctionOnSet(c, S) = SumFunctionOnSet(r, S) + SumFunctionOnSet(l, S)  BY <1>2, <1>3, SumPlus
<1>26. SumFunctionOnSet(c, S) <= SumFunctionOnSet(d, S)
  <2>1. \A b \in S : c[b] \in Nat /\ d[b] \in Nat /\ c[b] <= d[b]  BY <1>3
  <2> QED  BY <1>2, <2>1, SumGrows
<1>27. B >= now - RollupRetention => SumFunctionOnSet(c, S) = SumFunctionOnSet(d, S)
  <2> SUFFICES ASSUME B >= now - RollupRetention PROVE SumFunctionOnSet(c, S) = SumFunctionOnSet(d, S)  OBVIOUS
  <2>1. \A b \in S : d[b] \in Nat /\ c[b] = d[b]  BY <1>3
  <2> QED  BY <1>2, <2>1, SumSame
<1>28. Within(received, e, B) \in Nat  BY WithinType DEF CountTypes
<1>29. RollupSum(e, since) + Crossings(Q, e) <= Within(received, e, B)
  BY <1>4, <1>5, <1>6, <1>13, <1>19, <1>20, <1>23, <1>24, <1>25, <1>26, <1>28
<1>30. B >= now - RollupRetention => Within(received, e, since) <= RollupSum(e, since) + Crossings(Q, e)
  BY <1>4, <1>5, <1>6, <1>12, <1>16, <1>19, <1>20, <1>22, <1>23, <1>24, <1>25, <1>27
<1> QED  BY <1>4, <1>24, <1>29, <1>30 DEF B, Q

LEMMA BracketTypes ==
    ASSUME TableTypes, CountTypes, ReaderTypes, NEW e \in Links
    PROVE  /\ reader.links[e] \in Nat /\ Rest(e) \in Nat /\ Bucket(reader.since) \in Nat
           /\ Within(received, e, Bucket(reader.since)) \in Nat
           /\ Within(reader.before, e, reader.since) \in Nat
<1>1. reader.links[e] \in Nat /\ reader.before \in [Links -> [Times -> Nat]] /\ reader.since \in Nat  BY DEF ReaderTypes
<1>2. Rest(e) \in Nat  BY TailType DEF Rest
<1>3. Within(received, e, Bucket(reader.since)) \in Nat  BY WithinType DEF CountTypes
<1>4. Within(reader.before, e, reader.since) \in Nat  BY <1>1, WithinType
<1>5. Bucket(reader.since) \in Nat  BY <1>1, BucketOrder
<1> QED  BY <1>1, <1>2, <1>3, <1>4, <1>5

(***************************************************************************)
(* Steps between a read's queries that add nothing: what the tail query    *)
(* will count only shrinks, and not at all while the watermark stays.      *)
(***************************************************************************)
LEMMA ReaderShrunk ==
    ASSUME AnswerInv, TableTypes', CountTypes', Shrinks, reader' = reader, now' \in {now, now + 1}
    PROVE  ReaderInv'
<1>1. IInv /\ TableTypes /\ CountTypes /\ ReaderInv /\ ReaderTypes  BY DEF AnswerInv, CountInv, IInv, ReaderInv
<1>2. received' = received /\ watermark' \in Nat /\ watermark \in Nat /\ watermark' >= watermark  BY <1>1 DEF Shrinks, TableTypes
<1>3. reader.wmStart \in Nat /\ reader.wm \in Nat /\ reader.since \in Nat /\ now \in Nat /\ RollupRetention \in Nat
  BY <1>1, MeshAssumption DEF ReaderTypes, TableTypes
<1>4. ReaderTypes'  BY <1>1 DEF ReaderTypes
<1>5. reader'.pc # "idle" =>
          /\ reader'.wmStart <= watermark'
          /\ reader'.pc = "tail" => reader'.wmStart <= reader'.wm /\ reader'.wm <= watermark'
          /\ \A e \in Links, t \in Times : reader'.before[e][t] <= received'[e][t]
  <2> SUFFICES ASSUME reader.pc # "idle"
               PROVE  /\ reader.wmStart <= watermark'
                      /\ reader.pc = "tail" => reader.wmStart <= reader.wm /\ reader.wm <= watermark'
                      /\ \A e \in Links, t \in Times : reader.before[e][t] <= received[e][t]
    BY <1>2
  <2>1. /\ reader.wmStart <= watermark
        /\ reader.pc = "tail" => reader.wmStart <= reader.wm /\ reader.wm <= watermark
        /\ \A e \in Links, t \in Times : reader.before[e][t] <= received[e][t]
    BY <1>1 DEF ReaderInv
  <2> QED  BY <1>2, <1>3, <2>1
<1>6. ASSUME reader.pc \in {"watermark", "tail", "answered"}, NEW e \in Links PROVE Bracketed(e)'
  <2>1. Bracketed(e)  BY <1>1, <1>6 DEF ReaderInv
  <2>2. reader.links[e] \in Nat /\ Rest(e) \in Nat /\ Bucket(reader.since) \in Nat
        /\ Within(received, e, Bucket(reader.since)) \in Nat /\ Within(reader.before, e, reader.since) \in Nat
    BY <1>1, BracketTypes
  <2>3. reader.wmStart <= watermark /\ (reader.pc = "tail" => reader.wmStart <= reader.wm /\ reader.wm <= watermark)
    BY <1>1, <1>6 DEF ReaderInv
  <2>4. Rest(e)' \in Nat /\ Rest(e)' <= Rest(e) /\ (watermark' = reader.wmStart => Rest(e)' = Rest(e))
    <3>1. CASE reader.pc = "answered"
      <4>1. Rest(e) = 0 /\ Rest(e)' = 0  BY <3>1 DEF Rest
      <4> QED  BY <4>1
    <3>2. CASE reader.pc # "answered"
      <4>1. PICK A : A = TailOf(ReadFrom, reader.since)'  OBVIOUS
      <4>2. PICK C : C = TailOf(ReadFrom, reader.since)  OBVIOUS
      <4>3. PICK p, q : p = ReadFrom /\ q = ReadFrom'  OBVIOUS
      <4>4. p \in Nat /\ q \in Nat /\ q >= p /\ (watermark' = reader.wmStart => p = watermark /\ q = watermark)
        <5>1. CASE reader.pc = "tail"
          <6>1. p = reader.wm /\ q = reader.wm  BY <4>3, <5>1 DEF ReadFrom
          <6> QED  BY <1>2, <1>3, <2>3, <5>1, <6>1
        <5>2. CASE reader.pc # "tail"
          <6>1. p = watermark /\ q = watermark'  BY <4>3, <5>2 DEF ReadFrom
          <6> QED  BY <1>2, <1>3, <2>3, <6>1
        <5> QED  BY <5>1, <5>2
      <4>5. A = {i \in DOMAIN obs' : i > q /\ obs'[i].heard >= reader.since}  BY <4>1, <4>3 DEF TailOf, Past
      <4>6. C = {i \in DOMAIN obs : i > p /\ obs[i].heard >= reader.since}  BY <4>2, <4>3 DEF TailOf, Past
      <4>7. A \subseteq C /\ C \subseteq DOMAIN obs /\ \A i \in A : obs'[i].chain = obs[i].chain
        <5>1. \A i \in DOMAIN obs : i > q => i > p  BY <1>1, <4>4 DEF TableTypes
        <5> QED  BY <4>5, <4>6, <5>1 DEF Shrinks
      <4>8. watermark' = reader.wmStart => A = C
        <5> SUFFICES ASSUME watermark' = reader.wmStart PROVE A = C  OBVIOUS
        <5>1. watermark' = watermark /\ p = watermark /\ q = watermark  BY <1>2, <1>3, <2>3, <4>4
        <5>2. \A i \in DOMAIN obs : i > watermark => i \in DOMAIN obs'  BY <5>1 DEF Shrinks
        <5>3. \A i \in DOMAIN obs' : i \in DOMAIN obs /\ obs'[i].heard = obs[i].heard  BY DEF Shrinks
        <5> QED  BY <4>5, <4>6, <5>1, <5>2, <5>3
      <4>9. Rest(e) = Crossings(C, e)  BY <3>2, <4>2 DEF Rest
      <4>10. Rest(e)' = Crossings(A, e)'  BY <3>2, <4>1 DEF Rest, Crossings
      <4>11. Crossings(A, e)' = Crossings(A, e)  BY <4>7, CrossingsStay
      <4>12. A \subseteq DOMAIN obs  BY <4>7
      <4>13. Crossings(A, e) \in Nat /\ Crossings(A, e) <= Crossings(C, e)  BY <1>1, <4>7, <4>12, CrossingsIsSum, CrossingsSubset
      <4> QED  BY <4>8, <4>9, <4>10, <4>11, <4>13
    <3> QED  BY <3>1, <3>2
  <2>5. Within(received, e, Bucket(reader.since))' = Within(received, e, Bucket(reader.since))
        /\ Within(reader.before, e, reader.since)' = Within(reader.before, e, reader.since)
        /\ Bucket(reader.since)' = Bucket(reader.since)
    BY <1>2 DEF Within, Bucket
  <2>6. watermark' = reader.wmStart /\ Bucket(reader.since) >= now' - RollupRetention
          => watermark = reader.wmStart /\ Bucket(reader.since) >= now - RollupRetention
    <3>1. watermark' = reader.wmStart => watermark = reader.wmStart  BY <1>2, <1>3, <2>3
    <3>2. Bucket(reader.since) >= now' - RollupRetention => Bucket(reader.since) >= now - RollupRetention
      <4>1. PICK k \in Nat : k = Bucket(reader.since)  BY <2>2
      <4>2. CASE now' = now  BY <4>2
      <4>3. CASE now' = now + 1
        <5>1. k >= (now + 1) - RollupRetention => k >= now - RollupRetention  BY <1>3
        <5> QED  BY <4>1, <4>3, <5>1
      <4> QED  BY <4>2, <4>3
    <3> QED  BY <3>1, <3>2
  <2>7. reader'.links[e] + Rest(e)' <= Within(received, e, Bucket(reader.since))'
    BY <2>1, <2>2, <2>4, <2>5 DEF Bracketed
  <2>8. watermark' = reader'.wmStart /\ Bucket(reader.since)' >= now' - RollupRetention =>
          Within(reader.before, e, reader.since)' <= reader'.links[e] + Rest(e)'
    BY <2>1, <2>4, <2>5, <2>6 DEF Bracketed
  <2> QED  BY <2>7, <2>8 DEF Bracketed
<1> QED  BY <1>4, <1>5, <1>6 DEF ReaderInv

\* A poll between the queries adds to what the tail query will count what was received.
LEMMA ReaderPolls ==
    ASSUME AnswerInv, Poll PROVE ReaderInv'
<1>1. IInv /\ TableTypes /\ CountTypes /\ ReaderInv /\ ReaderTypes /\ CountInv  BY DEF AnswerInv, CountInv, IInv, ReaderInv
<1>2. CountInv' /\ TableTypes' /\ CountTypes'  BY <1>1, PollCounts DEF CountInv, IInv
<1>3. PICK h, new, size : Polled(h, new, size)  BY <1>1, PollAdds
<1>4. reader' = reader /\ watermark' = watermark /\ now' = now /\ h \in Times /\ h \in Nat  BY <1>3, TimesAreFinite DEF Polled
<1>5. reader.wmStart \in Nat /\ reader.wm \in Nat /\ reader.since \in Nat /\ watermark \in Nat
  BY <1>1 DEF ReaderTypes, TableTypes
<1>6. ReaderTypes'  BY <1>1, <1>4 DEF ReaderTypes
<1>7. ASSUME reader.pc # "idle", NEW e \in Links, NEW t \in Times PROVE reader.before[e][t] <= received'[e][t]
  <2>1. reader.before[e][t] \in Nat /\ received[e][t] \in Nat /\ reader.before[e][t] <= received[e][t]
    BY <1>1, <1>7 DEF ReaderTypes, CountTypes, ReaderInv
  <2>2. size[e] \in Nat /\ received'[e][t] = received[e][t] + IF t = h THEN size[e] ELSE 0  BY <1>3 DEF Polled
  <2> QED  BY <2>1, <2>2
<1>8. reader'.pc # "idle" =>
          /\ reader'.wmStart <= watermark'
          /\ reader'.pc = "tail" => reader'.wmStart <= reader'.wm /\ reader'.wm <= watermark'
          /\ \A e \in Links, t \in Times : reader'.before[e][t] <= received'[e][t]
  BY <1>1, <1>4, <1>7 DEF ReaderInv
<1>9. ASSUME reader.pc \in {"watermark", "tail", "answered"}, NEW e \in Links PROVE Bracketed(e)'
  <2>1. Bracketed(e)  BY <1>1, <1>9 DEF ReaderInv
  <2>2. reader.links[e] \in Nat /\ Rest(e) \in Nat /\ Bucket(reader.since) \in Nat
        /\ Within(received, e, Bucket(reader.since)) \in Nat /\ Within(reader.before, e, reader.since) \in Nat
    BY <1>1, BracketTypes
  <2>3. size[e] \in Nat  BY <1>3 DEF Polled
  <2>4. Within(received, e, Bucket(reader.since))'
          = Within(received, e, Bucket(reader.since)) + IF h >= Bucket(reader.since) THEN size[e] ELSE 0
    <3>1. PICK T : T = {t \in Times : t >= Bucket(reader.since)}  OBVIOUS
    <3>2. T \subseteq Times /\ (h \in T <=> h >= Bucket(reader.since))  BY <1>4, <3>1
    <3>3. Within(received, e, Bucket(reader.since)) = SumFunctionOnSet(received[e], T)  BY <3>1 DEF Within
    <3>4. Within(received, e, Bucket(reader.since))' = SumFunctionOnSet(received'[e], T)  BY <1>4, <3>1 DEF Within, Bucket
    <3>5. SumFunctionOnSet(received'[e], T) = SumFunctionOnSet(received[e], T) + IF h \in T THEN size[e] ELSE 0
      BY <1>1, <1>3, <3>2, PollReceives
    <3> QED  BY <3>2, <3>3, <3>4, <3>5
  <2>5. Rest(e)' = Rest(e) + IF h >= reader.since /\ reader.pc # "answered" THEN size[e] ELSE 0
    <3>1. CASE reader.pc = "answered"
      <4>1. Rest(e) = 0 /\ Rest(e)' = 0  BY <1>4, <3>1 DEF Rest
      <4> QED  BY <3>1, <4>1
    <3>2. CASE reader.pc # "answered"
      <4>1. PICK A : A = TailOf(ReadFrom, reader.since)'  OBVIOUS
      <4>2. PICK C : C = TailOf(ReadFrom, reader.since)  OBVIOUS
      <4>3. PICK p : p = ReadFrom /\ p = ReadFrom'  BY <1>4 DEF ReadFrom
      <4>4. p \in Nat /\ p <= watermark
        <5>1. CASE reader.pc = "tail"  BY <1>1, <1>5, <4>3, <5>1 DEF ReadFrom, ReaderInv
        <5>2. CASE reader.pc # "tail"  BY <1>5, <4>3, <5>2 DEF ReadFrom
        <5> QED  BY <5>1, <5>2
      <4>5. A = {i \in DOMAIN obs' : i > p /\ obs'[i].heard >= reader.since}  BY <1>4, <4>1, <4>3 DEF TailOf, Past
      <4>6. C = {i \in DOMAIN obs : i > p /\ obs[i].heard >= reader.since}  BY <4>2, <4>3 DEF TailOf, Past
      <4>7. C \subseteq DOMAIN obs  BY <4>6
      <4>8. Rest(e) = Crossings(C, e)  BY <3>2, <4>2 DEF Rest
      <4>9. Rest(e)' = Crossings(A, e)'  BY <1>4, <3>2, <4>1 DEF Rest, Crossings
      <4>10. Crossings(C, e)' = Crossings(C, e) /\ Crossings(C \cup new, e)' = Crossings(C, e) + size[e]
        BY <1>1, <1>2, <1>3, <4>7, PollMoves
      <4>11. /\ DOMAIN obs' = DOMAIN obs \cup new
             /\ \A i \in DOMAIN obs : obs'[i] = obs[i]
             /\ \A i \in new : i > p /\ obs'[i].heard = h
        BY <1>3, <1>5, <4>4 DEF Polled
      <4>12. CASE h >= reader.since
        <5>1. A = C \cup new  BY <4>5, <4>6, <4>11, <4>12
        <5>2. Crossings(A, e)' = Crossings(C \cup new, e)'  BY <5>1 DEF Crossings
        <5> QED  BY <3>2, <4>8, <4>9, <4>10, <4>12, <5>2
      <4>13. CASE ~(h >= reader.since)
        <5>1. A = C  BY <4>5, <4>6, <4>11, <4>13
        <5>2. Crossings(A, e)' = Crossings(C, e)'  BY <5>1 DEF Crossings
        <5> QED  BY <2>2, <3>2, <4>8, <4>9, <4>10, <4>13, <5>2
      <4> QED  BY <4>12, <4>13
    <3> QED  BY <3>1, <3>2
  <2>6. h >= reader.since => h >= Bucket(reader.since)
    <3>1. Bucket(reader.since) <= reader.since  BY <1>5, BucketOrder
    <3> QED  BY <1>4, <1>5, <2>2, <3>1
  <2>7. Within(reader.before, e, reader.since)' = Within(reader.before, e, reader.since)
        /\ Bucket(reader.since)' = Bucket(reader.since)
    BY <1>4 DEF Within, Bucket
  <2>8. reader'.links[e] + Rest(e)' <= Within(received, e, Bucket(reader.since))'
    BY <1>4, <2>1, <2>2, <2>3, <2>4, <2>5, <2>6 DEF Bracketed
  <2>9. watermark' = reader'.wmStart /\ Bucket(reader.since)' >= now' - RollupRetention =>
          Within(reader.before, e, reader.since)' <= reader'.links[e] + Rest(e)'
    BY <1>4, <2>1, <2>2, <2>3, <2>5, <2>7 DEF Bracketed
  <2> QED  BY <2>8, <2>9 DEF Bracketed
<1> QED  BY <1>4, <1>6, <1>8, <1>9 DEF ReaderInv

LEMMA IdleReaderType ==
    IdleReader \in [pc : {"idle"}, since : {0}, wm : {0}, links : [Links -> Nat],
                    before : [Links -> [Times -> Nat]], wmStart : {0}]
<1>1. NoLinks \in [Links -> Nat] /\ NoneReceived \in [Links -> [Times -> Nat]]  BY DEF NoLinks, NoneReceived
<1> QED  BY <1>1 DEF IdleReader

\* The queries of a read, each on the tables as they are.
LEMMA ReaderQueries ==
    ASSUME AnswerInv, LinksStart \/ ReadRollup \/ ReadWatermark \/ ReadTail PROVE ReaderInv'
<1>1. IInv /\ TableTypes /\ CountTypes /\ DaysCounted /\ TimesCounted /\ ReaderInv /\ ReaderTypes
  BY DEF AnswerInv, CountInv, IInv, ReaderInv
<1>2. UNCHANGED <<now, obs, rollup, watermark, received>>  BY Zenon DEF LinksStart, ReadRollup, ReadWatermark, ReadTail
<1>3. watermark \in Nat /\ reader.wmStart \in Nat /\ reader.since \in Nat /\ reader.wm \in Nat /\ now \in Nat
      /\ reader.links \in [Links -> Nat] /\ reader.before \in [Links -> [Times -> Nat]]
  BY <1>1 DEF ReaderTypes, TableTypes
<1>4. \A S, e : Crossings(S, e)' = Crossings(S, e)  BY <1>2, CrossingsStay
<1>5. ASSUME reader'.since = reader.since, reader'.before = reader.before, NEW e
      PROVE  /\ Within(received, e, Bucket(reader.since))' = Within(received, e, Bucket(reader.since))
             /\ Within(reader.before, e, reader.since)' = Within(reader.before, e, reader.since)
             /\ Bucket(reader.since)' = Bucket(reader.since)
  BY <1>2, <1>5 DEF Within, Bucket
<1>6. CASE LinksStart
  <2>1. PICK w \in Windows : w <= now /\
          reader' = [IdleReader EXCEPT !.pc = "rollup", !.since = now - w, !.before = received, !.wmStart = watermark]
    BY <1>6 DEF LinksStart
  <2>2. now - w \in Nat  BY <1>3, <2>1, MeshAssumption
  <2>3. PICK k \in Nat : k = now - w  BY <2>2
  <2>4. reader' \in [pc : {"rollup"}, since : Nat, wm : {0}, links : [Links -> Nat], before : {received}, wmStart : {watermark}]
    BY <2>1, <2>3, IdleReaderType
  <2>5. ReaderTypes'  BY <1>1, <1>3, <2>4 DEF ReaderTypes, CountTypes
  <2>6. reader'.pc = "rollup" /\ reader'.wmStart = watermark /\ reader'.before = received  BY <2>4
  <2>7. \A e \in Links, t \in Times : received[e][t] <= received[e][t]  BY <1>1 DEF CountTypes
  <2> QED  BY <1>2, <1>3, <2>5, <2>6, <2>7 DEF ReaderInv
<1>7. CASE ReadRollup
  <2> DEFINE sums == [e \in Links |-> RollupSum(e, reader.since)]
  <2>1. reader.pc = "rollup" /\ reader' = [reader EXCEPT !.pc = "watermark", !.links = sums]  BY <1>7 DEF ReadRollup
  <2>2. \A e \in Links : sums[e] = RollupSum(e, reader.since)  OBVIOUS
  <2>3. sums \in [Links -> Nat]  BY <1>1, <1>3, RollupBrackets
  <2> HIDE DEF sums
  <2>4. reader' \in [pc : {"watermark"}, since : {reader.since}, wm : {reader.wm}, links : {sums},
                     before : {reader.before}, wmStart : {reader.wmStart}]
    BY <1>1, <2>1 DEF ReaderTypes
  <2>5. ReaderTypes'  BY <1>3, <2>3, <2>4 DEF ReaderTypes
  <2>6. reader'.pc = "watermark" /\ reader'.wmStart = reader.wmStart /\ reader'.before = reader.before
        /\ reader'.since = reader.since /\ reader'.links = sums
    BY <2>4
  <2>7. ASSUME NEW e \in Links PROVE Bracketed(e)'
    <3>1. Rest(e)' = Crossings(TailOf(watermark, reader.since), e)
      <4>1. Rest(e)' = Crossings(TailOf(watermark, reader.since), e)'  BY <1>2, <2>6 DEF Rest, ReadFrom, Crossings, TailOf, Past
      <4>2. PICK S : S = TailOf(watermark, reader.since)  OBVIOUS
      <4>3. TailOf(watermark, reader.since)' = S  BY <1>2, <2>6, <4>2 DEF TailOf, Past
      <4>4. Rest(e)' = Crossings(S, e)'  BY <4>1, <4>3 DEF Crossings
      <4> QED  BY <1>4, <4>2, <4>4
    <3>2. /\ sums[e] + Rest(e)' <= Within(received, e, Bucket(reader.since))
          /\ Bucket(reader.since) >= now - RollupRetention => Within(received, e, reader.since) <= sums[e] + Rest(e)'
      BY <1>1, <1>3, <2>2, <3>1, RollupBrackets
    <3>3. Within(reader.before, e, reader.since) <= Within(received, e, reader.since)
      <4>1. PICK T : T = {t \in Times : t >= reader.since}  OBVIOUS
      <4>2. PICK f, g : f = reader.before[e] /\ g = received[e]  OBVIOUS
      <4>3. T \subseteq Times  BY <4>1
      <4>4. IsFiniteSet(T)  BY <4>3, TimesAreFinite, FS_Subset
      <4>5. \A t \in T : f[t] \in Nat /\ g[t] \in Nat /\ f[t] <= g[t]
        BY <1>1, <1>3, <2>1, <4>2, <4>3 DEF CountTypes, ReaderInv
      <4>6. SumFunctionOnSet(f, T) <= SumFunctionOnSet(g, T)  BY <4>4, <4>5, SumGrows
      <4> QED  BY <4>1, <4>2, <4>6 DEF Within
    <3>4. Within(reader.before, e, reader.since) \in Nat /\ Within(received, e, reader.since) \in Nat /\ sums[e] \in Nat
      BY <1>1, <1>3, <2>3, WithinType DEF CountTypes
    <3>5. Rest(e)' \in Nat  BY <1>1, <3>1, TailType
    <3>6. Bucket(reader.since) >= now - RollupRetention => Within(reader.before, e, reader.since) <= sums[e] + Rest(e)'
      BY <3>2, <3>3, <3>4, <3>5
    <3> QED  BY <1>2, <1>5, <2>6, <3>2, <3>6 DEF Bracketed
  <2>8. reader.wmStart <= watermark /\ \A e \in Links, t \in Times : reader.before[e][t] <= received[e][t]
    BY <1>1, <2>1 DEF ReaderInv
  <2> QED  BY <1>2, <2>5, <2>6, <2>7, <2>8 DEF ReaderInv
<1>8. CASE ReadWatermark
  <2>1. reader.pc = "watermark" /\ reader' = [reader EXCEPT !.pc = "tail", !.wm = watermark]  BY <1>8 DEF ReadWatermark
  <2>2. reader' \in [pc : {"tail"}, since : {reader.since}, wm : {watermark}, links : {reader.links},
                     before : {reader.before}, wmStart : {reader.wmStart}]
    BY <1>1, <2>1 DEF ReaderTypes
  <2>3. ReaderTypes'  BY <1>3, <2>2 DEF ReaderTypes
  <2>4. reader'.pc = "tail" /\ reader'.wmStart = reader.wmStart /\ reader'.before = reader.before
        /\ reader'.since = reader.since /\ reader'.links = reader.links /\ reader'.wm = watermark
    BY <2>2
  <2>5. ASSUME NEW e \in Links PROVE Bracketed(e)'
    <3>1. Bracketed(e)  BY <1>1, <2>1 DEF ReaderInv
    <3>2. Rest(e)' = Rest(e)
      <4>1. PICK S : S = TailOf(ReadFrom, reader.since)  OBVIOUS
      <4>2. ReadFrom = watermark /\ ReadFrom' = watermark  BY <2>1, <2>4 DEF ReadFrom
      <4>3. TailOf(ReadFrom, reader.since)' = S  BY <1>2, <2>4, <4>1, <4>2 DEF TailOf, Past
      <4>4. Rest(e)' = Crossings(S, e)'  BY <2>4, <4>3 DEF Rest, Crossings
      <4>5. Rest(e) = Crossings(S, e)  BY <2>1, <4>1 DEF Rest
      <4> QED  BY <1>4, <4>4, <4>5
    <3> QED  BY <1>2, <1>5, <2>4, <3>1, <3>2 DEF Bracketed
  <2>6. reader.wmStart <= watermark /\ \A e \in Links, t \in Times : reader.before[e][t] <= received[e][t]
    BY <1>1, <2>1 DEF ReaderInv
  <2> QED  BY <1>2, <1>3, <2>3, <2>4, <2>5, <2>6 DEF ReaderInv
<1>9. CASE ReadTail
  <2> DEFINE sums == [e \in Links |-> reader.links[e] + Crossings(TailOf(reader.wm, reader.since), e)]
  <2>1. reader.pc = "tail" /\ reader' = [reader EXCEPT !.pc = "answered", !.links = sums]  BY <1>9 DEF ReadTail
  <2>2. \A e \in Links : sums[e] = reader.links[e] + Rest(e)  BY <2>1 DEF Rest, ReadFrom
  <2>3. sums \in [Links -> Nat]  BY <1>1, <1>3, TailType
  <2> HIDE DEF sums
  <2>4. reader' \in [pc : {"answered"}, since : {reader.since}, wm : {reader.wm}, links : {sums},
                     before : {reader.before}, wmStart : {reader.wmStart}]
    BY <1>1, <2>1 DEF ReaderTypes
  <2>5. ReaderTypes'  BY <1>3, <2>3, <2>4 DEF ReaderTypes
  <2>6. reader'.pc = "answered" /\ reader'.wmStart = reader.wmStart /\ reader'.before = reader.before
        /\ reader'.since = reader.since /\ reader'.links = sums
    BY <2>4
  <2>7. ASSUME NEW e \in Links PROVE Bracketed(e)'
    <3>1. Bracketed(e)  BY <1>1, <2>1 DEF ReaderInv
    <3>2. Rest(e)' = 0  BY <2>6 DEF Rest
    <3>3. sums[e] + Rest(e)' = reader.links[e] + Rest(e)
      <4>1. sums[e] \in Nat  BY <2>3
      <4> QED  BY <2>2, <3>2, <4>1
    <3> QED  BY <1>2, <1>5, <2>6, <3>1, <3>3 DEF Bracketed
  <2>8. reader.wmStart <= watermark /\ \A e \in Links, t \in Times : reader.before[e][t] <= received[e][t]
    BY <1>1, <2>1 DEF ReaderInv
  <2> QED  BY <1>2, <2>5, <2>6, <2>7, <2>8 DEF ReaderInv
<1> QED  BY <1>6, <1>7, <1>8, <1>9

LEMMA IdleReaderInv == ASSUME reader = IdleReader PROVE ReaderInv
<1>1. reader \in [pc : {"idle"}, since : {0}, wm : {0}, links : [Links -> Nat],
                  before : [Links -> [Times -> Nat]], wmStart : {0}]
  BY IdleReaderType
<1>2. ReaderTypes /\ reader.pc = "idle"  BY <1>1 DEF ReaderTypes
<1> QED  BY <1>2 DEF ReaderInv

LEMMA IdleReaderAfter == ASSUME reader' = IdleReader PROVE ReaderInv'
<1>1. reader' \in [pc : {"idle"}, since : {0}, wm : {0}, links : [Links -> Nat],
                   before : [Links -> [Times -> Nat]], wmStart : {0}]
  BY IdleReaderType
<1>2. ReaderTypes' /\ reader'.pc = "idle"  BY <1>1 DEF ReaderTypes
<1> QED  BY <1>2 DEF ReaderInv

LEMMA NextAnswers ==
    ASSUME MaySilence = FALSE, AnswerInv, [Next]_vars PROVE AnswerInv'
<1>1. CountInv /\ CountInv'  BY NextCounts DEF AnswerInv
<1>2. TableTypes' /\ CountTypes'  BY <1>1 DEF CountInv, IInv
<1>3. CASE Poll  BY <1>1, <1>3, ReaderPolls DEF AnswerInv
<1>4. CASE LinksStart \/ ReadRollup \/ ReadWatermark \/ ReadTail  BY <1>1, <1>4, ReaderQueries DEF AnswerInv
<1>5. CASE Restart
  <2>1. reader' = IdleReader  BY <1>5 DEF Restart
  <2> QED  BY <1>1, <2>1, IdleReaderAfter DEF AnswerInv
<1>6. CASE CompactChunk
  <2>1. Shrinks  BY <1>1, <1>6, CompactCounts
  <2>2. reader' = reader /\ now' \in {now, now + 1}  BY <1>6, Zenon DEF CompactChunk
  <2> QED  BY <1>1, <1>2, <2>1, <2>2, ReaderShrunk DEF AnswerInv
<1>7. CASE Quiet /\ reader' = reader
  <2>1. Shrinks /\ now' \in {now, now + 1}  BY <1>7 DEF Quiet
  <2> QED  BY <1>1, <1>2, <1>7, <2>1, ReaderShrunk DEF AnswerInv
<1>8. LinksStart \/ ReadRollup \/ ReadWatermark \/ ReadTail \/ Restart \/ reader' = reader
  BY Zenon DEF Next, vars, Poll, RecordMeshTick, CompactChunk, MaintStart, CompactFails, PruneMeshObservations,
     PruneObservationsFails, PruneMeshLinkRollup, MaintEnds, Clock
<1> QED  BY <1>1, <1>3, <1>4, <1>5, <1>6, <1>7, <1>8, QuietSteps

(***************************************************************************)
(* MeshLinks' three queries: whatever the poller and the maintenance cycle *)
(* do between them, an answer counts no reception twice, and as long as no *)
(* compaction ran it misses none of the window.                            *)
(***************************************************************************)
THEOREM AnswerTheorem ==
    ASSUME MaySilence = FALSE
    PROVE  Spec => []AnswerIsBracketed
<1>1. Init => AnswerInv
  <2>1. Init => reader = IdleReader  BY DEF Init
  <2> QED  BY <2>1, InitCounts, IdleReaderInv DEF AnswerInv
<1>2. AnswerInv /\ [Next]_vars => AnswerInv'  BY NextAnswers
<1>3. AnswerInv => AnswerIsBracketed
  <2> SUFFICES ASSUME AnswerInv, reader.pc = "answered", NEW e \in Links
               PROVE  /\ reader.links[e] <= Within(received, e, Bucket(reader.since))
                      /\ watermark = reader.wmStart /\ Bucket(reader.since) >= now - RollupRetention =>
                            reader.links[e] >= Within(reader.before, e, reader.since)
    BY DEF AnswerIsBracketed
  <2>1. TableTypes /\ CountTypes /\ ReaderTypes /\ Bracketed(e)  BY DEF AnswerInv, CountInv, IInv, ReaderInv
  <2>2. reader.links[e] \in Nat /\ Within(reader.before, e, reader.since) \in Nat  BY <2>1, BracketTypes
  <2>3. Rest(e) = 0  BY DEF Rest
  <2>4. reader.links[e] + Rest(e) = reader.links[e]  BY <2>2, <2>3
  <2> QED  BY <2>1, <2>2, <2>4 DEF Bracketed
<1> QED  BY <1>1, <1>2, <1>3, PTL DEF Spec

-----------------------------------------------------------------------------
\* A chunk that is not full is all of the pending rows.
LEMMA ShortChunkIsAll ==
    ASSUME TableTypes, Cardinality(Chunk) < MaxCompactBatch PROVE Past(watermark) \subseteq Chunk
<1> DEFINE missed == Past(watermark) \ Chunk
<1>1. Past(watermark) \subseteq DOMAIN obs /\ Past(watermark) \subseteq Nat /\ Chunk \subseteq Past(watermark)
  BY DEF Past, Chunk, TableTypes
<1>2. ASSUME missed # {} PROVE FALSE
  <2>1. missed \subseteq Nat  BY <1>1
  <2>2. PICK i \in missed : \A k \in missed : i <= k
    <3> HIDE DEF missed
    <3> QED  BY <1>2, <2>1, NatMinimum
  <2>3. PICK L : L = {j \in Past(watermark) : j < i}  OBVIOUS
  <2>4. L \subseteq Chunk
    <3>1. \A j \in Past(watermark) : j < i => j \notin missed  BY <1>1, <2>1, <2>2
    <3> QED  BY <2>3, <3>1
  <2>5. IsFiniteSet(Chunk)
    <3>1. Chunk \subseteq DOMAIN obs  BY <1>1
    <3> QED  BY <3>1, FS_Subset DEF TableTypes
  <2>6. IsFiniteSet(L) /\ Cardinality(L) <= Cardinality(Chunk)  BY <2>4, <2>5, FS_Subset
  <2>7. Cardinality(L) \in Nat /\ Cardinality(Chunk) \in Nat  BY <2>5, <2>6, FS_CardinalityType
  <2>8. Cardinality(L) < MaxCompactBatch  BY <2>6, <2>7, MeshAssumption
  <2>9. i \in Chunk  BY <2>2, <2>3, <2>8 DEF Chunk
  <2> QED  BY <2>2, <2>9
<1> QED  BY <1>2

\* Where the compaction is over and did not fail, the last chunk was not full.
LEMMA CompactedAll ==
    ASSUME IInv, [Next]_vars, IInv', maint.pc = "compact", maint'.pc = "pruneObservations", ~maint'.failed,
           NEW i \in DOMAIN obs'
    PROVE  obs'[i].rolled = 1
<1>1. TableTypes  BY DEF IInv
<1>2. CompactChunk
  <2>1. maint' # maint  BY Zenon
  <2>2. \/ MaintStart \/ CompactChunk \/ CompactFails \/ PruneMeshObservations
        \/ PruneObservationsFails \/ maint' = IdleMaint
    BY <2>1, Zenon DEF Next, vars, Poll, RecordMeshTick, PruneMeshLinkRollup, MaintEnds,
       LinksStart, ReadRollup, ReadWatermark, ReadTail, Restart, Clock
  <2>3. ~(maint' = IdleMaint)  BY DEF IdleMaint
  <2>4. ~CompactFails
    <3> SUFFICES ASSUME CompactFails PROVE FALSE  OBVIOUS
    <3>1. maint' = [maint EXCEPT !.pc = "pruneObservations", !.failed = TRUE]  BY DEF CompactFails
    <3>2. maint'.failed = TRUE  BY <1>1, <3>1 DEF TableTypes
    <3> QED  BY <3>2
  <2>5. ~MaintStart /\ ~PruneMeshObservations /\ ~PruneObservationsFails
    BY DEF MaintStart, PruneMeshObservations, PruneObservationsFails
  <2> QED  BY <2>2, <2>3, <2>4, <2>5
<1>3. PICK wm \in DOMAIN obs \cup {watermark} : Advanced(Chunk, wm) /\ watermark' = wm
  BY <1>2, Zenon DEF CompactChunk
<1>4. DOMAIN obs' = DOMAIN obs
  <2>1. obs' = [k \in DOMAIN obs |-> [obs[k] EXCEPT !.rolled = @ + IF k \in Chunk THEN 1 ELSE 0]]
    BY <1>2, Zenon DEF CompactChunk
  <2> QED  BY <2>1
<1>5. AfterChunk(Chunk) = "pruneObservations"
  <2>1. maint' = [maint EXCEPT !.pc = AfterChunk(Chunk)]  BY <1>2, Zenon DEF CompactChunk
  <2> QED  BY <1>1, <2>1 DEF TableTypes
<1>6. Past(watermark) \subseteq Chunk  BY <1>1, <1>5, ShortChunkIsAll DEF AfterChunk
<1>7. i \in Nat /\ watermark \in Nat /\ wm \in Nat /\ wm >= watermark /\ (i > watermark => i <= wm)
  <2>1. i \in DOMAIN obs  BY <1>4
  <2>2. i > watermark => i \in Chunk  BY <1>6, <2>1 DEF Past
  <2> QED  BY <1>1, <1>3, <2>1, <2>2, ChunkIsFolded
<1>8. i <= watermark'  BY <1>3, <1>7
<1> QED  BY <1>8 DEF IInv, WatermarkSplits

(***************************************************************************)
(* CompactMeshObservations: when it reports success every row of the table *)
(* has been folded, once, those stored when the cycle began among them.    *)
(***************************************************************************)
THEOREM CatchUpTheorem ==
    ASSUME MaySilence = FALSE
    PROVE  Spec => CompactionCatchesUp
<1>1. IInv /\ IInv' /\ [Next]_vars =>
        [maint.pc = "compact" /\ maint'.pc = "pruneObservations" /\ ~maint'.failed =>
            \A i \in DOMAIN obs' : i <= maint.upTo => obs'[i].rolled = 1]_vars
  BY CompactedAll
<1>2. Spec => []IInv  BY WatermarkTheorem
<1> QED  BY <1>1, <1>2, PTL DEF Spec, CompactionCatchesUp

-----------------------------------------------------------------------------
(***************************************************************************)
(* The telemetry archive.  A row of a monitor is never older than what the *)
(* archive has of it, and what is still in a mailbox is newer than both.   *)
(***************************************************************************)
\* A finite set has an element that none precedes in a strict order.
LEMMA FiniteMaximal ==
    ASSUME NEW S, IsFiniteSet(S), S # {}, NEW R,
           \A x \in S : <<x, x>> \notin R,
           \A x, y, z \in S : <<x, y>> \in R /\ <<y, z>> \in R => <<x, z>> \in R
    PROVE  \E m \in S : \A o \in S : <<o, m>> \notin R
<1> DEFINE Above(x) == {o \in S : <<o, x>> \in R}
           rank == [x \in S |-> Cardinality(Above(x))]
           T == {rank[x] : x \in S}
<1>1. \A x \in S : IsFiniteSet(Above(x)) /\ rank[x] \in Nat
  <2> SUFFICES ASSUME NEW x \in S PROVE IsFiniteSet(Above(x)) /\ rank[x] \in Nat  OBVIOUS
  <2>1. Above(x) \in SUBSET S  OBVIOUS
  <2>2. IsFiniteSet(Above(x))  BY <2>1, FS_Subset
  <2>3. rank[x] = Cardinality(Above(x))  OBVIOUS
  <2> QED  BY <2>2, <2>3, FS_CardinalityType
<1>2. \A x, y \in S : <<y, x>> \in R => rank[y] < rank[x]
  <2> SUFFICES ASSUME NEW x \in S, NEW y \in S, <<y, x>> \in R PROVE rank[y] < rank[x]  OBVIOUS
  <2>1. Above(y) \in SUBSET Above(x) /\ Above(x) # Above(y)
    <3>1. y \in Above(x) /\ y \notin Above(y)  OBVIOUS
    <3> QED  BY <3>1
  <2>2. IsFiniteSet(Above(x)) /\ rank[x] \in Nat /\ rank[y] \in Nat  BY <1>1
  <2>3. rank[x] = Cardinality(Above(x)) /\ rank[y] = Cardinality(Above(y))  OBVIOUS
  <2> HIDE DEF rank, Above
  <2>4. rank[y] <= rank[x] /\ rank[x] # rank[y]  BY <2>1, <2>2, <2>3, FS_Subset
  <2> QED  BY <2>2, <2>4
<1> HIDE DEF rank, Above
<1>3. T \subseteq Nat /\ T # {}  BY <1>1
<1>4. PICK n \in T : \A k \in T : n <= k  BY <1>3, NatMinimum
<1>5. PICK m \in S : n = rank[m]  OBVIOUS
<1>6. \A o \in S : ~(rank[o] < rank[m])  BY <1>1, <1>4, <1>5
<1> QED  BY <1>2, <1>6

Monitors == DOMAIN Monitor
ArchiveReport == [at : Nat, success : Nat, received : Nat]
Sample == [at : Nat \ {0}, success : Nat, reporter : Monitors]
ArchiveRow == [key : {"full", "prefix"}, at : Nat, success : Nat, reporter : Monitors]
ArchiveWorld ==
    [now : Nat \ {0}, read : [Monitors -> Nat], box : [Monitors -> ArchiveReport], admin : {NoAdmin} \cup Sample,
     advertised : BOOLEAN, provisional : BOOLEAN, skewed : SUBSET Monitors, split : SUBSET (Monitors \X Nat)]

ArchiveTypes == part = "archive" /\ world \in ArchiveWorld /\ live \subseteq ArchiveRow

\* The primary key of the table.
KeyedRows(rows) == \A r, s \in rows : r.key = s.key /\ r.at = s.at => r = s

\* The rows of one monitor are in the order of its readings, and one reading is
\* one row unless a failed rename left it under the prefix.
RowsInOrder(rows, skewed, split) ==
    \A r, s \in rows : r.reporter = s.reporter /\ r.reporter \notin skewed =>
        /\ r.at < s.at => r.success <= s.success
        /\ r.success = s.success => r = s \/ <<r.reporter, r.success>> \in split

\* A sample is no older than any row of its monitor.
Newest(rows, m, at, success) == \A r \in rows : r.reporter = m => r.at <= at /\ r.success <= success

\* What a monitor reported is no older than any row of it, nor than what is carried.
ReportInTime(m) ==
    world.box[m] # NoReport => world.box[m].success <= world.read[m] /\ Newest(live, m, world.box[m].at, world.box[m].success)
CarriedInTime(m) ==
    world.admin # NoAdmin /\ world.admin.reporter = m =>
        /\ world.admin.success <= world.read[m] /\ Newest(live, m, world.admin.at, world.admin.success)
        /\ world.box[m] # NoReport => world.admin.at <= world.box[m].at /\ world.admin.success <= world.box[m].success

\* Readings, reports and the sample a tick picks are in the order they were made,
\* but of a monitor whose clock was wrong.
ReadsInTime ==
    /\ \A m \in Monitors : world.box[m] # NoReport => world.box[m].at \in 1 .. world.now
    /\ world.admin # NoAdmin => world.admin.at <= world.now
    /\ \A m \in Monitors \ world.skewed :
         /\ world.read[m] <= world.now /\ Newest(live, m, world.now, world.read[m])
         /\ ReportInTime(m) /\ CarriedInTime(m)

\* Once the node is known in full, what is under the prefix was left by a failed rename.
PromotedOnce ==
    \A r \in live : r.key = "prefix" => world.provisional \/ <<r.reporter, r.success>> \in world.split

ArchiveInv ==
    ArchiveTypes /\ KeyedRows(live) /\ RowsInOrder(live, world.skewed, world.split) /\ ReadsInTime /\ PromotedOnce

LEMMA ArchiveInitInv == ASSUME part = "archive", NEW first \in Monitors, ArchiveInit(first) PROVE ArchiveInv
<1>1. world = [now |-> 1, read |-> [m \in Monitors |-> IF m = first THEN 1 ELSE 0],
                box |-> [m \in Monitors |-> NoReport], admin |-> NoAdmin, advertised |-> FALSE, provisional |-> TRUE,
                skewed |-> {}, split |-> {}]
  BY DEF ArchiveInit, Monitors
<1>2. live = {[key |-> "prefix", at |-> 1, success |-> 1, reporter |-> first]}  BY DEF ArchiveInit
<1>3. NoReport \in ArchiveReport  BY DEF NoReport, ArchiveReport
<1>4. ArchiveTypes  BY <1>1, <1>2, <1>3 DEF ArchiveTypes, ArchiveWorld, ArchiveRow
<1>5. KeyedRows(live) /\ RowsInOrder(live, world.skewed, world.split)  BY <1>2 DEF KeyedRows, RowsInOrder
<1>6. world.now = 1 /\ world.admin = NoAdmin /\ world.provisional /\ \A m \in Monitors : world.box[m] = NoReport
      /\ world.read[m] = IF m = first THEN 1 ELSE 0
  BY <1>1
<1>7. ReadsInTime  BY <1>2, <1>6 DEF ReadsInTime, ReportInTime, CarriedInTime, Newest
<1> QED  BY <1>4, <1>5, <1>6, <1>7 DEF ArchiveInv, PromotedOnce

\* A step that leaves the rows or drops some.
LEMMA PruneStep == ArchiveInv /\ PruneTick => ArchiveInv'
<1> SUFFICES ASSUME ArchiveInv, PruneTick PROVE ArchiveInv'  OBVIOUS
<1>1. live' \subseteq live /\ world' = world /\ part' = part  BY DEF PruneTick
<1>2. ReadsInTime'  BY <1>1 DEF ArchiveInv, ReadsInTime, ReportInTime, CarriedInTime, Newest
<1>3. KeyedRows(live')  BY <1>1 DEF ArchiveInv, KeyedRows
<1>4. RowsInOrder(live', world'.skewed, world'.split)  BY <1>1 DEF ArchiveInv, RowsInOrder
<1> QED  BY <1>1, <1>2, <1>3, <1>4 DEF ArchiveInv, ArchiveTypes, PromotedOnce

LEMMA RestartStep == ArchiveInv /\ ServiceRestart => ArchiveInv'
<1> SUFFICES ASSUME ArchiveInv, ServiceRestart PROVE ArchiveInv'  OBVIOUS
<1>0. world \in ArchiveWorld /\ live' = live /\ part' = part  BY DEF ArchiveInv, ArchiveTypes, ServiceRestart
<1>1. world' = [world EXCEPT !.box = [m \in Monitors |-> NoReport]]  BY DEF ServiceRestart, Monitors
<1>2. /\ world'.now = world.now /\ world'.read = world.read /\ world'.admin = world.admin
      /\ world'.skewed = world.skewed /\ world'.split = world.split
      /\ world'.provisional = world.provisional /\ world'.box = [m \in Monitors |-> NoReport]
  BY <1>0, <1>1 DEF ArchiveWorld
<1>3. NoReport \in ArchiveReport  BY DEF NoReport, ArchiveReport
<1>4. world' \in ArchiveWorld  BY <1>0, <1>1, <1>3 DEF ArchiveWorld
<1>5. \A m \in Monitors : world'.box[m] = NoReport  BY <1>2
<1>6. ReadsInTime'
  <2>1. \A m \in Monitors \ world.skewed : ReportInTime(m)'  BY <1>5 DEF ReportInTime
  <2>2. \A m \in Monitors \ world.skewed : CarriedInTime(m)'
    BY <1>0, <1>2, <1>5 DEF ArchiveInv, ReadsInTime, CarriedInTime, Newest
  <2> QED  BY <1>0, <1>2, <1>5, <2>1, <2>2 DEF ArchiveInv, ReadsInTime, Newest
<1> QED  BY <1>0, <1>2, <1>4, <1>6 DEF ArchiveInv, ArchiveTypes, PromotedOnce

LEMMA ReadStep == ASSUME ArchiveInv, NEW m \in Monitors, NEW at \in Nat, MonitorReads(m, at) PROVE ArchiveInv'
<1>0. world \in ArchiveWorld /\ live' = live /\ part' = part  BY DEF ArchiveInv, ArchiveTypes, MonitorReads
<1> DEFINE skewed == IF world.read[m] <= at /\ at <= world.now THEN world.skewed ELSE world.skewed \cup {m}
<1>1. world' = [world EXCEPT !.read[m] = at, !.skewed = skewed]  BY DEF MonitorReads
<1>s. skewed \in SUBSET Monitors /\ world.skewed \subseteq skewed
      /\ (m \notin skewed => world.read[m] <= at /\ at <= world.now)
  BY <1>0 DEF ArchiveWorld
<1> HIDE DEF skewed
<1>2. /\ world'.now = world.now /\ world'.box = world.box /\ world'.admin = world.admin /\ world'.split = world.split
      /\ world'.provisional = world.provisional /\ world'.read = [world.read EXCEPT ![m] = at]
      /\ world'.skewed = skewed
  BY <1>0, <1>1 DEF ArchiveWorld
<1>4. world' \in ArchiveWorld  BY <1>0, <1>1, <1>s DEF ArchiveWorld
<1>5. \A o \in Monitors : world'.read[o] = IF o = m THEN at ELSE world.read[o]  BY <1>0, <1>2 DEF ArchiveWorld
<1>a. \A o \in Monitors : world.read[o] \in Nat /\ world.now \in Nat /\ world.box[o] \in ArchiveReport BY <1>0 DEF ArchiveWorld
<1>b. \A r \in live : r.success \in Nat /\ r.at \in Nat  BY DEF ArchiveInv, ArchiveTypes, ArchiveRow
<1>c. world.admin # NoAdmin => world.admin.success \in Nat  BY <1>0 DEF ArchiveWorld, Sample
<1>6. \A o \in Monitors \ skewed : world.read[o] <= world'.read[o] /\ world'.read[o] <= world.now
  BY <1>s, <1>5, <1>a DEF ArchiveInv, ReadsInTime
<1>7. ReadsInTime'
  <2> SUFFICES ASSUME NEW o \in Monitors \ skewed
               PROVE  Newest(live, o, world.now, world'.read[o]) /\ ReportInTime(o)' /\ CarriedInTime(o)'
    BY <1>0, <1>2, <1>6 DEF ArchiveInv, ReadsInTime, Newest
  <2>1. o \notin world.skewed /\ world'.read[o] \in Nat /\ world.read[o] <= world'.read[o]  BY <1>s, <1>4, <1>6 DEF ArchiveWorld
  <2>2. Newest(live, o, world.now, world'.read[o])  BY <1>a, <1>b, <2>1 DEF ArchiveInv, ReadsInTime, Newest
  <2>3. ReportInTime(o)'
    <3>1. world.box[o] # NoReport => world.box[o].success <= world'.read[o]
      BY <1>a, <2>1 DEF ArchiveInv, ReadsInTime, ReportInTime, ArchiveReport
    <3> QED  BY <1>0, <1>2, <2>1, <3>1 DEF ArchiveInv, ReadsInTime, ReportInTime, Newest
  <2>4. CarriedInTime(o)'
    <3>1. world.admin # NoAdmin /\ world.admin.reporter = o => world.admin.success <= world'.read[o]
      BY <1>a, <1>c, <2>1 DEF ArchiveInv, ReadsInTime, CarriedInTime
    <3> QED  BY <1>0, <1>2, <2>1, <3>1 DEF ArchiveInv, ReadsInTime, CarriedInTime, Newest
  <2> QED  BY <2>2, <2>3, <2>4
<1>8. RowsInOrder(live, skewed, world.split)  BY <1>s DEF ArchiveInv, RowsInOrder
<1>9. RowsInOrder(live, world.skewed, world.split)'  BY <1>0, <1>2, <1>8 DEF RowsInOrder
<1> QED  BY <1>0, <1>2, <1>4, <1>7, <1>9 DEF ArchiveInv, ArchiveTypes, KeyedRows, PromotedOnce

LEMMA ReportStep ==
    ASSUME ArchiveInv, NEW m \in Monitors, NEW at \in Nat \ {0}, MonitorReports(m, at)
    PROVE  ArchiveInv'
<1>0. world \in ArchiveWorld /\ live' = live /\ part' = part /\ world.now \in Nat \ {0}
  BY DEF ArchiveInv, ArchiveTypes, MonitorReports, ArchiveWorld
<1> DEFINE stamp == ClampReading(at)
           success == ClampReading(world.read[m])
           report == [at |-> stamp, success |-> success, received |-> world.now]
           skewed == IF StampedBack(m, at) THEN world.skewed \cup {m} ELSE world.skewed
<1>1. stamp \in 1 .. world.now /\ success \in Nat /\ (m \notin world.skewed => success = world.read[m])
  BY <1>0 DEF ClampReading, ArchiveWorld, ArchiveInv, ReadsInTime
<1>2. world' = [world EXCEPT !.box[m] = report, !.skewed = skewed]
  BY <1>0 DEF MonitorReports, IngestMesh, ArchiveWorld
<1>3. report \in ArchiveReport /\ report # NoReport /\ report.at = stamp /\ report.success = success
  BY <1>0, <1>1 DEF ArchiveReport, NoReport
<1>s. /\ skewed \in SUBSET Monitors /\ world.skewed \subseteq skewed
      /\ m \notin skewed => /\ \A r \in live : r.reporter = m => ~(stamp < r.at)
                            /\ world.admin # NoAdmin /\ world.admin.reporter = m => ~(stamp < world.admin.at)
  BY <1>0 DEF StampedBack, ArchiveWorld
<1> HIDE DEF report, stamp, success, skewed
<1>4. /\ world'.now = world.now /\ world'.read = world.read /\ world'.admin = world.admin /\ world'.split = world.split
      /\ world'.provisional = world.provisional /\ world'.box = [world.box EXCEPT ![m] = report]
      /\ world'.skewed = skewed
  BY <1>0, <1>2 DEF ArchiveWorld
<1>5. world' \in ArchiveWorld  BY <1>0, <1>2, <1>3, <1>s DEF ArchiveWorld
<1>6. \A o \in Monitors : world'.box[o] = IF o = m THEN report ELSE world.box[o]  BY <1>0, <1>4 DEF ArchiveWorld
<1>b. \A r \in live : r.success \in Nat /\ r.at \in Nat  BY DEF ArchiveInv, ArchiveTypes, ArchiveRow
<1>c. world.admin # NoAdmin => world.admin.at \in Nat /\ world.admin.success \in Nat  BY <1>0 DEF ArchiveWorld, Sample
<1>7. ReadsInTime'
  <2>1. \A o \in Monitors : world'.box[o] # NoReport => world'.box[o].at \in 1 .. world.now
    BY <1>1, <1>3, <1>6 DEF ArchiveInv, ReadsInTime
  <2>2. ASSUME NEW o \in Monitors \ skewed
        PROVE  ReportInTime(o)' /\ CarriedInTime(o)'
    <3>1. o \notin world.skewed  BY <1>s, <2>2
    <3>2. CASE o # m
      <4>1. world'.box[o] = world.box[o]  BY <1>6, <3>2
      <4> QED  BY <1>0, <1>4, <3>1, <4>1 DEF ArchiveInv, ReadsInTime, ReportInTime, CarriedInTime, Newest
    <3>3. CASE o = m
      <4>1. world'.box[o] = report /\ success = world.read[m] /\ world.read[m] \in Nat
        BY <1>0, <1>1, <1>6, <3>1, <3>3 DEF ArchiveWorld
      <4>2. Newest(live, m, stamp, success)
        BY <1>1, <1>b, <1>s, <2>2, <3>1, <3>3, <4>1 DEF ArchiveInv, ReadsInTime, Newest
      <4>3. ReportInTime(o)'  BY <1>0, <1>3, <1>4, <3>3, <4>1, <4>2 DEF ReportInTime, Newest
      <4>4. world.admin # NoAdmin /\ world.admin.reporter = m => world.admin.at <= stamp /\ world.admin.success <= success
        BY <1>1, <1>c, <1>s, <2>2, <3>1, <3>3, <4>1 DEF ArchiveInv, ReadsInTime, CarriedInTime
      <4>5. CarriedInTime(o)'
        BY <1>0, <1>3, <1>4, <3>1, <3>3, <4>1, <4>4 DEF ArchiveInv, ReadsInTime, CarriedInTime, Newest
      <4> QED  BY <4>3, <4>5
    <3> QED  BY <3>2, <3>3
  <2> QED  BY <1>0, <1>4, <1>s, <2>1, <2>2 DEF ArchiveInv, ReadsInTime, Newest
<1>8. RowsInOrder(live, skewed, world.split)  BY <1>s DEF ArchiveInv, RowsInOrder
<1>9. RowsInOrder(live, world.skewed, world.split)'  BY <1>0, <1>4, <1>8 DEF RowsInOrder
<1> QED  BY <1>0, <1>4, <1>5, <1>7, <1>9 DEF ArchiveInv, ArchiveTypes, KeyedRows, PromotedOnce

LEMMA AdvertStep == ArchiveInv /\ AdvertHeard => ArchiveInv'
<1> SUFFICES ASSUME ArchiveInv, AdvertHeard PROVE ArchiveInv'  OBVIOUS
<1>0. world \in ArchiveWorld /\ live' = live /\ part' = part  BY DEF ArchiveInv, ArchiveTypes, AdvertHeard
<1>1. world' = [world EXCEPT !.advertised = TRUE]  BY DEF AdvertHeard
<1>2. /\ world' \in ArchiveWorld /\ world'.now = world.now /\ world'.read = world.read /\ world'.admin = world.admin
      /\ world'.provisional = world.provisional /\ world'.box = world.box
      /\ world'.skewed = world.skewed /\ world'.split = world.split
  BY <1>0, <1>1 DEF ArchiveWorld
<1>3. ReadsInTime'  BY <1>0, <1>2 DEF ArchiveInv, ReadsInTime, ReportInTime, CarriedInTime, Newest
<1> QED  BY <1>0, <1>2, <1>3 DEF ArchiveInv, ArchiveTypes, PromotedOnce

LEMMA ClockStep == ArchiveInv /\ ArchiveClock => ArchiveInv'
<1> SUFFICES ASSUME ArchiveInv, ArchiveClock PROVE ArchiveInv'  OBVIOUS
<1>0. world \in ArchiveWorld /\ live' = live /\ part' = part /\ world.now \in Nat \ {0}
  BY DEF ArchiveInv, ArchiveTypes, ArchiveClock, ArchiveWorld
<1>1. world' = [world EXCEPT !.now = @ + 1]  BY DEF ArchiveClock
<1>a. world.now + 1 \in Nat \ {0}  BY <1>0
<1>2. /\ world' \in ArchiveWorld /\ world'.now = world.now + 1 /\ world'.read = world.read /\ world'.admin = world.admin
      /\ world'.provisional = world.provisional /\ world'.box = world.box
      /\ world'.skewed = world.skewed /\ world'.split = world.split
  BY <1>0, <1>1, <1>a DEF ArchiveWorld
<1>3. \A r \in live : r.success \in Nat /\ r.at \in Nat  BY DEF ArchiveInv, ArchiveTypes, ArchiveRow
<1>4. \A m \in Monitors : world.read[m] \in Nat /\ world.box[m].at \in Nat  BY <1>0 DEF ArchiveWorld, ArchiveReport
<1>5. world.admin # NoAdmin => world.admin.at \in Nat  BY <1>0 DEF ArchiveWorld, Sample
<1>6. ReadsInTime'
  <2>1. \A m \in Monitors \ world.skewed : world.read[m] <= world.now + 1 /\ Newest(live, m, world.now + 1, world.read[m])
    BY <1>0, <1>3, <1>4 DEF ArchiveInv, ReadsInTime, Newest
  <2>2. \A m \in Monitors : world.box[m] # NoReport => world.box[m].at \in 1 .. (world.now + 1)
    BY <1>0, <1>4 DEF ArchiveInv, ReadsInTime
  <2>3. world.admin # NoAdmin => world.admin.at <= world.now + 1  BY <1>0, <1>5 DEF ArchiveInv, ReadsInTime
  <2>4. \A m \in Monitors \ world.skewed : ReportInTime(m)' /\ CarriedInTime(m)'
    BY <1>0, <1>2 DEF ArchiveInv, ReadsInTime, ReportInTime, CarriedInTime, Newest
  <2> QED  BY <1>0, <1>2, <2>1, <2>2, <2>3, <2>4 DEF ReadsInTime, Newest
<1> QED  BY <1>0, <1>2, <1>6 DEF ArchiveInv, ArchiveTypes, PromotedOnce

\* meshTelemetry has a freshest report to choose.
LEMMA BestReport ==
    ASSUME world \in ArchiveWorld, Reports # {}
    PROVE  \E best \in Reports : AdminReading = [at |-> world.box[best].at, success |-> world.box[best].success, reporter |-> best]
<1> DEFINE R == {p \in Monitors \X Monitors : Fresher(p[1], p[2])}
<1>1. Reports \subseteq Monitors  BY DEF Reports, Monitors
<1>2. IsFiniteSet(Reports)  BY <1>1, MonitorAssumption, FS_Subset DEF Monitors
<1>3. \A m \in Monitors : world.box[m].success \in Nat /\ Monitor[m] \in Int
  BY MonitorAssumption DEF ArchiveWorld, ArchiveReport, Monitors
<1>4. \A x \in Reports : <<x, x>> \notin R  BY <1>1, <1>3 DEF Fresher
<1>5. \A x, y, z \in Monitors : Fresher(x, y) /\ Fresher(y, z) => Fresher(x, z)  BY <1>3 DEF Fresher
<1>6. \A x, y, z \in Reports : <<x, y>> \in R /\ <<y, z>> \in R => <<x, z>> \in R  BY <1>1, <1>5
<1>7. PICK m \in Reports : \A o \in Reports : <<o, m>> \notin R
  <2> HIDE DEF R
  <2> QED  BY <1>2, <1>4, <1>6, FiniteMaximal
<1>8. \A o \in Reports : ~Fresher(o, m)  BY <1>1, <1>7
<1>9. \A o \in Reports \ {m} : Fresher(m, o)
  BY <1>1, <1>3, <1>8, MonitorAssumption DEF Fresher, Monitors
<1> DEFINE best == CHOOSE b \in Reports : \A o \in Reports \ {b} : Fresher(b, o)
<1>10. best \in Reports  BY <1>9
<1>11. AdminReading = [at |-> world.box[best].at, success |-> world.box[best].success, reporter |-> best]
  BY DEF AdminReading
<1> HIDE DEF best
<1> QED  BY <1>10, <1>11

\* What the tick archives is of a monitor, and older than nothing of it.
LEMMA SampleIsNewest ==
    ASSUME ArchiveInv, AdminReading # NoAdmin
    PROVE  LET s == AdminReading IN
           /\ s \in Sample /\ s.at <= world.now
           /\ s.reporter \notin world.skewed =>
                /\ s.success <= world.read[s.reporter] /\ Newest(live, s.reporter, s.at, s.success)
                /\ world.box[s.reporter] # NoReport =>
                     s.at <= world.box[s.reporter].at /\ s.success <= world.box[s.reporter].success
<1>0. world \in ArchiveWorld  BY DEF ArchiveInv, ArchiveTypes
<1>1. CASE Reports # {}
  <2>1. PICK b \in Reports : AdminReading = [at |-> world.box[b].at, success |-> world.box[b].success, reporter |-> b]
    BY <1>0, <1>1, BestReport
  <2>2. b \in Monitors /\ world.box[b] \in ArchiveReport /\ world.box[b].success # 0 /\ world.read[b] \in Nat
    BY <1>0 DEF Reports, Monitors, ArchiveWorld
  <2>3. world.box[b] # NoReport  BY <2>2 DEF NoReport
  <2>4. AdminReading.at = world.box[b].at /\ AdminReading.success = world.box[b].success /\ AdminReading.reporter = b
    BY <2>1
  <2>5. world.box[b].at \in 1 .. world.now /\ world.now \in Nat  BY <1>0, <2>2, <2>3 DEF ArchiveInv, ReadsInTime, ArchiveWorld
  <2>6. AdminReading \in Sample  BY <2>1, <2>2, <2>5 DEF Sample, ArchiveReport
  <2>7. world.box[b].at <= world.now  BY <2>5
  <2>8. b \notin world.skewed =>
          /\ world.box[b].success <= world.read[b] /\ Newest(live, b, world.box[b].at, world.box[b].success)
          /\ world.box[b].at <= world.box[b].at /\ world.box[b].success <= world.box[b].success
    BY <2>2, <2>3, <2>5 DEF ArchiveInv, ReadsInTime, ReportInTime, ArchiveReport
  <2> QED  BY <2>4, <2>6, <2>7, <2>8
<1>2. CASE Reports = {}
  <2>1. AdminReading = world.admin  BY <1>2 DEF AdminReading
  <2>2. world.admin \in Sample  BY <1>0, <2>1 DEF ArchiveWorld
  <2>3. world.admin.reporter \in Monitors  BY <2>2 DEF Sample
  <2> QED  BY <2>1, <2>2, <2>3 DEF ArchiveInv, ReadsInTime, CarriedInTime
<1> QED  BY <1>1, <1>2

LEMMA RenameKeepsOrder ==
    ASSUME NEW rows, rows \subseteq ArchiveRow, KeyedRows(rows), NEW skewed, NEW split, RowsInOrder(rows, skewed, split)
    PROVE  LET renamed == RenameMeshTelemetryPubKey(rows) IN
           /\ renamed \subseteq ArchiveRow /\ KeyedRows(renamed) /\ RowsInOrder(renamed, skewed, split)
           /\ \A r \in renamed : r.key = "full"
           /\ \A r \in renamed : \E p \in rows : p.at = r.at /\ p.success = r.success /\ p.reporter = r.reporter
<1> DEFINE renamed == RenameMeshTelemetryPubKey(rows)
<1>1. \A r \in renamed : /\ r \in ArchiveRow /\ r.key = "full"
                         /\ \E p \in rows : /\ p.at = r.at /\ p.success = r.success /\ p.reporter = r.reporter
                                            /\ \/ p.key = "full"
                                               \/ p.key = "prefix" /\ ~\E f \in rows : f.key = "full" /\ f.at = p.at
  <2> SUFFICES ASSUME NEW r \in renamed
               PROVE  /\ r \in ArchiveRow /\ r.key = "full"
                      /\ \E p \in rows : /\ p.at = r.at /\ p.success = r.success /\ p.reporter = r.reporter
                                         /\ \/ p.key = "full"
                                            \/ p.key = "prefix" /\ ~\E f \in rows : f.key = "full" /\ f.at = p.at
    OBVIOUS
  <2>1. CASE r \in rows /\ r.key = "full"  BY <2>1
  <2>2. CASE \E p \in rows : /\ p.key = "prefix" /\ ~\E f \in rows : f.key = "full" /\ f.at = p.at
                             /\ r = [p EXCEPT !.key = "full"]
    <3>1. PICK p \in rows : /\ p.key = "prefix" /\ ~\E f \in rows : f.key = "full" /\ f.at = p.at
                            /\ r = [p EXCEPT !.key = "full"]
      BY <2>2
    <3>2. p \in ArchiveRow  OBVIOUS
    <3> QED  BY <3>1, <3>2 DEF ArchiveRow
  <2> QED  BY <2>1, <2>2 DEF RenameMeshTelemetryPubKey
<1> HIDE DEF renamed
<1>2. \A r, s \in renamed : r.at = s.at /\ r.success = s.success /\ r.reporter = s.reporter => r = s
  BY <1>1 DEF ArchiveRow
<1>3. KeyedRows(renamed)
  <2> SUFFICES ASSUME NEW r \in renamed, NEW s \in renamed, r.at = s.at PROVE r = s  BY DEF KeyedRows
  <2>1. PICK p \in rows : /\ p.at = r.at /\ p.success = r.success /\ p.reporter = r.reporter
                          /\ \/ p.key = "full"
                             \/ p.key = "prefix" /\ ~\E f \in rows : f.key = "full" /\ f.at = p.at
    BY <1>1
  <2>2. PICK q \in rows : /\ q.at = s.at /\ q.success = s.success /\ q.reporter = s.reporter
                          /\ \/ q.key = "full"
                             \/ q.key = "prefix" /\ ~\E f \in rows : f.key = "full" /\ f.at = q.at
    BY <1>1
  <2>3. p = q  BY <2>1, <2>2 DEF KeyedRows
  <2> QED  BY <1>2, <2>1, <2>2, <2>3
<1>4. RowsInOrder(renamed, skewed, split)
  <2> SUFFICES ASSUME NEW r \in renamed, NEW s \in renamed, r.reporter = s.reporter, r.reporter \notin skewed
               PROVE  /\ r.at < s.at => r.success <= s.success
                      /\ r.success = s.success => r = s \/ <<r.reporter, r.success>> \in split
    BY DEF RowsInOrder
  <2>1. PICK p \in rows : p.at = r.at /\ p.success = r.success /\ p.reporter = r.reporter  BY <1>1
  <2>2. PICK q \in rows : q.at = s.at /\ q.success = s.success /\ q.reporter = s.reporter  BY <1>1
  <2>3. r.at < s.at => r.success <= s.success  BY <2>1, <2>2 DEF RowsInOrder
  <2>4. ASSUME r.success = s.success PROVE r = s \/ <<r.reporter, r.success>> \in split
    <3>1. p = q \/ <<p.reporter, p.success>> \in split  BY <2>1, <2>2, <2>4 DEF RowsInOrder
    <3> QED  BY <1>2, <2>1, <2>2, <2>4, <3>1
  <2> QED  BY <2>3, <2>4
<1> QED  BY <1>1, <1>3, <1>4 DEF renamed

\* Among the rows before a sample there is a last one.
LEMMA LastRow ==
    ASSUME NEW rows, rows \subseteq ArchiveRow, NEW s \in Sample,
           NEW r \in rows, r.key = "full", r.reporter = s.reporter, r.at < s.at
    PROVE  \E p \in PreviousRow(rows, s) : /\ p \in rows /\ p.key = "full" /\ p.reporter = s.reporter
                                           /\ r.at <= p.at /\ p.at < s.at
<1> DEFINE before == {x \in rows : x.key = "full" /\ x.reporter = s.reporter /\ x.at < s.at}
           T == {s.at - x.at : x \in before}
<1>0. s.at \in Nat /\ \A x \in rows : x.at \in Nat  BY DEF Sample, ArchiveRow
<1>1. T \subseteq Nat /\ T # {}  BY <1>0
<1>2. PICK n \in T : \A k \in T : n <= k  BY <1>1, NatMinimum
<1>3. PICK p \in before : n = s.at - p.at  OBVIOUS
<1>4. \A o \in before : s.at - p.at <= s.at - o.at  BY <1>2, <1>3
<1>5. \A o \in before : o.at <= p.at  BY <1>0, <1>4
<1>6. p \in PreviousRow(rows, s) /\ r \in before  BY <1>5 DEF PreviousRow
<1> QED  BY <1>5, <1>6

LEMMA InsertKeepsOrder ==
    ASSUME NEW rows, rows \subseteq ArchiveRow, KeyedRows(rows),
           NEW skewed, NEW split, RowsInOrder(rows, skewed, split),
           \A r \in rows : r.key = "prefix" => <<r.reporter, r.success>> \in split,
           NEW s \in Sample, s.reporter \notin skewed => Newest(rows, s.reporter, s.at, s.success)
    PROVE  LET after == InsertMeshTelemetry(rows, s) IN
           /\ after \subseteq ArchiveRow /\ KeyedRows(after) /\ RowsInOrder(after, skewed, split)
           /\ \A r \in after :
                r \in rows \/ (r.key = "full" /\ r.at = s.at /\ r.success = s.success /\ r.reporter = s.reporter)
<1> DEFINE new == [key |-> "full", at |-> s.at, success |-> s.success, reporter |-> s.reporter]
<1>0. s.at \in Nat /\ s.success \in Nat /\ \A x \in rows : x.at \in Nat /\ x.success \in Nat  BY DEF Sample, ArchiveRow
<1>1. CASE InsertMeshTelemetry(rows, s) = rows  BY <1>1
<1>2. CASE InsertMeshTelemetry(rows, s) # rows
  <2>1. /\ InsertMeshTelemetry(rows, s) = rows \cup {new}
        /\ ~\E r \in PreviousRow(rows, s) : r.success = s.success
        /\ ~\E r \in rows : r.key = "full" /\ r.at = s.at
    BY <1>2 DEF InsertMeshTelemetry
  <2>2. new \in ArchiveRow  BY DEF Sample, ArchiveRow
  <2>3. ASSUME NEW r \in rows, r.reporter = s.reporter, s.reporter \notin skewed
        PROVE  /\ r.at <= s.at /\ r.success <= s.success
               /\ r.success = s.success => <<r.reporter, r.success>> \in split
    <3>1. r.at <= s.at /\ r.success <= s.success  BY <2>3 DEF Newest
    <3>2. ASSUME r.success = s.success, r.key = "full" PROVE <<r.reporter, r.success>> \in split
      <4>1. r.at < s.at  BY <1>0, <2>1, <3>1, <3>2
      <4>2. PICK p \in PreviousRow(rows, s) :
                   p \in rows /\ p.key = "full" /\ p.reporter = s.reporter /\ r.at <= p.at /\ p.at < s.at
        BY <2>3, <3>2, <4>1, LastRow
      <4>3. p.success # s.success /\ p.success <= s.success  BY <2>1, <2>3, <4>2 DEF Newest
      <4>4. r.success <= p.success
        <5>1. CASE r.at = p.at  BY <1>0, <3>2, <4>2, <5>1 DEF KeyedRows
        <5>2. CASE r.at # p.at
          <6>1. r.at < p.at  BY <1>0, <4>2, <5>2
          <6> QED  BY <2>3, <4>2, <6>1 DEF RowsInOrder
        <5> QED  BY <5>1, <5>2
      <4> QED  BY <1>0, <3>2, <4>2, <4>3, <4>4
    <3>3. r.key \in {"full", "prefix"}  BY DEF ArchiveRow
    <3> QED  BY <3>1, <3>2, <3>3
  <2>4. RowsInOrder(rows \cup {new}, skewed, split)
    <3> SUFFICES ASSUME NEW x \in rows \cup {new}, NEW y \in rows \cup {new}, x.reporter = y.reporter,
                        x.reporter \notin skewed
                 PROVE  /\ x.at < y.at => x.success <= y.success
                        /\ x.success = y.success => x = y \/ <<x.reporter, x.success>> \in split
      BY DEF RowsInOrder
    <3>1. new.at = s.at /\ new.success = s.success /\ new.reporter = s.reporter  OBVIOUS
    <3> HIDE DEF new
    <3>2. CASE x \in rows /\ y \in rows  BY <3>2 DEF RowsInOrder
    <3>3. CASE x = new /\ y \in rows
      <4>1. y.at <= s.at /\ (y.success = s.success => <<y.reporter, y.success>> \in split)  BY <2>3, <3>1, <3>3
      <4>2. y.at \in Nat  BY <1>0, <3>3
      <4> QED  BY <1>0, <3>1, <3>3, <4>1, <4>2
    <3>4. CASE x \in rows /\ y = new
      <4>1. x.success <= s.success /\ (x.success = s.success => <<x.reporter, x.success>> \in split)  BY <2>3, <3>1, <3>4
      <4> QED  BY <1>0, <3>1, <3>4, <4>1
    <3>5. CASE x = new /\ y = new  BY <1>0, <3>1, <3>5
    <3> QED  BY <3>2, <3>3, <3>4, <3>5
  <2>5. KeyedRows(rows \cup {new})
    <3>1. new.at = s.at /\ new.key = "full"  OBVIOUS
    <3> HIDE DEF new
    <3> QED  BY <2>1, <3>1 DEF KeyedRows
  <2> QED  BY <2>1, <2>2, <2>4, <2>5
<1> QED  BY <1>1, <1>2

LEMMA ArchiveTickStep ==
    ASSUME ArchiveInv, NEW renamed \in BOOLEAN, NEW inserted \in BOOLEAN, NEW swept \in BOOLEAN,
           ArchiveTick(renamed, inserted, swept)
    PROVE  ArchiveInv'
<1>0. /\ world \in ArchiveWorld /\ part = "archive" /\ live \subseteq ArchiveRow /\ KeyedRows(live)
      /\ RowsInOrder(live, world.skewed, world.split)
  BY DEF ArchiveInv, ArchiveTypes
<1> DEFINE s == AdminReading
           rows == IF renamed THEN RenameMeshTelemetryPubKey(live) ELSE live
           split == IF world.provisional /\ ~renamed
                    THEN world.split \cup {<<r.reporter, r.success>> : r \in {p \in live : p.key = "prefix"}}
                    ELSE world.split
<1>1. /\ live' = (IF inserted THEN InsertMeshTelemetry(rows, s) ELSE rows) /\ part' = part
      /\ world' = [world EXCEPT !.provisional = @ /\ ~swept, !.admin = s, !.split = split]
  BY DEF ArchiveTick, ArchiveWrites
<1>2. /\ rows \subseteq ArchiveRow /\ KeyedRows(rows) /\ RowsInOrder(rows, world.skewed, world.split)
      /\ \A r \in rows : \E p \in live : p.at = r.at /\ p.success = r.success /\ p.reporter = r.reporter
      /\ \A r \in rows : r.key = "prefix" => ~renamed /\ r \in live
  <2>1. CASE renamed
    <3>1. rows = RenameMeshTelemetryPubKey(live)  BY <2>1
    <3> HIDE DEF rows
    <3> QED  BY <1>0, <3>1, RenameKeepsOrder
  <2>2. CASE ~renamed
    <3>1. rows = live  BY <2>2
    <3> QED  BY <1>0, <2>2, <3>1
  <2> QED  BY <2>1, <2>2
<1>3. \A r \in rows : r.key = "prefix" => <<r.reporter, r.success>> \in split
  <2> SUFFICES ASSUME NEW r \in rows, r.key = "prefix" PROVE <<r.reporter, r.success>> \in split  OBVIOUS
  <2>1. ~renamed /\ r \in live  BY <1>2
  <2> QED  BY <2>1 DEF ArchiveInv, PromotedOnce
<1>4. world.split \subseteq split /\ split \in SUBSET (Monitors \X Nat)
  BY <1>0 DEF ArchiveWorld, ArchiveRow
<1>5. \A m, at, success : Newest(live, m, at, success) => Newest(rows, m, at, success)
  <2> HIDE DEF rows
  <2> QED  BY <1>2 DEF Newest
<1> HIDE DEF rows, split
<1>6. RowsInOrder(rows, world.skewed, split)  BY <1>2, <1>4 DEF RowsInOrder
<1>7. s \in {NoAdmin} \cup Sample  BY SampleIsNewest
<1>8. s # NoAdmin =>
        /\ s \in Sample /\ s.at <= world.now
        /\ s.reporter \notin world.skewed =>
             /\ s.success <= world.read[s.reporter] /\ Newest(live, s.reporter, s.at, s.success)
             /\ world.box[s.reporter] # NoReport =>
                  s.at <= world.box[s.reporter].at /\ s.success <= world.box[s.reporter].success
  BY SampleIsNewest
<1> HIDE DEF s
<1>9. /\ world' \in ArchiveWorld /\ world'.now = world.now /\ world'.read = world.read /\ world'.admin = s
      /\ world'.box = world.box /\ world'.skewed = world.skewed /\ world'.split = split
  BY <1>0, <1>1, <1>4, <1>7 DEF ArchiveWorld
<1>10. /\ live' \subseteq ArchiveRow /\ KeyedRows(live') /\ RowsInOrder(live', world.skewed, split)
       /\ \A r \in live' : \/ r \in rows
                           \/ /\ s # NoAdmin
                              /\ r.key = "full" /\ r.at = s.at /\ r.success = s.success /\ r.reporter = s.reporter
  <2>1. CASE live' = rows  BY <1>2, <1>6, <2>1
  <2>2. CASE inserted /\ s # NoAdmin
    <3>1. s.reporter \notin world.skewed => Newest(rows, s.reporter, s.at, s.success)  BY <1>5, <1>8, <2>2
    <3>2. live' = InsertMeshTelemetry(rows, s) /\ s \in Sample  BY <1>1, <1>7, <2>2
    <3> QED  BY <1>2, <1>3, <1>6, <2>2, <3>1, <3>2, InsertKeepsOrder
  <2>3. CASE inserted /\ s = NoAdmin
    <3>1. live' = rows  BY <1>1, <2>3 DEF InsertMeshTelemetry
    <3> QED  BY <2>1, <3>1
  <2> QED  BY <1>1, <2>1, <2>2, <2>3
<1>11. PromotedOnce'  BY <1>3, <1>9, <1>10 DEF PromotedOnce
<1>12. \A m, at, success :
         Newest(live, m, at, success) /\ (s # NoAdmin /\ m = s.reporter => s.at <= at /\ s.success <= success)
           => Newest(live', m, at, success)
  BY <1>5, <1>10 DEF Newest
<1>13. ReadsInTime'
  <2> SUFFICES ASSUME NEW m \in Monitors \ world.skewed
               PROVE  Newest(live', m, world.now, world.read[m]) /\ ReportInTime(m)' /\ CarriedInTime(m)'
    BY <1>8, <1>9 DEF ArchiveInv, ReadsInTime, Newest
  <2>1. Newest(live', m, world.now, world.read[m])  BY <1>8, <1>12 DEF ArchiveInv, ReadsInTime
  <2>2. world.box[m] # NoReport => Newest(live', m, world.box[m].at, world.box[m].success)
    BY <1>8, <1>12 DEF ArchiveInv, ReadsInTime, ReportInTime
  <2>3. ReportInTime(m)'  BY <1>9, <2>2 DEF ArchiveInv, ReadsInTime, ReportInTime, Newest
  <2>4. ASSUME s # NoAdmin, s.reporter = m PROVE Newest(live', m, s.at, s.success)
    <3>1. s.at \in Nat /\ s.success \in Nat  BY <1>8, <2>4 DEF Sample
    <3> QED  BY <1>8, <1>12, <2>4, <3>1
  <2>5. CarriedInTime(m)'  BY <1>8, <1>9, <2>4 DEF CarriedInTime, Newest
  <2> QED  BY <2>1, <2>3, <2>5
<1>14. KeyedRows(live)' /\ RowsInOrder(live, world.skewed, world.split)'  BY <1>9, <1>10 DEF KeyedRows, RowsInOrder
<1> QED  BY <1>0, <1>1, <1>9, <1>10, <1>11, <1>13, <1>14 DEF ArchiveInv, ArchiveTypes

LEMMA ArchiveInvHolds == ArchiveSpec => []ArchiveInv
<1>1. part = "archive" /\ (\E first \in DOMAIN Monitor : ArchiveInit(first)) => ArchiveInv  BY ArchiveInitInv DEF Monitors
<1>2. ArchiveInv /\ [ArchiveNext]_feedVars => ArchiveInv'
  <2> SUFFICES ASSUME ArchiveInv, [ArchiveNext]_feedVars PROVE ArchiveInv'  OBVIOUS
  <2>1. CASE ArchiveNext
    <3>1. world.now \in Nat \ {0}  BY DEF ArchiveInv, ArchiveTypes, ArchiveWorld
    <3>2. \A m \in Monitors : ReadTimes(m) \subseteq Nat /\ ReportTimes(m) \subseteq Nat \ {0}
      BY <3>1 DEF ReadTimes, ReportTimes
    <3>3. CASE \E m \in DOMAIN Monitor : \/ \E at \in ReadTimes(m) : MonitorReads(m, at)
                                         \/ \E at \in ReportTimes(m) : MonitorReports(m, at)
      <4>1. CASE \E m \in Monitors : \E at \in Nat : MonitorReads(m, at)  BY <4>1, ReadStep
      <4>2. CASE \E m \in Monitors : \E at \in Nat \ {0} : MonitorReports(m, at)  BY <4>2, ReportStep
      <4> QED  BY <3>2, <3>3, <4>1, <4>2 DEF Monitors
    <3>4. CASE \E renamed, inserted, swept \in BOOLEAN : ArchiveTick(renamed, inserted, swept)
      BY <3>4, ArchiveTickStep
    <3> QED  BY <2>1, <3>3, <3>4, PruneStep, RestartStep, AdvertStep, ClockStep DEF ArchiveNext
  <2>2. CASE UNCHANGED feedVars
    BY <2>2 DEF feedVars, ArchiveInv, ArchiveTypes, KeyedRows, RowsInOrder, ReadsInTime, ReportInTime, CarriedInTime, Newest,
                PromotedOnce
  <2> QED  BY <2>1, <2>2
<1> QED  BY <1>1, <1>2, PTL DEF ArchiveSpec

(* meshTelemetrySamples, InsertMeshTelemetry, RenameMeshTelemetryPubKey: for any*)
(* number of reporters, restarts, prunes, failed writes and the promotion of a  *)
(* key prefix, a reading of a monitor whose clock was right is archived at most *)
(* once, but one that a failed rename left under the prefix.                    *)
THEOREM ArchiveTheorem == ArchiveSpec => []OneReadingOneRow
<1>1. ArchiveInv => OneReadingOneRow  BY DEF ArchiveInv, RowsInOrder, OneReadingOneRow
<1> QED  BY <1>1, ArchiveInvHolds, PTL
=============================================================================
