----------------------------- MODULE MeshStore -----------------------------
(***************************************************************************)
(* The relay-topology tables of the grid store: mesh_observations (Tier 0, *)
(* one row per advert heard), mesh_link_rollup (Tier 1, receptions per     *)
(* link and day) and the compaction watermark of mesh_meta, with the       *)
(* operations of internal/store/mesh.go and the maintenance loop of        *)
(* internal/ingest/scheduler.go that runs them.                            *)
(*                                                                         *)
(* Three actors share the tables. The mesh poller appends a batch per      *)
(* tick; the maintenance goroutine compacts and prunes; a request reads    *)
(* the links. Every write is one transaction and is atomic; the link read  *)
(* is three queries with nothing holding the tables still between them.    *)
(*                                                                         *)
(* A reception keeps its relay chain and the time it was heard. Signal     *)
(* strengths, gateways, first and last seen times and the telemetry        *)
(* archive are not modelled. A transaction that fails leaves the tables    *)
(* alone; where that sends the maintenance cycle on, it is an action.      *)
(***************************************************************************)
EXTENDS Integers, Sequences, FiniteSets, Functions

CONSTANTS
    Nodes,                \* the public keys
    Unresolved,           \* the "" of a hop whose prefix matched no node
    Chains,               \* the relay chains heard: origin, then each hop
    DayLength,            \* secondsPerDay, in clock units
    MaxCompactBatch,      \* maxCompactBatch
    ObservationRetention, \* MeshMaintenance.ObservationRetention
    RollupRetention,      \* MeshMaintenance.RollupRetention
    MaySilence,           \* the feed may be silent for ObservationRetention
    Windows,              \* how far back a link request reaches
    MaxBatch,             \* bound on the receptions of one tick
    MaxId,                \* bound on the ids of mesh_observations
    MaxTime               \* bound on the clock

ASSUME MeshAssumption ==
    /\ Unresolved \notin Nodes
    /\ Chains \subseteq Seq(Nodes \cup {Unresolved})
    /\ DayLength \in Nat \ {0}
    /\ MaxCompactBatch \in Nat \ {0}
    /\ ObservationRetention \in Nat \ {0}
    /\ RollupRetention \in Nat
    /\ MaySilence \in BOOLEAN
    /\ Windows \subseteq Nat
    /\ MaxBatch \in Nat
    /\ MaxId \in Nat
    /\ MaxTime \in Nat

VARIABLES
    now,        \* the clock
    obs,        \* mesh_observations: id -> row
    rollup,     \* mesh_link_rollup: observations of a link and day, 0: no row
    watermark,  \* mesh_meta's compaction_watermark
    maint,      \* the maintenance cycle of safeMeshMaintenance
    reader,     \* a MeshLinks call
    received    \* every reception stored, by link and time (history)

vars == <<now, obs, rollup, watermark, maint, reader, received>>

(***************************************************************************)
(* A link is an unordered pair of nodes (the canonical a < b), so an       *)
(* unresolved hop and a self-loop are no link.                             *)
(***************************************************************************)
Links == {e \in SUBSET Nodes : Cardinality(e) = 2}

Bucket(t) == t - (t % DayLength)

Times == 0..MaxTime

Buckets == {Bucket(t) : t \in Times}

\* How often a relay chain crosses link e.
EachEdge(chain, e) ==
    Cardinality({i \in 1 .. Len(chain) - 1 : {chain[i], chain[i + 1]} = e})

\* The crossings of link e by the rows with the given ids.
Crossings(ids, e) == SumFunction([i \in ids |-> EachEdge(obs[i].chain, e)])

\* The rows of one day among the given ids.
OfDay(ids, b) == {i \in ids : Bucket(obs[i].heard) = b}

\* The rows past the watermark wm: what compaction has not folded yet.
Past(wm) == {i \in DOMAIN obs : i > wm}

IdleMaint == [pc |-> "idle", now |-> 0, upTo |-> 0, failed |-> FALSE]

(***************************************************************************)
(* wm and links are the call's results so far. before and wmStart are      *)
(* history: what had been received, and the watermark, when it began.      *)
(***************************************************************************)
NoLinks == [e \in Links |-> 0]

NoneReceived == [e \in Links |-> [t \in Times |-> 0]]

IdleReader ==
    [pc |-> "idle", since |-> 0, wm |-> 0, links |-> NoLinks,
     before |-> NoneReceived, wmStart |-> 0]

Init ==
    /\ now = 0
    /\ obs = [i \in {} |-> [chain |-> <<>>, heard |-> 0, rolled |-> 0]]
    /\ rollup = [e \in Links |-> [b \in Buckets |-> 0]]
    /\ watermark = 0
    /\ maint = IdleMaint
    /\ reader = IdleReader
    /\ received = NoneReceived

-----------------------------------------------------------------------------
(***************************************************************************)
(* The poller's write (RecordMeshTick, insertMeshObservations). id is an   *)
(* INTEGER PRIMARY KEY without AUTOINCREMENT: SQLite gives a new row one   *)
(* more than the largest id in the table, 1 when the table is empty. The   *)
(* batch is what the registry buffered since the last tick, in arrival     *)
(* order, so no row of it was heard before a row already stored. rolled    *)
(* is history: how often compaction folded the row.                        *)
(***************************************************************************)
LastId(id) == id \in DOMAIN obs \cup {0} /\ \A i \in DOMAIN obs : i <= id

RecordMeshTick(batch, h) ==
    /\ \A i \in DOMAIN obs : obs[i].heard <= h
    /\ \E id \in DOMAIN obs \cup {0} :
        /\ LastId(id)
        /\ id + Len(batch) <= MaxId
        /\ obs' = [i \in DOMAIN obs \cup (id + 1 .. id + Len(batch)) |->
                      IF i \in DOMAIN obs THEN obs[i]
                      ELSE [chain |-> batch[i - id], heard |-> h, rolled |-> 0]]
    /\ received' = [e \in Links |-> [received[e] EXCEPT ![h] =
                        @ + SumFunction([k \in DOMAIN batch |-> EachEdge(batch[k], e)])]]
    /\ UNCHANGED <<now, rollup, watermark, maint, reader>>

-----------------------------------------------------------------------------
(***************************************************************************)
(* The maintenance cycle (safeMeshMaintenance): compact, prune the raw     *)
(* rows, prune the rollup, each its own transaction, each failure logged   *)
(* and passed over. The cutoffs come from the clock read at the start.     *)
(***************************************************************************)
MaintStart ==
    /\ maint.pc = "idle"
    /\ \E id \in DOMAIN obs \cup {0} :
        /\ LastId(id)
        /\ maint' = [pc |-> "compact", now |-> now, upTo |-> id, failed |-> FALSE]
    /\ UNCHANGED <<now, obs, rollup, watermark, reader, received>>

\* compactChunk's query: the first MaxCompactBatch rows past the watermark.
Chunk ==
    {i \in Past(watermark) :
        Cardinality({j \in Past(watermark) : j < i}) < MaxCompactBatch}

\* The watermark after a chunk: the id of the last row scanned.
Advanced(chunk, wm) ==
    IF chunk = {} THEN wm = watermark
    ELSE wm \in chunk /\ \A i \in chunk : i <= wm

\* Mutant: one chunk and no more.
AfterChunkOnce(chunk) == "pruneObservations"

\* CompactMeshObservations goes round again only after a full chunk.
AfterChunk(chunk) ==
    IF Cardinality(chunk) < MaxCompactBatch THEN "pruneObservations" ELSE "compact"

CompactChunk ==
    /\ maint.pc = "compact"
    /\ rollup' = [e \in Links |-> [b \in Buckets |->
                     rollup[e][b] + Crossings(OfDay(Chunk, b), e)]]
    /\ \E wm \in DOMAIN obs \cup {watermark} :
        Advanced(Chunk, wm) /\ watermark' = wm
    /\ obs' = [i \in DOMAIN obs |->
                  [obs[i] EXCEPT !.rolled = @ + IF i \in Chunk THEN 1 ELSE 0]]
    /\ maint' = [maint EXCEPT !.pc = AfterChunk(Chunk)]
    /\ UNCHANGED <<now, reader, received>>

\* Mutant: the rollup's upserts are not undone with the watermark's.
CompactFailsHalfway ==
    /\ maint.pc = "compact"
    /\ rollup' = [e \in Links |-> [b \in Buckets |->
                     rollup[e][b] + Crossings(OfDay(Chunk, b), e)]]
    /\ maint' = [maint EXCEPT !.pc = "pruneObservations", !.failed = TRUE]
    /\ UNCHANGED <<now, obs, watermark, reader, received>>

\* A chunk's transaction rolls back: compaction is over for this cycle.
CompactFails ==
    /\ maint.pc = "compact"
    /\ maint' = [maint EXCEPT !.pc = "pruneObservations", !.failed = TRUE]
    /\ UNCHANGED <<now, obs, rollup, watermark, reader, received>>

\* Mutant: the prune is not gated on the watermark.
PrunableUngated(cutoff) == {i \in DOMAIN obs : obs[i].heard < cutoff}

\* The raw rows a prune with the given cutoff deletes.
Prunable(cutoff) == {i \in DOMAIN obs : obs[i].heard < cutoff /\ i <= watermark}

PruneMeshObservations ==
    /\ maint.pc = "pruneObservations"
    /\ obs' = [i \in DOMAIN obs \ Prunable(maint.now - ObservationRetention) |-> obs[i]]
    /\ maint' = [maint EXCEPT !.pc = "pruneRollup"]
    /\ UNCHANGED <<now, rollup, watermark, reader, received>>

PruneObservationsFails ==
    /\ maint.pc = "pruneObservations"
    /\ maint' = [maint EXCEPT !.pc = "pruneRollup"]
    /\ UNCHANGED <<now, obs, rollup, watermark, reader, received>>

PruneMeshLinkRollup ==
    /\ maint.pc = "pruneRollup"
    /\ rollup' = [e \in Links |-> [b \in Buckets |->
                     IF b < maint.now - RollupRetention THEN 0 ELSE rollup[e][b]]]
    /\ maint' = IdleMaint
    /\ UNCHANGED <<now, obs, watermark, reader, received>>

\* A failed last prune, a recovered panic: the cycle ends where it stands.
MaintEnds ==
    /\ maint.pc # "idle"
    /\ maint' = IdleMaint
    /\ UNCHANGED <<now, obs, rollup, watermark, reader, received>>

-----------------------------------------------------------------------------
(***************************************************************************)
(* MeshLinks: the rollup of the window's days, then the watermark, then    *)
(* the raw rows past it, three queries on the read pool.                   *)
(***************************************************************************)
LinksStart ==
    /\ reader.pc \in {"idle", "answered"}
    /\ \E w \in Windows :
        /\ w <= now
        /\ reader' = [IdleReader EXCEPT !.pc = "rollup", !.since = now - w,
                                        !.before = received, !.wmStart = watermark]
    /\ UNCHANGED <<now, obs, rollup, watermark, maint, received>>

RollupSum(e, since) ==
    SumFunctionOnSet(rollup[e], {b \in Buckets : b >= Bucket(since)})

ReadRollup ==
    /\ reader.pc = "rollup"
    /\ reader' = [reader EXCEPT !.pc = "watermark",
                     !.links = [e \in Links |-> RollupSum(e, reader.since)]]
    /\ UNCHANGED <<now, obs, rollup, watermark, maint, received>>

\* Mutant: the watermark is the one from before the rollup was read.
ReadWatermarkFirst ==
    /\ reader.pc = "watermark"
    /\ reader' = [reader EXCEPT !.pc = "tail", !.wm = reader.wmStart]
    /\ UNCHANGED <<now, obs, rollup, watermark, maint, received>>

ReadWatermark ==
    /\ reader.pc = "watermark"
    /\ reader' = [reader EXCEPT !.pc = "tail", !.wm = watermark]
    /\ UNCHANGED <<now, obs, rollup, watermark, maint, received>>

TailOf(wm, since) == {i \in Past(wm) : obs[i].heard >= since}

ReadTail ==
    /\ reader.pc = "tail"
    /\ reader' = [reader EXCEPT !.pc = "answered",
                     !.links = [e \in Links |->
                         @[e] + Crossings(TailOf(reader.wm, reader.since), e)]]
    /\ UNCHANGED <<now, obs, rollup, watermark, maint, received>>

-----------------------------------------------------------------------------
\* The process stops and another opens the database.
Restart ==
    /\ maint # IdleMaint \/ reader # IdleReader
    /\ maint' = IdleMaint
    /\ reader' = IdleReader
    /\ UNCHANGED <<now, obs, rollup, watermark, received>>

(***************************************************************************)
(* Unless MaySilence, an advert has always been stored within the raw      *)
(* retention (48 hours), from the first one on.                            *)
(***************************************************************************)
FeedAlive(t) ==
    DOMAIN obs = {} \/ \E i \in DOMAIN obs : obs[i].heard >= t - ObservationRetention

Clock ==
    /\ now < MaxTime
    /\ MaySilence \/ FeedAlive(now + 1)
    /\ now' = now + 1
    /\ UNCHANGED <<obs, rollup, watermark, maint, reader, received>>

Batches == UNION {[1..n -> Chains] : n \in 1..MaxBatch}

Poll ==
    \E batch \in Batches, h \in Times :
        h \in {now - 1, now} /\ RecordMeshTick(batch, h)

Next ==
    \/ Poll
    \/ MaintStart \/ CompactChunk \/ CompactFails
    \/ PruneMeshObservations \/ PruneObservationsFails
    \/ PruneMeshLinkRollup \/ MaintEnds
    \/ LinksStart \/ ReadRollup \/ ReadWatermark \/ ReadTail
    \/ Restart \/ Clock

Spec == Init /\ [][Next]_vars

-----------------------------------------------------------------------------
Row == [chain : Chains, heard : Nat, rolled : Nat]

\* Every table and every call in progress holds a value of its type.
TypeOK ==
    /\ now \in Nat
    /\ DOMAIN obs \subseteq Nat \ {0}
    /\ \A i \in DOMAIN obs : obs[i] \in Row /\ obs[i].heard <= now
    /\ rollup \in [Links -> [Buckets -> Nat]]
    /\ watermark \in Nat
    /\ maint \in [pc : {"idle", "compact", "pruneObservations", "pruneRollup"},
                  now : Nat, upTo : Nat, failed : BOOLEAN]
    /\ reader.pc \in {"idle", "rollup", "watermark", "tail", "answered"}
    /\ reader.links \in [Links -> Nat]
    /\ received \in [Links -> [Times -> Nat]]

(***************************************************************************)
(* "Gating on the watermark ensures a stalled compaction never drops       *)
(* un-rolled-up data": a row leaves mesh_observations only after a         *)
(* compaction folded it, once.                                             *)
(***************************************************************************)
PruneKeepsUnrolled ==
    [][\A i \in DOMAIN obs \ DOMAIN obs' : obs[i].rolled = 1]_vars

(***************************************************************************)
(* Every reception of the rollup's retention is counted exactly once,      *)
(* whatever chunk failed, cycle panicked or process stopped: a link's day  *)
(* in the rollup plus its rows past the watermark is what was received.    *)
(***************************************************************************)
EachReceptionCountedOnce ==
    \A e \in Links, b \in Buckets :
        b >= now - RollupRetention =>
            rollup[e][b] + Crossings(OfDay(Past(watermark), b), e)
                = SumFunctionOnSet(received[e], {t \in Times : Bucket(t) = b})

(***************************************************************************)
(* A compaction that reports success has folded every row that was in the  *)
(* table when the cycle began, however many chunks that took.              *)
(***************************************************************************)
CompactionCatchesUp ==
    [][maint.pc = "compact" /\ maint'.pc = "pruneObservations" /\ ~maint'.failed =>
          \A i \in DOMAIN obs' : i <= maint.upTo => obs'[i].rolled = 1]_vars

\* What the calls' windows contain of a record of receptions.
Within(rec, e, from) == SumFunctionOnSet(rec[e], {t \in Times : t >= from})

(***************************************************************************)
(* A link answer never counts a reception twice, though compaction may     *)
(* move rows to the rollup between the call's queries; and when no         *)
(* compaction did, it misses none of the window that was stored before     *)
(* the call and is inside the rollup's retention.                          *)
(***************************************************************************)
AnswerIsBracketed ==
    reader.pc = "answered" => \A e \in Links :
        /\ reader.links[e] <= Within(received, e, Bucket(reader.since))
        /\ (/\ watermark = reader.wmStart
            /\ Bucket(reader.since) >= now - RollupRetention) =>
              reader.links[e] >= Within(reader.before, e, reader.since)

============================================================================
