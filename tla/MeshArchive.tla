---------------------------- MODULE MeshArchive ----------------------------
(***************************************************************************)
(* The archive of monitors' readings, store/mesh_telemetry.go, written by    *)
(* the mesh tick (ingest/network.go, scheduler.go) from the reports buffered *)
(* by pushingest/mesh.go.  One node, that an earlier release filed under a   *)
(* prefix of its key; a monitor reports a reading more often than it reads.  *)
(* live is the table.  world.skewed and world.split only record: the         *)
(* monitors that stamped a reading before the last one or ahead of our       *)
(* clock, or a report before what is archived or carried of them; and the    *)
(* readings that were filed under the prefix when its rename failed.         *)
(***************************************************************************)
EXTENDS Feed

CONSTANTS Monitor,            \* [ids -> priorities] of mesh.repeater reporters
          WrongClock,         \* the reporters whose clock may be ahead or behind
          ClockBack,          \* search bound: how far behind they may stamp a report
          MonitorStale,       \* their staleAfter
          MonitorDead,        \* and the multiple of it after which they are dead
          ArchiveRetention,   \* meshMaint.TelemetryRetention
          MaxArchiveClock

\* Of two reporters of one priority the code prefers the lower id: the
\* priorities here are the ranks that order them.
ASSUME MonitorAssumption ==
    /\ IsFiniteSet(DOMAIN Monitor)
    /\ \A m \in DOMAIN Monitor : Monitor[m] \in Int
    /\ \A m, o \in DOMAIN Monitor : Monitor[m] = Monitor[o] => m = o
    /\ WrongClock \subseteq DOMAIN Monitor

\* Times count from one; success is the time of the reading, and names it.
NoReport == [at |-> 0, success |-> 0, received |-> 0]
NoAdmin == [at |-> 0]

ClampReading(at) == IF at > world.now THEN world.now ELSE at

\* ingestMesh, adminProto: the report replaces the one before; its stamps are
\* clamped to our clock; one that never read the node carries no telemetry.
IngestMesh(m, at) ==
    [world EXCEPT !.box[m] = [at |-> ClampReading(at), success |-> ClampReading(world.read[m]), received |-> world.now]]

\* MeshReports: reporters that are OK, and whether one is silent but not dead.
MonitorState(m) ==
    IF world.box[m] = NoReport THEN "UNKNOWN"
    ELSE IF world.now - world.box[m].received <= MonitorStale THEN "OK"
    ELSE IF world.now - world.box[m].received <= MonitorStale * MonitorDead THEN "STALE" ELSE "DEAD"
Reports == {m \in DOMAIN Monitor : MonitorState(m) = "OK" /\ world.box[m].success # 0}
MonitorSilent == \E m \in DOMAIN Monitor : MonitorState(m) \in {"UNKNOWN", "STALE"}

\* meshTelemetry: the freshest reading, of equals the one of higher priority;
\* buildEvent: the stored reading while a monitor is silent.
Fresher(m, o) ==
    \/ world.box[m].success > world.box[o].success
    \/ world.box[m].success = world.box[o].success /\ Monitor[m] > Monitor[o]
AdminReading ==
    IF Reports # {}
    THEN LET best == CHOOSE m \in Reports : \A o \in Reports \ {m} : Fresher(m, o)
         IN  [at |-> world.box[best].at, success |-> world.box[best].success, reporter |-> best]
    ELSE IF MonitorSilent /\ {m \in DOMAIN Monitor : MonitorState(m) = "OK"} = {} THEN world.admin ELSE NoAdmin

\* RenameMeshTelemetryPubKey: of two samples of an instant the full key's stays.
RenameMeshTelemetryPubKey(rows) ==
    {r \in rows : r.key = "full"} \cup
    {[r EXCEPT !.key = "full"] : r \in {p \in rows : p.key = "prefix" /\ ~\E f \in rows : f.key = "full" /\ f.at = p.at}}

\* InsertMeshTelemetry: a repeat of the reading in the reporter's previous row is
\* skipped, a sample of an instant already filed ignored.
PreviousRow(rows, s) ==
    LET before == {r \in rows : r.key = "full" /\ r.reporter = s.reporter /\ r.at < s.at}
    IN  {r \in before : \A o \in before : o.at <= r.at}
InsertMeshTelemetry(rows, s) ==
    IF s = NoAdmin \/ (\E r \in PreviousRow(rows, s) : r.success = s.success)
                   \/ (\E r \in rows : r.key = "full" /\ r.at = s.at)
    THEN rows
    ELSE rows \cup {[key |-> "full", at |-> s.at, success |-> s.success, reporter |-> s.reporter]}

\* The tick that inserts first.
InsertThenRename(rows, renamed, inserted, s) ==
    LET filed == IF inserted THEN InsertMeshTelemetry(rows, s) ELSE rows
    IN  IF renamed THEN RenameMeshTelemetryPubKey(filed) ELSE filed

\* tick: renames, then the insert, which a failed rename does not hold up.
ArchiveWrites(rows, renamed, inserted, s) ==
    LET moved == IF renamed THEN RenameMeshTelemetryPubKey(rows) ELSE rows
    IN  IF inserted THEN InsertMeshTelemetry(moved, s) ELSE moved

\* Poll and tick: the node is there once its advert was heard, and the event of
\* the prefix is promoted (promotedPrefixKeys) until the sweep has superseded it.
\* Each write may fail.
ArchiveTick(renamed, inserted, swept) ==
    /\ world.advertised
    /\ renamed => world.provisional
    /\ live' = ArchiveWrites(live, renamed, inserted, AdminReading)
    /\ world' = [world EXCEPT !.provisional = @ /\ ~swept, !.admin = AdminReading,
                              !.split = IF world.provisional /\ ~renamed
                                        THEN @ \cup {<<r.reporter, r.success>> : r \in {p \in live : p.key = "prefix"}}
                                        ELSE @]
    /\ UNCHANGED <<part, result>>

\* maintainMesh, PruneMeshTelemetry.
PruneTick ==
    /\ live' = {r \in live : r.at >= world.now - ArchiveRetention}
    /\ UNCHANGED <<part, world, result>>

\* The service restarts; a monitor reads the node, or files a report, by a clock
\* that may be ahead or behind; the node's advert is heard; time passes.
ServiceRestart ==
    /\ world' = [world EXCEPT !.box = [m \in DOMAIN Monitor |-> NoReport]]
    /\ UNCHANGED <<part, live, result>>
MonitorReads(m, at) ==
    /\ world' = [world EXCEPT !.read[m] = at,
                              !.skewed = IF world.read[m] <= at /\ at <= world.now THEN @ ELSE @ \cup {m}]
    /\ UNCHANGED <<part, live, result>>
\* The report is stamped before what is archived of the monitor, or carried.
StampedBack(m, at) ==
    \/ \E r \in live : r.reporter = m /\ ClampReading(at) < r.at
    \/ world.admin # NoAdmin /\ world.admin.reporter = m /\ ClampReading(at) < world.admin.at
MonitorReports(m, at) ==
    /\ world.box[m].received < world.now
    /\ world' = [IngestMesh(m, at) EXCEPT !.skewed = IF StampedBack(m, at) THEN @ \cup {m} ELSE @]
    /\ UNCHANGED <<part, live, result>>
AdvertHeard ==
    /\ ~world.advertised
    /\ world' = [world EXCEPT !.advertised = TRUE]
    /\ UNCHANGED <<part, live, result>>
ArchiveClock ==
    /\ world.now < MaxArchiveClock
    /\ world' = [world EXCEPT !.now = @ + 1]
    /\ UNCHANGED <<part, live, result>>

\* A reading of the first monitor is filed under the prefix.
ArchiveInit(first) ==
    /\ world = [now |-> 1, read |-> [m \in DOMAIN Monitor |-> IF m = first THEN 1 ELSE 0],
                box |-> [m \in DOMAIN Monitor |-> NoReport], admin |-> NoAdmin, advertised |-> FALSE,
                provisional |-> TRUE, skewed |-> {}, split |-> {}]
    /\ live = {[key |-> "prefix", at |-> 1, success |-> 1, reporter |-> first]}
    /\ result = NeverPolled
ReadTimes(m) == IF m \in WrongClock THEN {world.now, world.now + 1} ELSE {world.now}
ReportTimes(m) ==
    IF m \in WrongClock THEN {at \in 1 .. world.now + 1 : at >= world.now - ClockBack} ELSE {world.now}
ArchiveNext ==
    \/ \E renamed, inserted, swept \in BOOLEAN : ArchiveTick(renamed, inserted, swept)
    \/ PruneTick \/ ServiceRestart \/ AdvertHeard \/ ArchiveClock
    \/ \E m \in DOMAIN Monitor : \/ \E at \in ReadTimes(m) : MonitorReads(m, at)
                               \/ \E at \in ReportTimes(m) : MonitorReports(m, at)

ArchiveSpec == part = "archive" /\ (\E first \in DOMAIN Monitor : ArchiveInit(first)) /\ [][ArchiveNext]_feedVars

(***************************************************************************)
(* Property                                                                *)
(***************************************************************************)
\* InsertMeshTelemetry, RenameMeshTelemetryPubKey: one reading is one row, under
\* one key, through repeats, two monitors, restarts, failed writes, and the
\* promotion of the key, but of a monitor whose clock is wrong, whose repeats the
\* store cannot tell, and of a reading that a failed rename left under the prefix.
OneReadingOneRow ==
    part = "archive" =>
    \A r, s \in live :
        r.reporter = s.reporter /\ r.success = s.success /\ r.reporter \notin world.skewed =>
            r = s \/ <<r.reporter, r.success>> \in world.split
============================================================================
