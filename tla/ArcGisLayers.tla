---------------------------- MODULE ArcGisLayers ----------------------------
(***************************************************************************)
(* Feeds read from ArcGIS layers.  First, power outages and public safety   *)
(* shutoffs: the layers of PG&E (clients/pge) and the normalizer,           *)
(* ingest/power.go.  Second, evacuation zones, below.                       *)
(***************************************************************************)
EXTENDS Feed, Severity, SequencesExt

CONSTANTS Outage,     \* [id, customers, planned, parts]: parts of its area, 0 when PG&E draws none
          ShutoffRow  \* [event, period, start, stage, drawn]: rows of the PSPS coverage layer

\* PG&E draws an outage or does not; it never takes a drawing back.
ASSUME OutageAssumption ==
    /\ \A o, p \in Outage : o.id = p.id => o = p
    /\ \A o \in Outage : o.parts \in Nat

\* fetch: an error status, an error envelope in a 200, or a truncated answer
\* is an error; "unnamed" is a layer whose OUTAGE_ID was renamed.
LayerReplies == {"ok", "blank", "unnamed", "error"}
Answered(reply, rows) == IF reply \in {"ok", "unnamed"} THEN rows ELSE {}

\* GetOutages: the points with the polygons of their ids, the outages that
\* only the polygon layer has, and whether that layer was blank.
GetOutages(points, polygons) ==
    LET drawn == Answered(polygons, {o \in world.rows : o.parts > 0})
        spots == Answered(points, world.rows)
        named == (IF points = "ok" THEN spots ELSE {}) \cup (IF polygons = "ok" THEN drawn ELSE {})
    IN  [outages |-> {[id |-> o.id, outage |-> o, area |-> polygons = "ok" /\ o \in drawn] : o \in named},
         err |-> \/ "error" \in {points, polygons}
                 \/ points = "unnamed" /\ spots # {}
                 \/ polygons = "unnamed" /\ drawn # {},
         blank |-> drawn = {} /\ spots # {}]

\* GetOutagesLastUpdate: the newest time of the stamp table, an error when none
\* can be read; freshnessError: one that cannot be read is no reason to fail.
PowerStamp == {"fresh", "old", "unreadable"}
FreshnessError(stamp) == stamp = "old"

\* The geometry as this poll has it.
AreaOfPoll(o, blank) == o.area

\* attachOutageGeometry, priorFootprint: with the polygon layer blank the
\* stored area of the outage stays.
AttachOutageGeometry(o, blank) ==
    o.area \/ (blank /\ \E e \in live : e.id = <<"pge", o.id>> /\ e.area)

\* buildOutageEvent.
BuildOutageEvent(o, blank) ==
    [id |-> <<"pge", o.id>>, source |-> "pge", status |-> "ACTIVE",
     severity |-> FromPowerOutage(o.outage.customers, o.outage.planned),
     area |-> AttachOutageGeometry(o, blank)]

\* PSPSRepresentative: the earliest window, with the worst stage of the group.
PSPSRepresentative(group) ==
    LET first == CHOOSE a \in group : \A b \in group : a.start <= b.start
        worst == CHOOSE a \in group : \A b \in group : FromPSPSStage(b.stage) <= FromPSPSStage(a.stage)
    IN  [first EXCEPT !.stage = worst.stage]

\* pspsStatus
PspsStatus(a) == IF a.start > world.now THEN "SCHEDULED" ELSE "ACTIVE"

\* buildPSPSEvents: one event per event and time period (PSPSGroupKey).
PSPSGroupKey(a) == <<"psps", <<a.event, a.period>>>>
\* combineGeometry: the polygons of all rows that have one.
Drawn(group) == \E b \in group : b.drawn
BuildPSPSEvent(key, group) ==
    LET a == PSPSRepresentative(group)
    IN  [id |-> key, source |-> "psps", status |-> PspsStatus(a), severity |-> FromPSPSStage(a.stage),
         area |-> Drawn(group)]
BuildPSPSEvents(rows) ==
    {BuildPSPSEvent(key, {a \in rows : PSPSGroupKey(a) = key}) : key \in {PSPSGroupKey(a) : a \in rows}}

\* GetPSPSAreas: the rows of the coverage layer.
GetPSPSAreas == world.shutoffs

\* Poll.  An event without geometry is attached to every area, so it is kept.
PollPower(points, polygons, stamp, psps) ==
    LET got == GetOutages(points, polygons)
        failed == (IF got.err \/ got.blank \/ FreshnessError(stamp) THEN {"pge"} ELSE {})
                  \cup (IF psps = "error" THEN {"psps"} ELSE {})
        outages == IF got.err THEN {} ELSE {BuildOutageEvent(o, got.blank) : o \in got.outages}
        shutoffs == IF psps = "error" THEN {} ELSE BuildPSPSEvents(GetPSPSAreas)
    IN  IF Area = {} \/ (got.err /\ psps = "error") THEN PollError
        ELSE PollResult(outages \cup shutoffs, failed, {}, {})

\* One tick.
PowerTick(points, polygons, stamp, psps) ==
    /\ Apply(PollPower(points, polygons, stamp, psps), {})
    /\ UNCHANGED <<part, world>>

LoseOrRestore(o) ==
    /\ world' = [world EXCEPT !.rows = IF o \in @ THEN @ \ {o} ELSE @ \cup {o}]
    /\ UNCHANGED <<part, live, result>>
AnnounceOrEnd(a) ==
    /\ world' = [world EXCEPT !.shutoffs = IF a \in @ THEN @ \ {a} ELSE @ \cup {a}]
    /\ UNCHANGED <<part, live, result>>
PowerClock ==
    /\ world.now = 0
    /\ world' = [world EXCEPT !.now = 1]
    /\ UNCHANGED <<part, live, result>>

PowerInit == world = [now |-> 0, rows |-> {}, shutoffs |-> {}] /\ live = {} /\ result = NeverPolled
PowerNext ==
    \/ PowerClock
    \/ \E o \in Outage : LoseOrRestore(o)
    \/ \E a \in ShutoffRow : AnnounceOrEnd(a)
    \/ \E points, polygons \in LayerReplies, stamp \in PowerStamp, psps \in {"ok", "error"} :
          PowerTick(points, polygons, stamp, psps)

PowerSpec == part = "power" /\ PowerInit /\ [][PowerNext]_feedVars

(***************************************************************************)
(* Properties                                                              *)
(***************************************************************************)
\* A tick that is not shown the outage: the point layer is blank, and the polygon
\* layer is too or has no drawing of it.  The code takes that for an answer.
Unseen(o) ==
    \E polygons \in LayerReplies, stamp \in PowerStamp, psps \in {"ok", "error"} :
        /\ polygons = "blank" \/ o.parts = 0
        /\ PowerTick("blank", polygons, stamp, psps)

\* GetOutages, Poll: an outage that PG&E publishes stays tracked, and keeps an
\* area once it has one, whichever layer fails or changes its columns and though
\* the polygon layer is blank; a tick shown it by neither layer, the point layer
\* being blank, is the exception.  A shutoff stays while any row of its event is
\* published.  The opposite reads as "power restored", or as a spurious pair of
\* revisions.
OutageStaysAsDrawn ==
    [][part = "power" =>
         /\ \A o \in world.rows : \A e \in live :
               e.id = <<"pge", o.id>> => Unseen(o) \/ \E n \in live' : n.id = e.id /\ (e.area => n.area)
         /\ \A a \in world.shutoffs : PSPSGroupKey(a) \in Ids(live) => PSPSGroupKey(a) \in Ids(live')]_feedVars

\* What TLC refutes: the same of an outage that a tick is not shown.
PublishedOutageStays ==
    [][part = "power" => \A o \in world.rows : <<"pge", o.id>> \in Ids(live) => <<"pge", o.id>> \in Ids(live')]_feedVars

(***************************************************************************)
(* Evacuation zones: the statewide layer of Cal OES (clients/caloes) and    *)
(* the normalizer, ingest/evacuation.go.                                    *)
(***************************************************************************)
CONSTANT EvacRow   \* [zone, name, county, words, at]: rows the layer may carry; an id or name
                   \* is the sequence of its dash-separated parts, at the centroid, or Nowhere

\* The level of a row; a blank status is kept as a WARNING, a lifted one is gone.
EvacLevel(r) ==
    IF NormalizeEvacLevel(r.words) # "none" THEN NormalizeEvacLevel(r.words)
    ELSE IF EvacStatusInactive(r.words) THEN "none" ELSE "WARNING"

\* evacLevelRank
EvacLevelRank(l) ==
    IF l = "ORDER" THEN 4 ELSE IF l = "SHELTER_IN_PLACE" THEN 3
    ELSE IF l = "WARNING" THEN 2 ELSE IF l = "ADVISORY" THEN 1 ELSE 0

\* evacEventID: the id, else the name, else a digest of county and outline.
EvacEventID(r) ==
    IF r.zone # <<>> THEN r.zone ELSE IF r.name # <<>> THEN r.name ELSE <<"zone", r.county>>

\* sameEvacZone
SameEvacZone(a, b) ==
    IF a.zone # <<>> \/ b.zone # <<>> THEN a.zone = b.zone
    ELSE a.name = b.name /\ a.county = b.county /\ (a.name = <<>> => a.at = b.at)

\* buildEvent; without a usable outline the zone is attached to every area.
BuildEvacEvent(r) ==
    [id |-> EvacEventID(r), source |-> "caloes", county |-> r.county, at |-> r.at, level |-> EvacLevel(r),
     severity |-> FromEvacLevel(EvacLevel(r))]

\* Whichever row of the zone comes first.
FirstEvent(cluster) == BuildEvacEvent(Head(cluster))

\* resolveEvacIDCollisions: of several events on one zone the worst.
WorstEvent(cluster) ==
    FoldLeft(LAMBDA best, r : IF EvacLevelRank(EvacLevel(r)) > EvacLevelRank(best.level) THEN BuildEvacEvent(r) ELSE best,
             BuildEvacEvent(Head(cluster)), Tail(cluster))
EvacClusters(rows) ==
    FoldLeft(LAMBDA clusters, r :
                LET first == SelectInSeq(clusters, LAMBDA c : SameEvacZone(Head(c), r))
                IN  IF first = 0 THEN Append(clusters, <<r>>) ELSE [clusters EXCEPT ![first] = Append(@, r)],
             <<>>, rows)

\* Its sort, by county and centroid.
WinnerBefore(a, b) ==
    IF a.county # b.county THEN a.county < b.county
    ELSE IF Nowhere \in {a.at, b.at} THEN a.at = Nowhere /\ b.at # Nowhere ELSE a.at < b.at

\* assignEvacContinuityIDs: the nearest stored event of the county among the
\* base id and the ids that extend it, each taken once; the others the base id
\* or the first free suffix.
IsPriorOf(base, e) == IsPrefix(base, e.id)
NearestPrior(w, free) ==
    LET same == {e \in free : e.county = w.county /\ e.at # Nowhere /\ w.at # Nowhere}
    IN  {e \in same : \A o \in same : Distance(e.at, w.at) <= Distance(o.at, w.at)}
CollisionSuffix == <<"2", "3", "4">>
FreeID(base, taken) ==
    IF base \notin taken THEN base
    ELSE Append(base, CollisionSuffix[CHOOSE i \in DOMAIN CollisionSuffix : Append(base, CollisionSuffix[i]) \notin taken
                                   /\ \A j \in 1..(i - 1) : Append(base, CollisionSuffix[j]) \in taken])
AssignEvacContinuityIDs(base, winners) ==
    LET priors == {e \in PriorForSource("caloes") : IsPriorOf(base, e)}
        kept == FoldLeft(LAMBDA acc, w :
                    LET near == NearestPrior(w, {e \in priors : e.id \notin Ids(acc)})
                    IN  IF near = {} THEN acc ELSE acc \cup {[w EXCEPT !.id = (CHOOSE e \in near : TRUE).id]},
                  {}, winners)
        isKept(w) == \E k \in kept : k.at = w.at /\ k.county = w.county
    IN  FoldLeft(LAMBDA acc, w : IF isKept(w) THEN acc
                                 ELSE acc \cup {[w EXCEPT !.id = FreeID(base, Ids(acc))]},
                 kept, winners)

ResolveEvacIDCollisions(base, rows) ==
    AssignEvacContinuityIDs(base,
        SetToSortSeq({WorstEvent(c) : c \in Range(EvacClusters(rows))}, WinnerBefore))

\* Poll.  Two events under one id overwrite each other in the store.
PollEvac(reply, rows) ==
    LET active == SelectSeq(rows, LAMBDA r : EvacLevel(r) # "none")
        bases == {EvacEventID(r) : r \in Range(active)}
        events == UNION {ResolveEvacIDCollisions(b, SelectSeq(active, LAMBDA r : EvacEventID(r) = b)) : b \in bases}
    IN  IF Area = {} \/ reply = "error" THEN PollError
        ELSE PollResult({CHOOSE e \in events : e.id = id : id \in Ids(events)}, {}, {}, {})

\* One tick: GetActiveEvacuations answers in an order of its own.
EvacTick(reply) ==
    /\ \E rows \in SetToSeqs(world) : Apply(PollEvac(reply, rows), {})
    /\ UNCHANGED <<part, world>>

OrderOrLift(r) ==
    /\ world' = IF r \in world THEN world \ {r} ELSE world \cup {r}
    /\ UNCHANGED <<part, live, result>>

EvacInit == world = {} /\ live = {} /\ result = NeverPolled
EvacNext == (\E reply \in {"ok", "error"} : EvacTick(reply)) \/ (\E r \in EvacRow : OrderOrLift(r))

(***************************************************************************)
(* Properties                                                              *)
(***************************************************************************)
ZoneIsShown(r) ==
    \E e \in live' : e.at = r.at /\ e.county = r.county /\ EvacLevelRank(e.level) >= EvacLevelRank(EvacLevel(r))

\* A row whose base id neither extends nor is extended by that of another.
Unentangled(r) ==
    \A q \in EvacRow : LET a == EvacEventID(r)
                           b == EvacEventID(q)
                       IN  a = b \/ ~(IsPrefix(a, b) \/ IsPrefix(b, a))

\* resolveEvacIDCollisions: a poll that changes the map leaves no zone out and
\* none understated: where a row is in force there is an event at its place and
\* at its level or above, however rows collide on ids, in whatever order, and
\* whatever becomes beside it of a zone and its sub-zones, of which the code does
\* not keep the ids apart (EveryZoneAtItsWorst).
UnsplitZonesAtTheirWorst ==
    [][part = "evacuation" /\ live' # live =>
         \A r \in world : EvacLevel(r) # "none" /\ Unentangled(r) => ZoneIsShown(r)]_feedVars

\* "so neither zone is dropped and ids are stable across polls" (resolveEvacIDCollisions):
\* a poll that changes the map leaves no zone out and none understated.  TLC refutes it:
\* the stored event of a sub-zone is also a prior of its zone, which may take its id.
EveryZoneAtItsWorst ==
    [][part = "evacuation" /\ live' # live => \A r \in world : EvacLevel(r) # "none" => ZoneIsShown(r)]_feedVars

\* assignEvacContinuityIDs: an id never passes to another zone while the zone
\* it stood for is still listed.
EvacIdStaysWithItsZone ==
    [][part = "evacuation" =>
         \A e \in live, n \in live' : e.id = n.id /\ (e.at # n.at \/ e.county # n.county) =>
            ~\E r \in world : r.at = e.at /\ r.county = e.county /\ EvacLevel(r) # "none"]_feedVars
============================================================================
