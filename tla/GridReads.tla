----------------------------- MODULE GridReads -----------------------------
(***************************************************************************)
(* Requests of the grid API that compose several reads (internal/gridapi), *)
(* beside what is written meanwhile: the summary of a place with its map    *)
(* layers beside the pollers and, at the end of this module, the map of the *)
(* mesh's links beside the nodes' changes.                                  *)
(* A request is several reads, each its own query of the store: the events, *)
(* a page at a time, then the health rows, then the condition layers.  A    *)
(* tick is several writes: each event, then the sweep, then the health.     *)
(* live holds the stored events that touch the place.                       *)
(***************************************************************************)
EXTENDS Severity, Feed, SequencesExt

CONSTANTS LayerSources,   \* the event layers, and the sources that feed each
          MeshEnabled,    \* whether the mesh layer is switched on
          PolledSource,   \* the sources that are polled here
          EventVersion,   \* the versions of the events they publish
          StandingEvent,  \* stored events that no poll here is about
          StalePolls,     \* failed polls in a row that still read STALE
          ReadPageSize,   \* MaxPageSize
          Condition,      \* what the condition layers may come to
          NoRequest,         \* no request in progress, or none answered
          MaxReads,       \* bound on the requests
          MaxSummaryPolls \* bound on the polls

ASSUME EveryLayerHasASource == \A l \in DOMAIN LayerSources : LayerSources[l] # {}
ASSUME EvacuationIsALayer == "evacuation" \in DOMAIN LayerSources

-----------------------------------------------------------------------------
(***************************************************************************)
(* How a place is judged: the status a layer is served with, given the     *)
(* health rows of its sources and what is stored of it, and the mode of    *)
(* the place, given its events and those statuses.  Functions of what a    *)
(* request has read.                                                       *)
(***************************************************************************)
Status == {"OK", "STALE", "UNAVAILABLE"}
StatusRank(s) == CASE s = "OK" -> 0 [] s = "STALE" -> 1 [] OTHER -> 2

\* A row that was never polled vouches for nothing.
RowStatus(row) == IF row = "UNSPECIFIED" THEN "UNAVAILABLE" ELSE row

\* LayerSourceStatus: partial data must not present as complete.
LayerSourceStatus(rows, layer) ==
    LET now == {RowStatus(rows[s]) : s \in LayerSources[layer]}
    IN CASE now = {"OK"} -> "OK"
         [] now = {"UNAVAILABLE"} -> "UNAVAILABLE"
         [] OTHER -> "STALE"

\* A mutant: the store is taken to hold an answer in any case.
DegradeAnyStatus(status, hasData) ==
    IF status = "UNAVAILABLE" THEN "STALE" ELSE status

\* DegradeStoreStatus: what is stored is the last good answer of a source that is down.
DegradeStoreStatus(status, hasData) ==
    IF status = "UNAVAILABLE" /\ hasData THEN "STALE" ELSE status

OfLayer(events, layer) == {e \in events : e.layer = layer}

\* eventLayerStatus.
EventLayerStatus(events, rows, layer) ==
    DegradeStoreStatus(LayerSourceStatus(rows, layer), OfLayer(events, layer) # {})

\* isPlannedRoadwork.
PlannedRoadwork(e) == e.layer = "road_incident" /\ e.status = "SCHEDULED"

\* The three carve-outs: presence and burn status, single-premise outages, and roadwork to come.
IsHazard(e) ==
    /\ e.layer \notin {"mesh_node", "burn_status"}
    /\ ~(e.layer = "power" /\ e.severity = INFO)
    /\ ~PlannedRoadwork(e)

\* The highest of some severities, INFO when there are none.
MaxSeverity(events) ==
    IF events = {} THEN INFO
    ELSE CHOOSE m \in {e.severity : e \in events} : \A e \in events : e.severity <= m

\* ModeInputs.  cond has the status of each condition layer and the state of the fire weather.
ModeInputs(events, rows, cond) ==
    LET active == {e \in events : IsHazard(e) /\ e.status = "ACTIVE"}
    IN [evacLevels |-> {e.level : e \in OfLayer(active, "evacuation")},
        evacUnavailable |-> EventLayerStatus(events, rows, "evacuation") = "UNAVAILABLE",
        maxActive |-> MaxSeverity(active),
        maxWildfire |-> MaxSeverity(OfLayer(active, "wildfire")),
        fireWeather |-> cond.fireWeather,
        anyUnavailable |->
            \/ \E l \in DOMAIN cond.status : cond.status[l] = "UNAVAILABLE"
            \/ \E l \in DOMAIN LayerSources \ {"burn_status"} :
                 /\ l = "mesh_node" => MeshEnabled
                 /\ EventLayerStatus(events, rows, l) = "UNAVAILABLE"]

\* ComputeMode, its three blocks of early returns.
IsActive(in) ==
    \/ in.evacLevels \ {"ADVISORY"} # {}
    \/ in.maxActive >= EXTREME
    \/ in.maxWildfire >= SEVERE

IsWatch(in) ==
    \/ in.maxActive >= SEVERE
    \/ "ADVISORY" \in in.evacLevels
    \/ in.fireWeather \in {"elevated", "red-flag"}
    \/ in.evacUnavailable
    \/ in.anyUnavailable /\ in.maxActive >= MODERATE

ComputeMode(in) ==
    IF IsActive(in) THEN "ACTIVE" ELSE IF IsWatch(in) THEN "WATCH" ELSE "QUIET"

ModeRank(m) == CASE m = "QUIET" -> 0 [] m = "WATCH" -> 1 [] OTHER -> 2

\* worstStatus.
WorstStatus(ss) ==
    CASE \E s \in ss : StatusRank(s) = 2 -> "UNAVAILABLE"
      [] (\E s \in ss : StatusRank(s) = 1) /\ ~\E s \in ss : StatusRank(s) = 2 -> "STALE"
      [] OTHER -> "OK"

\* The domains of the answer: the event layer of each, and its condition layers.
DomainLayers ==
    [fire |-> <<"wildfire", {"fire_weather"}>>, evacuation |-> <<"evacuation", {}>>,
     weather |-> <<"weather_alert", {}>>, roads |-> <<"road_incident", {"chain_control", "road_segment"}>>,
     seismic |-> <<"earthquake", {}>>, power |-> <<"power", {}>>,
     burn |-> <<"burn_status", {}>>, comms |-> <<"mesh_node", {}>>]

\* buildDomain: an event counts, a condition only above INFO.
BuildDomain(events, rows, cond, domain) ==
    LET layer == DomainLayers[domain][1]
        conditions == DomainLayers[domain][2]
        items == {e \in OfLayer(events, layer) : ~PlannedRoadwork(e)}
        raised == UNION {{f \in cond.features[l] : f.severity > INFO} : l \in conditions}
    IN [status |-> WorstStatus({EventLayerStatus(events, rows, layer)} \cup {cond.status[l] : l \in conditions}),
        active |-> Cardinality(items) + Cardinality(raised),
        highest |-> MaxSeverity(items \cup raised)]

\* The domains reported: burn and comms where they are configured.
Domains == {d \in DOMAIN DomainLayers :
              /\ DomainLayers[d][1] \in DOMAIN LayerSources
              /\ d = "comms" => MeshEnabled}

-----------------------------------------------------------------------------
(***************************************************************************)
(* The requests and the writes beside them.                                *)
(***************************************************************************)
AllSources == UNION {LayerSources[l] : l \in DOMAIN LayerSources}
AllVersions == EventVersion \cup StandingEvent

ASSUME SummaryAssumption ==
    /\ PolledSource \subseteq AllSources /\ StalePolls \in Nat /\ ReadPageSize \in Nat \ {0}
    /\ IsFiniteSet(AllVersions)
    /\ \A e \in AllVersions : e.severity \in Rank /\ e.observed \in Int /\ e.rank \in Int
    /\ \A a, b \in AllVersions : a.rank = b.rank <=> a.id = b.id
    /\ \A a \in StandingEvent, b \in AllVersions : a.id = b.id => a = b
\* Cal OES alone publishes evacuations, and none but active ones (ingest/evacuation.go).
ASSUME EvacuationAssumption ==
    /\ LayerSources["evacuation"] = {"caloes"}
    /\ \A e \in AllVersions : e.layer = "evacuation" => e.status = "ACTIVE"

\* Events as the store orders them: severity DESC, observed_at DESC, id ASC.
Before(a, b) ==
    \/ a.severity > b.severity
    \/ a.severity = b.severity /\ a.observed > b.observed
    \/ a.severity = b.severity /\ a.observed = b.observed /\ a.rank < b.rank

Live(layers) == {e \in live : e.layer \in layers}

\* What is left to read after the cursor, and how many of some events come before one.
Beyond(cursor, e) == cursor = <<>> \/ Before(cursor[1], e)
Ahead(es, e) == Cardinality({x \in es : Before(x, e)})

\* QueryEvents: the events beyond the cursor, the first page of them, and whether more follow.
QueryEvents(layers, cursor) ==
    LET left == {e \in Live(layers) : Beyond(cursor, e)}
        size == IF Cardinality(left) < ReadPageSize THEN Cardinality(left) ELSE ReadPageSize
    IN [page |-> [i \in 1 .. size |-> CHOOSE e \in left : Ahead(left, e) = i - 1],
        more |-> Cardinality(left) > ReadPageSize]

\* Whether an answer of "no evacuation" would be sound now: the source is not
\* down and no zone is stored as active.
ConfirmedNone(rows, events) ==
    /\ RowStatus(rows["caloes"].status) # "UNAVAILABLE"
    /\ ~\E e \in events : e.layer = "evacuation" /\ e.status = "ACTIVE"

\* The request in progress follows a write: an event that is written anew or
\* ended is no longer steady; confirmed remembers a moment of ConfirmedNone.
Watching(reader, rows, events) ==
    IF reader = NoRequest THEN NoRequest
    ELSE [reader EXCEPT !.steady = @ \cap events, !.confirmed = @ \/ ConfirmedNone(rows, events)]

SetWorld(w, events) ==
    /\ live' = events
    /\ world' = [w EXCEPT !.reader = Watching(@, w.rows, events)]
    /\ UNCHANGED <<part, result>>

\* n.Poll: what the source publishes at the moment, or an error.
PollSource(s) ==
    /\ world.tick[s].at = "idle" /\ world.polls < MaxSummaryPolls
    /\ \/ \E es \in SUBSET {v \in EventVersion : v.source = s} :
            /\ \A a, b \in es : a.id = b.id => a = b
            /\ SetWorld([world EXCEPT !.polls = @ + 1, !.tick[s] = [at |-> "upsert", todo |-> es, polled |-> es]], live)
       \/ SetWorld([world EXCEPT !.polls = @ + 1, !.tick[s] = [at |-> "failed", todo |-> {}, polled |-> {}]], live)

\* tick: the events one transaction each, those that changed.
UpsertNext(s) ==
    LET t == world.tick[s]
        changed == t.todo \ live
    IN /\ t.at = "upsert"
       /\ IF changed = {}
          THEN SetWorld([world EXCEPT !.tick[s].at = "sweep", !.tick[s].todo = {}], live)
          ELSE \E e \in changed :
                 SetWorld([world EXCEPT !.tick[s].todo = changed \ {e}], {x \in live : x.id # e.id} \cup {e})

\* sweepDisappeared: what the poll no longer has is ended, one transaction each.
Sweep(s) ==
    LET gone == {e \in live : e.source = s /\ e.id \notin Ids(world.tick[s].polled)}
    IN /\ world.tick[s].at = "sweep"
       /\ IF gone = {}
          THEN SetWorld([world EXCEPT !.tick[s].at = "health"], live)
          ELSE \E e \in gone : SetWorld(world, live \ {e})

\* RecordAttempt: OK on a success; a failure is STALE for a while after the
\* last success, then UNAVAILABLE.
RecordAttempt(row, ok) ==
    IF ok THEN [status |-> "OK", missed |-> 0]
    ELSE IF row.missed < StalePolls
    THEN [status |-> "STALE", missed |-> row.missed + 1]
    ELSE [row EXCEPT !.status = "UNAVAILABLE"]

RecordHealth(s) ==
    /\ world.tick[s].at \in {"health", "failed"}
    /\ SetWorld([world EXCEPT !.tick[s] = [at |-> "idle", todo |-> {}, polled |-> {}],
                              !.rows[s] = RecordAttempt(@, world.tick[s].at = "health")], live)

\* GetPlaceSummary, serveMapLayer: a request, for all layers or for one.
BeginRead(kind, layers) ==
    /\ world.reader = NoRequest /\ world.reads < MaxReads
    /\ world' = [world EXCEPT !.reads = @ + 1,
                   !.reader = [kind |-> kind, layers |-> layers, at |-> "events", got |-> <<>>, cursor |-> <<>>,
                               rows |-> <<>>, steady |-> Live(layers),
                               confirmed |-> ConfirmedNone(world.rows, live)]]
    /\ result' = NoRequest
    /\ UNCHANGED <<part, live>>

BeginSummary == BeginRead("summary", DOMAIN LayerSources)
BeginMapLayer(layer) == BeginRead("map", {layer})

\* The loop over the pages.
ReadPage ==
    /\ world.reader # NoRequest /\ world.reader.at = "events"
    /\ LET q == QueryEvents(world.reader.layers, world.reader.cursor)
       IN world' = [world EXCEPT !.reader.got = @ \o q.page,
                                 !.reader.cursor = IF q.more THEN <<q.page[Len(q.page)]>> ELSE <<>>,
                                 !.reader.at = IF q.more THEN "events" ELSE "sources"]
    /\ UNCHANGED <<part, live, result>>

\* ListSources.
ReadSources ==
    /\ world.reader # NoRequest /\ world.reader.at = "sources"
    /\ world' = [world EXCEPT !.reader.at = "answer",
                              !.reader.rows = [s \in DOMAIN world.rows |-> world.rows[s].status]]
    /\ UNCHANGED <<part, live, result>>

\* What every answer is kept with, for the properties.
AnsweredWith(answer) ==
    LET r == world.reader
    IN /\ result' = [answer |-> answer, kind |-> r.kind, got |-> r.got, steady |-> r.steady, rows |-> r.rows,
                     confirmed |-> r.confirmed]
       /\ world' = [world EXCEPT !.reader = NoRequest]
       /\ UNCHANGED <<part, live>>

Count(got, Test(_)) == Cardinality({i \in DOMAIN got : Test(got[i])})

\* buildPlaceSummary, from the condition layers on.  Each occurrence of an event
\* on the pages counts.
AnswerSummary(cond) ==
    LET r == world.reader
        events == ToSet(r.got)
        evac == EventLayerStatus(events, r.rows, "evacuation")
        active(e) == e.layer = "evacuation" /\ e.status = "ACTIVE"
    IN /\ r # NoRequest /\ r.at = "answer" /\ r.kind = "summary"
       /\ AnsweredWith([mode |-> ComputeMode(ModeInputs(events, r.rows, cond)),
                    evacStatus |-> evac,
                    evacuations |-> IF evac = "UNAVAILABLE" THEN <<>> ELSE <<Count(r.got, active)>>,
                    total |-> Count(r.got, IsHazard),
                    highest |-> MaxSeverity({e \in events : IsHazard(e)}),
                    domains |-> [d \in Domains |-> BuildDomain(events, r.rows, cond, d)]])

\* serveEventLayer: the features and the status they are served with.
AnswerMapLayer ==
    LET r == world.reader
    IN /\ r # NoRequest /\ r.at = "answer" /\ r.kind = "map"
       /\ \E layer \in r.layers :
            AnsweredWith([status |-> EventLayerStatus(ToSet(r.got), r.rows, layer), features |-> r.got])

\* A source starts unpolled with nothing stored, or anywhere its polls have led it.
SummaryInit ==
    /\ \E es \in SUBSET EventVersion :
         /\ \A a, b \in es : a.id = b.id => a = b
         /\ live = StandingEvent \cup es
    /\ \E status \in [PolledSource -> Status \cup {"UNSPECIFIED"}] :
         /\ \A e \in live : e.source \in PolledSource => status[e.source] # "UNSPECIFIED"
         /\ world = [rows |-> [s \in AllSources |->
                                IF s \notin PolledSource THEN [status |-> "OK", missed |-> 0]
                                ELSE [status |-> status[s], missed |-> IF status[s] = "OK" THEN 0 ELSE StalePolls]],
                     tick |-> [s \in PolledSource |-> [at |-> "idle", todo |-> {}, polled |-> {}]],
                     reader |-> NoRequest, reads |-> 0, polls |-> 0]
    /\ result = NoRequest

\* The pollers run on until the last request is answered.
StillReading == world.reader # NoRequest \/ world.reads < MaxReads

SummaryNext ==
    \/ \E s \in PolledSource : StillReading /\ (PollSource(s) \/ UpsertNext(s) \/ Sweep(s) \/ RecordHealth(s))
    \/ BeginSummary
    \/ \E layer \in {"evacuation", "wildfire"} : BeginMapLayer(layer)
    \/ ReadPage
    \/ ReadSources
    \/ \E cond \in Condition : AnswerSummary(cond)
    \/ AnswerMapLayer

SummarySpec == part = "summary" /\ SummaryInit /\ [][SummaryNext]_feedVars

-----------------------------------------------------------------------------
(* Properties.                                                             *)

SummaryAnswer == part = "summary" /\ result # NoRequest

\* Every event that stands unchanged from the first page of a request to the
\* answer is on exactly one of its pages, whatever is written in between: the
\* keyset of QueryEvents.
DrainIsComplete ==
    SummaryAnswer => \A e \in result.steady : Cardinality({i \in DOMAIN result.got : result.got[i].id = e.id}) = 1

\* An answer of QUIET is backed: the rows it read vouch for the evacuation
\* source, and no event that stood throughout is an active evacuation or an
\* active event of severity SEVERE or more (ComputeMode, "unknown is never quiet").
QuietIsBacked ==
    SummaryAnswer /\ result.kind = "summary" /\ result.answer.mode = "QUIET" =>
        /\ result.rows["caloes"] \in {"OK", "STALE"}
        /\ \A e \in result.steady :
             e.status = "ACTIVE" => e.layer # "evacuation" /\ (e.severity < SEVERE \/ ~IsHazard(e))

\* buildPlaceSummary's comment "evacuation invariant (an error never becomes a
\* 0)": a request that answers 0 evacuations met a moment at which the source
\* was not down and no active zone was stored.
EvacZeroIsConfirmed ==
    SummaryAnswer /\ result.kind = "summary" /\ result.answer.evacuations = <<0>> => result.confirmed

(***************************************************************************)
(* The map layer of the mesh's links around a place (gridapi/mesh.go).  One*)
(* request reads all nodes, those of the place, the links and the sources, *)
(* each in a query of its own, while nodes come, go and move.              *)
(***************************************************************************)

CONSTANTS MeshKey,          \* the nodes' keys
          LinkPosition,     \* where a node may be, or Nowhere
          MeshRegion,       \* the place, as [lo, hi]
          MaxLinkChanges

LinkPair == {p \in SUBSET MeshKey : Cardinality(p) = 2}

\* live: the stored nodes, each with its position and whether it is attached to
\* the place: by where it is, or through its reporter when nobody knows.
LinksInit ==
    /\ world = [links |-> {}, down |-> FALSE, changes |-> 0, phase |-> "idle",
                all |-> {}, region |-> {}, read |-> {}, calm |-> TRUE]
    /\ live = {}
    /\ result = NeverPolled

Disturb(w) ==
    w.changes < MaxLinkChanges /\ world' = [w EXCEPT !.changes = @ + 1, !.calm = FALSE] /\ result' = NeverPolled /\ UNCHANGED part

\* Ingest stores, moves or expires a node.
StoreNode(k, at, byReporter) ==
    /\ Disturb(world)
    /\ live' = {n \in live : n.key # k} \cup
               {[key |-> k, at |-> at, attached |-> IF at = Nowhere THEN byReporter ELSE InArea(at, MeshRegion)]}
ExpireNode(k) ==
    /\ Disturb(world) /\ \E n \in live : n.key = k
    /\ live' = {n \in live : n.key # k}

\* A link is heard, or falls out of the window.
TurnLink(p) ==
    /\ Disturb([world EXCEPT !.links = IF p \in @ THEN @ \ {p} ELSE @ \cup {p}])
    /\ UNCHANGED live
TurnSource == Disturb([world EXCEPT !.down = ~@]) /\ UNCHANGED live

Reads(from, w) == world.phase = from /\ world' = w /\ result' = NeverPolled /\ UNCHANGED <<part, live>>

\* queryNetworkEvents, of everywhere and of the place; MeshLinks.
ReadNodes ==
    Reads("idle", [world EXCEPT !.phase = "region", !.calm = TRUE, !.all = {n \in live : n.at # Nowhere}])
ReadRegion == Reads("region", [world EXCEPT !.phase = "links", !.region = {n.key : n \in {m \in live : m.attached}}])
ReadLinks == Reads("links", [world EXCEPT !.phase = "build", !.read = world.links])

ByPub == {n.key : n \in world.all}

\* The links that touch the place and have two ends that can be drawn.
Lines == {p \in world.read : p \cap world.region # {} /\ p \subseteq ByPub}

\* A mutant: a neighbour outside of the place is left out.
RegionOnly == world.region \cap ByPub

\* The points: the nodes of the place that have a position, and the ends of the lines.
NodeSet == (world.region \cap ByPub) \cup UNION Lines

\* LayerSourceStatus, DegradeStoreStatus.
LinkStatus(drawn) == IF ~world.down THEN "OK" ELSE IF drawn THEN "STALE" ELSE "UNAVAILABLE"

ServeMeshLinkLayer ==
    /\ world.phase = "build"
    /\ result' = [lines |-> Lines, points |-> {[key |-> k, inRegion |-> k \in world.region] : k \in NodeSet},
                  status |-> LinkStatus(Lines # {} \/ NodeSet # {}), down |-> world.down,
                  calm |-> world.calm, stored |-> live, heard |-> world.links]
    /\ world' = [world EXCEPT !.phase = "idle", !.all = {}, !.region = {}, !.read = {}]
    /\ UNCHANGED <<part, live>>

\* ServeMeshLinks (global): the links of the window as they are.
ServeMeshLinks ==
    /\ world.phase = "idle"
    /\ result' = [links |-> world.links]
    /\ UNCHANGED <<part, world, live>>

LinksNext ==
    \/ \E k \in MeshKey : ExpireNode(k) \/ \E at \in LinkPosition, r \in BOOLEAN : StoreNode(k, at, r)
    \/ \E p \in LinkPair : TurnLink(p)
    \/ TurnSource \/ ReadNodes \/ ReadRegion \/ ReadLinks \/ ServeMeshLinkLayer \/ ServeMeshLinks

LinksSpec == part = "links" /\ LinksInit /\ [][LinksNext]_feedVars

\* Whatever changes between its reads, the map is a graph of its own: each line
\* joins two nodes that are drawn, one of them in the place, no node is drawn
\* without a position, a node outside is there for a line, and a dead source is
\* no empty map in good health.  Undisturbed it is the whole subgraph
\* (serveMeshLinkLayer, gridapi/mesh.go).
MeshMapIsWhole ==
    part = "links" /\ result # NeverPolled /\ "lines" \in DOMAIN result =>
        LET drawn == {p.key : p \in result.points}
            inside == {p.key : p \in {q \in result.points : q.inRegion}}
            located == {n.key : n \in {m \in result.stored : m.at # Nowhere}}
            near == {n.key : n \in {m \in result.stored : m.attached}}
            whole == {p \in result.heard : p \subseteq located /\ p \cap near # {}}
        IN /\ \A p \in result.lines : p \subseteq drawn /\ p \cap inside # {}
           /\ \A k \in drawn \ inside : \E p \in result.lines : k \in p
           /\ result.down => result.status # "OK"
           /\ result.calm => result.lines = whole /\ drawn = (near \cap located) \cup UNION whole
=============================================================================
