------------------------------ MODULE Wildfire ------------------------------
(***************************************************************************)
(* Wildfires: CAL FIRE's list of incidents (clients/calfire), the perimeter *)
(* layer of FIRIS (clients/firis), and the normalizer that joins them by    *)
(* name, ingest/wildfire.go.                                                *)
(***************************************************************************)
EXTENDS Feed, SequencesExt

CONSTANTS Fire,          \* [uuid, name, at]: what CAL FIRE may list
          PerimRow,      \* [fire, name, number, status, drawn, date, flight, acres, lo, hi]: what FIRIS may carry
          WildfireMargin,
          ClusterWidth   \* perimClusterThresholdSq

\* wildfireScope, inWildfireScope: the point in the widened box, or an overlap.
OverlapsScope(g) == \E at \in g.lo..g.hi : InUnion(at, WildfireMargin)
InWildfireScope(at, g) == InUnion(at, WildfireMargin) \/ OverlapsScope(g)

Point(at) == [lo |-> at, hi |-> at]
Outline(r) == [lo |-> r.lo, hi |-> r.hi]
Centroid(g) == (g.lo + g.hi) \div 2
CentroidDist(g, h) == Distance(Centroid(g), Centroid(h))

\* GetActiveIncidents: every incident the list has; one without a position is
\* at zero, zero.
GetActiveIncidents == world.burning

\* GetPerimeters: the rows that touch the box.
GetPerimeters == {r \in world.rows : OverlapsScope(Outline(r))}

(***************************************************************************)
(* One perimeter per fire                                                  *)
(***************************************************************************)
\* perimFresher: the date, then the status, the kind of flight and the size.
PerimFresher(a, b) ==
    \/ a.date > b.date
    \/ a.date = b.date /\ a.status = "Active" /\ b.status # "Active"
    \/ a.date = b.date /\ (a.status = "Active" <=> b.status = "Active")
       /\ (a.flight > b.flight \/ (a.flight = b.flight /\ a.acres > b.acres))

\* sameFire: incident numbers decide when both rows have one, else distance.
SameFire(a, b) ==
    IF a.number # 0 /\ b.number # 0 THEN a.number = b.number
    ELSE CentroidDist(Outline(a), Outline(b)) < ClusterWidth

\* clusterByCentroid: the numbered rows lead, a row joins the first cluster
\* whose leader is the same fire.
LeadsBefore(a, b) ==
    IF (a.number = 0) # (b.number = 0) THEN a.number # 0
    ELSE IF a.number # b.number THEN a.number < b.number
    ELSE Centroid(Outline(a)) < Centroid(Outline(b))
ClusterByCentroid(group) ==
    FoldLeft(LAMBDA clusters, row :
                LET first == SelectInSeq(clusters, LAMBDA c : SameFire(Head(c), row))
                IN  IF first = 0 THEN Append(clusters, <<row>>)
                    ELSE [clusters EXCEPT ![first] = Append(@, row)],
             <<>>, SetToSortSeq(group, LeadsBefore))

\* dedupePerimeters: active, named (firisName) and drawable rows, the freshest
\* of each cluster.
Usable(r) == r.status \in {"", "Active"} /\ r.name # "" /\ r.drawn
Freshest(cluster) ==
    FoldLeft(LAMBDA best, r : IF PerimFresher(r, best) THEN r ELSE best, Head(cluster), Tail(cluster))
DedupePerimeters(perims) ==
    LET rows == {r \in perims : Usable(r)}
    IN  UNION {{Freshest(c) : c \in Range(ClusterByCentroid({r \in rows : r.name = n}))} : n \in {r.name : r \in rows}}

(***************************************************************************)
(* The perimeter cache                                                     *)
(***************************************************************************)
\* gatedPerimeters: the last good rows while the layer's edit stamp is the one
\* they were read under and they are young; an empty or failed answer is never
\* kept.  Gives the rows, the error and the cache afterwards.
GatedPerimeters(stamp, layer) ==
    LET cache == world.cache
        fetched == [rows |-> IF layer = "ok" THEN GetPerimeters ELSE {}, err |-> layer # "ok", cache |-> cache]
    IN  IF stamp = "down" THEN fetched
        ELSE IF cache.have /\ ~cache.edited /\ ~cache.old
             THEN [rows |-> cache.rows, err |-> FALSE, cache |-> cache]
        ELSE IF fetched.err \/ fetched.rows = {} THEN fetched
        ELSE [fetched EXCEPT !.cache = [have |-> TRUE, rows |-> fetched.rows, edited |-> FALSE, old |-> FALSE]]

(***************************************************************************)
(* Events and their ids                                                    *)
(***************************************************************************)
FireID(f) == <<"calfire", f.uuid>>
StandaloneID(name, n) == <<"firis", name, n>>
IsStandaloneIDForName(id, name) == id[1] = "firis" /\ id[2] = name

\* standaloneContinuityID: the id of the one candidate of a name.
StandaloneContinuityID(name, g) ==
    LET prior == {e \in PriorForSource("firis") : IsStandaloneIDForName(e.id, name)}
    IN  IF prior = {} THEN StandaloneID(name, 1)
        ELSE (CHOOSE e \in prior : \A o \in prior : CentroidDist(e.geom, g) <= CentroidDist(o.geom, g)).id

\* standalonePerimeterEvents: numbered by centroid when a name has several.
StandalonePerimeterEvents(cands, used) ==
    LET open == {c \in cands : c.name \notin used}
        others(c) == {d \in open : d.name = c.name} \ {c}
        rank(c) == 1 + Cardinality({d \in others(c) : Centroid(Outline(d)) < Centroid(Outline(c))})
    IN  {[id |-> IF others(c) = {} THEN StandaloneContinuityID(c.name, Outline(c)) ELSE StandaloneID(c.name, rank(c)),
          source |-> "firis", geom |-> Outline(c), perim |-> TRUE] : c \in open}

\* supersededStandalones: the stored ids the adopted perimeters would have had.
SupersededStandalones(adopted) ==
    {StandaloneContinuityID(c.name, Outline(c)) : c \in adopted} \cap Ids(live)

\* The adopted perimeter, or the point; nothing remembered from earlier polls.
IncidentGeometryNow(f, cand, unusable) ==
    IF cand # {} THEN [geom |-> Outline(CHOOSE c \in cand : TRUE), perim |-> TRUE]
    ELSE [geom |-> Point(f.at), perim |-> FALSE]

\* The geometry of an incident: the one perimeter of its name; when there are
\* no usable perimeters the stored one; else its point.
IncidentGeometry(f, cand, unusable) ==
    LET kept == {e \in live : e.id = FireID(f) /\ e.perim}
    IN  IF cand # {} THEN [geom |-> Outline(CHOOSE c \in cand : TRUE), perim |-> TRUE]
        ELSE IF unusable /\ kept # {} THEN [geom |-> (CHOOSE e \in kept : TRUE).geom, perim |-> TRUE]
        ELSE [geom |-> Point(f.at), perim |-> FALSE]

\* Poll.
PollWildfire(calfire, firis) ==
    LET failed == (IF calfire # "ok" THEN {"calfire"} ELSE {}) \cup (IF firis.err THEN {"firis"} ELSE {})
        deduped == DedupePerimeters(firis.rows)
        named(name) == {c \in deduped : c.name = name}
        match(f) == IF Cardinality(named(f.name)) = 1 THEN named(f.name) ELSE {}
        placed(f) == IncidentGeometry(f, match(f), firis.err \/ deduped = {})
        shown == {f \in IF calfire = "ok" THEN GetActiveIncidents ELSE {} :
                    f.at # Nowhere /\ InWildfireScope(f.at, placed(f).geom)}
        adopted == UNION {match(f) : f \in shown}
        incidents == {[id |-> FireID(f), source |-> "calfire", geom |-> placed(f).geom, perim |-> placed(f).perim] :
                        f \in shown}
        alone == StandalonePerimeterEvents(deduped, {c.name : c \in adopted})
        standalone == IF calfire = "ok" THEN alone ELSE {e \in alone : e.id \in Ids(PriorForSource("firis"))}
    IN  IF Area = {} \/ failed = {"calfire", "firis"} THEN PollError
        ELSE PollResult(incidents \cup standalone, failed, {}, SupersededStandalones(adopted))

\* One tick, with the answer of the perimeter cache; some of the absent perimeters
\* have used up their grace.
FireTick(calfire, firis, lapsed) ==
    /\ Apply(PollWildfire(calfire, firis), lapsed)
    /\ world' = [world EXCEPT !.cache = firis.cache]
    /\ UNCHANGED part

(***************************************************************************)
(* Upstream                                                                *)
(***************************************************************************)
Upstream(w) == world' = w /\ UNCHANGED <<part, live, result>>
ListFire(f) == f \notin world.burning /\ Upstream([world EXCEPT !.burning = @ \cup {f}])
DelistFire(f) == f \in world.burning /\ Upstream([world EXCEPT !.burning = @ \ {f}])
EditRows(rows) == Upstream([world EXCEPT !.rows = rows, !.cache.edited = TRUE])
DrawRow(r) == r \notin world.rows /\ EditRows(world.rows \cup {r})
DropRow(r) == r \in world.rows /\ EditRows(world.rows \ {r})
CacheAges == world.cache.have /\ ~world.cache.old /\ Upstream([world EXCEPT !.cache.old = TRUE])

FireInit ==
    /\ world = [burning |-> {}, rows |-> {},
                cache |-> [have |-> FALSE, rows |-> {}, edited |-> TRUE, old |-> FALSE]]
    /\ live = {} /\ result = NeverPolled

FireNext ==
    \/ CacheAges
    \/ \E f \in Fire : ListFire(f) \/ DelistFire(f)
    \/ \E r \in PerimRow : DrawRow(r) \/ DropRow(r)
    \/ \E calfire \in {"ok", "down"}, firis \in {GatedPerimeters(stamp, layer) : stamp, layer \in {"ok", "down"}},
          lapsed \in SUBSET Ids(PriorForSource("firis")) : FireTick(calfire, firis, lapsed)

(***************************************************************************)
(* Properties                                                              *)
(***************************************************************************)
\* An event that stands for the fire: its own, or a perimeter drawn over it.
Shows(e, f) ==
    \/ e.id = FireID(f)
    \/ e.perim /\ \E r \in PerimRow : r.fire = f.uuid /\ e.geom.lo <= r.hi /\ r.lo <= e.geom.hi

\* The source of the event still reports the fire, in the region.
Outlined(f) == \E r \in GetPerimeters : r.fire = f.uuid /\ Usable(r)
StillReported(e, f) ==
    IF e.source = "firis" THEN Outlined(f)
    ELSE f \in world.burning /\ (InUnion(f.at, WildfireMargin) \/ Outlined(f))

StaysOnTheMap(f) == \A e \in live : Shows(e, f) /\ StillReported(e, f) => \E n \in live' : Shows(n, f)

\* No other fire has its name.
Unmistakable(f) ==
    /\ \A r \in PerimRow : r.name = f.name => r.fire = f.uuid
    /\ \A g \in Fire \ {f} : g.name # f.name

\* Poll: a fire that an event stands for, and that the source of the event
\* still reports in the region, stays on the map, whichever feed is down and
\* however the perimeters of other fires are matched and numbered: an incident
\* that is in the region only by its perimeter outlives an outage of FIRIS
\* (perimsUnusable); with CAL FIRE down "a genuinely new fire [...] stays
\* invisible", a tracked one does not.  A fire that shares its name stays as long
\* as CAL FIRE answers: without it ids follow names, and EveryFireStays is refuted.
FireStaysOnTheMap ==
    [][part = "wildfire" =>
         \A f \in Fire : Unmistakable(f) \/ "calfire" \notin result'.failed => StaysOnTheMap(f)]_feedVars

\* The same of every fire: what TLC refutes for fires of one name.
EveryFireStays == [][part = "wildfire" => \A f \in Fire : StaysOnTheMap(f)]_feedVars

\* supersededStandalones: after a poll that heard both feeds no perimeter an
\* incident has taken over is also drawn on its own.
PerimeterDrawnOnce ==
    part = "wildfire" /\ ~result.hard /\ result.failed = {} =>
        \A c, s \in live : c.source = "calfire" /\ s.source = "firis" /\ c.perim
                           /\ (\E f \in Fire : FireID(f) = c.id /\ IsStandaloneIDForName(s.id, f.name))
                           => CentroidDist(c.geom, s.geom) >= ClusterWidth
============================================================================
