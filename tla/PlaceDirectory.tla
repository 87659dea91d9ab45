--------------------------- MODULE PlaceDirectory ---------------------------
(***************************************************************************)
(* The directory of places (internal/places, internal/store/places.go) over *)
(* deploys that change the configuration, and what a place inherits by      *)
(* where it lies: its fire weather and its weather (internal/gridapi), and  *)
(* its county's burn status (cmd/server).  The seed writes the places one   *)
(* transaction each and deletes none.  A position is a point of a line in   *)
(* steps finer than the stored precision.                                   *)
(***************************************************************************)
EXTENDS Feed

CONSTANTS Deployment,   \* name -> [areas, towns, roads]
          CountyShape,  \* the embedded counties, as [slug, lo, hi]
          Precision,    \* steps between two stored positions
          Epsilon,      \* coordRoundingEpsilon
          TownRadius, CorridorBuffer,
          Product,      \* the fire weather NWS may have issued, as [state, zones]
          Query,        \* the positions that are looked up
          MaxDeploys

ASSUME PositionsAssumption ==
    /\ Precision \in Nat \ {0} /\ Epsilon \in Nat
    /\ \A c \in CountyShape : c.lo \in Int /\ c.hi \in Int
    /\ \A d \in DOMAIN Deployment :
         /\ \A t \in Deployment[d].towns : t.at \in Int
         /\ \A a \in Deployment[d].areas :
              a.lo \in Int /\ a.hi \in Int /\ (a.drawn = <<>> \/ a.drawn \in Int \X Int)
\* The counties meet at their borders and no configured town lies on one.
ASSUME OneCountyAssumption ==
    \A d \in DOMAIN Deployment : \A t \in Deployment[d].towns : \A b, c \in CountyShape :
        b.lo <= t.at /\ t.at <= b.hi /\ c.lo <= t.at /\ t.at <= c.hi => b.slug = c.slug
ASSUME SomeDeployment == DOMAIN Deployment # {}

\* geojson trim: a stored position is rounded.
Trim(x) == ((x + Precision \div 2) \div Precision) * Precision

Row(kind, slug, lo, hi, parent) ==
    [id |-> <<kind, slug>>, kind |-> kind, slug |-> slug, lo |-> lo, hi |-> hi, parent |-> parent]

\* containingCounty.
ContainingCounty(at) ==
    LET in == {c \in CountyShape : c.lo <= at /\ at <= c.hi}
    IN IF in = {} THEN <<>> ELSE <<"COUNTY", (CHOOSE c \in in : TRUE).slug>>

\* The polygon drawn for an area, the path recorded for a road, is stored as it
\* is; without one the area is its configured box, the road the chord between
\* its ends, both rounded.
Shape(drawn, from, to) == IF drawn = <<>> THEN <<Trim(from), Trim(to)>> ELSE drawn
AreaPlaces(d) ==
    {Row("AREA", a.id, Shape(a.drawn, a.lo, a.hi)[1], Shape(a.drawn, a.lo, a.hi)[2], <<>>) : a \in d.areas}
\* loadCounties: as they are embedded.
CountyPlaces == {Row("COUNTY", c.slug, c.lo, c.hi, <<>>) : c \in CountyShape}
TownPlaces(d) == {Row("TOWN", t.id, Trim(t.at), Trim(t.at), ContainingCounty(t.at)) : t \in d.towns}
CorridorPlaces(d) ==
    {Row("CORRIDOR", r.id, Shape(r.path, r.from, r.to)[1], Shape(r.path, r.from, r.to)[2], <<>>) : r \in d.roads}

\* Seed: areas, counties, towns, corridors.
Seeds(d) == AreaPlaces(d) \cup CountyPlaces \cup TownPlaces(d) \cup CorridorPlaces(d)
SeedRank(kind) == CASE kind = "AREA" -> 1 [] kind = "COUNTY" -> 2 [] kind = "TOWN" -> 3 [] kind = "CORRIDOR" -> 4

\* checkSlugs: unique over all kinds of this configuration.
SlugsUnique(rows) == \A p, q \in rows : p.slug = q.slug => p = q

DirectoryInit ==
    /\ world = [at |-> "off", deploy |-> CHOOSE d \in DOMAIN Deployment : TRUE, deploys |-> 0, todo |-> {}]
    /\ live = {}
    /\ result = NeverPolled

Config == Deployment[world.deploy]
Quiet(w) == world' = w /\ result' = NeverPolled /\ UNCHANGED part

\* A release boots.  A collision within its configuration ends the boot at once.
DeployRelease(d) ==
    /\ world.at = "off" /\ world.deploys < MaxDeploys
    /\ LET rows == Seeds(Deployment[d])
           ok == SlugsUnique(rows)
       IN Quiet([at |-> IF ok THEN "seeding" ELSE "off", deploy |-> d, deploys |-> world.deploys + 1,
                 todo |-> IF ok THEN rows ELSE {}])
    /\ UNCHANGED live

\* UpsertPlace: insert or replace by id; the slug is unique in the table.
Taken(p) == \E q \in live : q.slug = p.slug /\ q.id # p.id
UpsertPlace(p) ==
    /\ world.at = "seeding" /\ p \in world.todo
    /\ \A q \in world.todo : SeedRank(p.kind) <= SeedRank(q.kind)
    /\ IF Taken(p)
       THEN Quiet([world EXCEPT !.at = "off", !.todo = {}]) /\ UNCHANGED live
       ELSE /\ live' = {q \in live : q.id # p.id} \cup {p}
            /\ Quiet([world EXCEPT !.todo = @ \ {p}])

SeedDone ==
    /\ world.at = "seeding" /\ world.todo = {}
    /\ Quiet([world EXCEPT !.at = "serving"])
    /\ UNCHANGED live

\* A crash, or the end of the process.
Undeploy ==
    /\ world.at # "off"
    /\ Quiet([world EXCEPT !.at = "off", !.todo = {}])
    /\ UNCHANGED live

Overlap(lo1, hi1, lo2, hi2) == lo1 <= hi2 /\ lo2 <= hi1

\* resolveHazardArea: the configured area of that name, else a box around the
\* place with the zones of the areas it touches.
Synthesized(p) ==
    LET touched == {a \in Config.areas : Overlap(a.lo, a.hi, p.lo, p.hi)}
    IN [zones |-> UNION {a.zones : a \in touched}, lo |-> p.lo, hi |-> p.hi, covered |-> touched # {}]
Own(p) == {a \in Config.areas : p.kind = "AREA" /\ a.id = p.slug}
ResolveHazardArea(p) ==
    IF Own(p) = {} THEN Synthesized(p)
    ELSE LET a == CHOOSE a \in Own(p) : TRUE IN [zones |-> a.zones, lo |-> a.lo, hi |-> a.hi, covered |-> TRUE]

\* zonesMatch: no zones on either side match anything.
ScopedTo(zones, issued) == zones = {} \/ issued = {} \/ zones \cap issued # {}

\* The builder of the layer: the banner of the product, where its zones match,
\* and a point for each forecast in the box.
FireWeatherFeatures(area, product) ==
    {[state |-> p.state] : p \in {q \in product : ScopedTo(area.zones, q.zones)}} \cup
    {[state |-> ""] : t \in {u \in Config.towns : area.lo <= u.at /\ u.at <= area.hi}}

\* A mutant: a place outside of the coverage is built like any other.
AnyPlace(area) == TRUE

\* serveConditionLayer, buildPlaceSummary: nothing is built outside of the coverage.
Builds(area) == area.covered

FireRank(state) == CASE state = "red-flag" -> 2 [] state = "elevated" -> 1 [] OTHER -> 0

\* fireWeatherState: the most escalated of those known, "" when there is none.
FireWeatherState(features) ==
    LET known == {f.state : f \in features} \ {""}
    IN IF known = {} THEN "" ELSE CHOOSE s \in known : \A t \in known : FireRank(t) <= FireRank(s)

Answer(a) == world.at = "serving" /\ result' = a /\ UNCHANGED <<part, world, live>>

ServeFireWeather(p, product) ==
    LET area == ResolveHazardArea(p)
    IN Answer([kind |-> "fire", place |-> p, product |-> product,
               state |-> FireWeatherState(IF Builds(area) THEN FireWeatherFeatures(area, product) ELSE {})])

\* placeBbox, padDegenerate: the box of a point is widened by the rounding.
PlaceBbox(p) == IF p.lo = p.hi THEN [lo |-> p.lo - Epsilon, hi |-> p.hi + Epsilon] ELSE [lo |-> p.lo, hi |-> p.hi]

\* GetConditions, filterWeather: the locations in the box.
GetConditions(p) ==
    LET box == PlaceBbox(p)
    IN Answer([kind |-> "conditions", place |-> p,
               towns |-> {t.id : t \in {u \in Config.towns : box.lo <= u.at /\ u.at <= box.hi}}])

\* A mutant: an area is looked for under its county only.
ParentedOnly(county, p) == p.parent = county.id

\* PlaceIDsForCounty: what lies under the county, and the areas that overlap it.
OfCounty(county, p) ==
    \/ p.parent = county.id
    \/ p.kind = "AREA" /\ Overlap(county.lo, county.hi, p.lo, p.hi)

PlaceIDsForCounty(county) ==
    /\ county \in live /\ county.kind = "COUNTY"
    /\ Answer([kind |-> "county", place |-> county,
               ids |-> {county.id} \cup {p.id : p \in {q \in live : q.id # county.id /\ OfCounty(county, q)}}])

\* PlacesContaining: a town contains what is within its radius, a corridor what
\* is near it; the most specific kind first, the nearest town first.
PlaceContains(p, at) ==
    CASE p.kind = "TOWN" -> Distance(p.lo, at) <= TownRadius
      [] p.kind = "CORRIDOR" -> p.lo - CorridorBuffer <= at /\ at <= p.hi + CorridorBuffer
      [] OTHER -> p.lo <= at /\ at <= p.hi
Specificity(kind) == CASE kind = "TOWN" -> 2 [] kind = "CORRIDOR" -> 3 [] kind = "COUNTY" -> 4 [] kind = "AREA" -> 5
MoreSpecific(p, q, at) ==
    \/ Specificity(p.kind) < Specificity(q.kind)
    \/ p.kind = "TOWN" /\ q.kind = "TOWN" /\ Distance(p.lo, at) < Distance(q.lo, at)

ResolvePlace(at) ==
    LET found == {p \in live : PlaceContains(p, at)}
    IN Answer([kind |-> "resolve", at |-> at, found |-> found,
               first |-> {p \in found : ~\E q \in found : MoreSpecific(q, p, at)}])

\* GetPlace, ListPlaces: by its slug or its id; an unknown key is not found.
GetPlace(slug) ==
    Answer([kind |-> "place", slug |-> slug, found |-> {p \in live : p.slug = slug}])

\* ListScanners: the scanner feeds of that area, for any other place those of all.
ListScanners(p) ==
    Answer([kind |-> "scanners", place |-> p,
            feeds |-> {a.id : a \in IF Own(p) = {} THEN Config.areas ELSE Own(p)}])

Slugs == UNION {{p.slug : p \in Seeds(Deployment[d])} : d \in DOMAIN Deployment}

DirectoryNext ==
    \/ \E d \in DOMAIN Deployment : DeployRelease(d)
    \/ \E p \in world.todo : UpsertPlace(p)
    \/ SeedDone \/ Undeploy
    \/ \E p \in live : GetConditions(p) \/ PlaceIDsForCounty(p) \/ \E f \in Product : ServeFireWeather(p, {f})
    \/ \E p \in live : ServeFireWeather(p, {}) \/ ListScanners(p)
    \/ \E slug \in Slugs : GetPlace(slug)
    \/ \E at \in Query : ResolvePlace(at)

DirectorySpec == part = "places" /\ DirectoryInit /\ [][DirectoryNext]_feedVars

(***************************************************************************)
(* Properties                                                              *)
(***************************************************************************)

IsAnswer(kind) == part = "places" /\ result # NeverPolled /\ result.kind = kind

\* A place shows the fire weather of the configured areas it lies in, all of it,
\* and nobody else's: a county beyond the coverage, or an area the configuration
\* has dropped but the directory kept, never takes over the banner of another
\* region (resolveHazardArea, maplayers.go; buildPlaceSummary, summary.go).
FireWeatherIsLocal ==
    IsAnswer("fire") =>
        LET p == result.place
            areas == IF Own(p) # {} THEN Own(p) ELSE {a \in Config.areas : Overlap(a.lo, a.hi, p.lo, p.hi)}
            here == {f \in result.product : \E a \in areas : a.zones \cap f.zones # {}}
        IN result.state = IF here = {} THEN "" ELSE (CHOOSE f \in here : TRUE).state

\* A resident who asks for a configured town gets that town's weather, though
\* the stored position was rounded and the configured one was not (placeBbox,
\* padDegenerate, conditions.go).
TownSeesItsWeather ==
    IsAnswer("conditions") =>
        \A t \in Config.towns : result.place.id = <<"TOWN", t.id>> => t.id \in result.towns

\* After a deploy, whatever was interrupted before it, a county's burn status
\* reaches every configured town inside the county and every configured area
\* that overlaps it, and no configured town outside (PlaceIDsForCounty,
\* cmd/server/main.go; places.Seed).
BurnReachesTheTown ==
    IsAnswer("county") =>
        LET c == result.place IN
        /\ \A t \in Config.towns : <<"TOWN", t.id>> \in result.ids <=> c.lo <= t.at /\ t.at <= c.hi
        /\ \A a \in Config.areas : Overlap(a.lo + Precision, a.hi - Precision, c.lo, c.hi) /\ a.drawn = <<>>
             => <<"AREA", a.id>> \in result.ids
        /\ \A a \in Config.areas : a.drawn # <<>> /\ Overlap(a.drawn[1], a.drawn[2], c.lo, c.hi)
             => <<"AREA", a.id>> \in result.ids

\* "Collisions abort the seed before any write" (places.Seed, seed.go): a boot
\* that fails over a slug has written nothing.
CollisionWritesNothing ==
    [][part = "places" /\ world.at = "seeding" /\ world'.at = "off" /\ (\E p \in world.todo : Taken(p))
         => world.todo = Seeds(Config)]_feedVars
============================================================================
