---------------------------- MODULE LaneClosures ----------------------------
(***************************************************************************)
(* Planned lane closures: the district files of Caltrans' CWWP2 portal,     *)
(* clients/cwwp2/laneclosure.go, and the normalizer that keeps one event    *)
(* per closure window, ingest/lane_closure.go.                              *)
(***************************************************************************)
EXTENDS Feed

CONSTANTS ClosureDistrict,  \* laneClosureDistricts
          ClosureWindow,    \* rows: [index, district, closure, log, begin, end, start, until]
          NoEnd,            \* until of a window without a planned end
          OverrunGrace,     \* laneClosureOverrunGrace, zero for the default
          DefaultGrace,     \* DefaultOverrunGrace
          AdoptMeters,      \* legacyAdoptMeters
          LegacyEvents,     \* events minted from lcs2way.kml: [id, source, win, status, closure, log, at]
          MaxClock

ASSUME GraceAssumption == DefaultGrace \in Int /\ OverrunGrace \in Int /\ (OverrunGrace <= 0 \/ OverrunGrace = DefaultGrace)

NotCalled == [set |-> FALSE, picked |-> FALSE, cancelled |-> FALSE]

Planned(w) == w.until # NoEnd
EffectiveGrace == IF OverrunGrace <= 0 THEN DefaultGrace ELSE OverrunGrace

\* PhaseAt: the radio codes win over the clock, an overrun is bounded.
PhaseAt(w, c, now) ==
    IF c.cancelled THEN "CANCELLED"
    ELSE IF c.picked \/ (Planned(w) /\ now >= w.until + (IF c.set THEN EffectiveGrace ELSE 0)) THEN "COMPLETED"
    ELSE IF c.set THEN "ACTIVE" ELSE "SCHEDULED"

\* The rows of a district file.  `garbled` are those whose flags, times or
\* positions did not survive the hand-written template.
RowsOf(d) == {w \in ClosureWindow : w.district = d /\ w \in world.listed}

\* unrecognizedReason, of the flags (called), the index, the times and the place.
Unrecognized(w, garbled) ==
    \/ w \in garbled.flags \cup garbled.times
    \/ w \in garbled.places
    \/ w.begin = Nowhere /\ w.end = Nowhere

\* LaneClosures: an empty or a frozen file is an error like an HTTP failure.
FetchFails(d, file) == file[d] \in {"down", "frozen", "unstamped", "empty"} \/ RowsOf(d) = {}

\* inIncidentAreas: either end inside, and whether there is an end at all.
Placeable(w, garbled) == w \notin garbled.places /\ (w.begin # Nowhere \/ w.end # Nowhere)
InIncidentAreas(w, garbled) == Placeable(w, garbled) /\ (InAnyArea(w.begin) \/ InAnyArea(w.end))

\* laneClosureEventID: district and index, which never change.
LaneClosureEventID(w) == <<w.district, w.index>>
ASSUME ClosureAssumption ==
    /\ \A w \in ClosureWindow : w.district \in ClosureDistrict /\ (Planned(w) => w.until \in Int)
    /\ \A v, w \in ClosureWindow : LaneClosureEventID(v) = LaneClosureEventID(w) => v = w
    /\ \A w \in ClosureWindow : LaneClosureEventID(w) \notin Ids(LegacyEvents)

\* buildLaneClosureEvent: a point, and the time it took effect.
BuildLaneClosureEvent(w, status) ==
    [id |-> LaneClosureEventID(w), source |-> "caltrans", win |-> w, status |-> status,
     at |-> IF w.begin # Nowhere THEN w.begin ELSE w.end]

NearestEndpoint(w, at) ==
    \E p \in {w.begin, w.end} : p # Nowhere /\ Distance(p, at) <= AdoptMeters

\* adoptLegacyClosureIDs: an ACTIVE window takes the id of the one KML-era
\* event of its closure, log and place, when the match is unique both ways.
Claims(old, e) ==
    /\ e.status = "ACTIVE"
    /\ e.win.closure = old.closure /\ e.win.log = old.log
    /\ NearestEndpoint(e.win, old.at)
Olds == {e \in PriorForSource("caltrans") : e.id \in Ids(LegacyEvents)}
OldOf(old) == CHOOSE l \in LegacyEvents : l.id = old.id
AdoptLegacyClosureIDs(events) ==
    {LET mine == {old \in Olds : Claims(OldOf(old), e)}
     IN  IF Cardinality(mine) = 1
            /\ \A old \in mine : Cardinality({f \in events : Claims(OldOf(old), f)}) = 1
         THEN [e EXCEPT !.id = (CHOOSE old \in mine : TRUE).id]
         ELSE e
     : e \in events}

\* Rows that cannot be read are left out without a word.
PollQuiet(file, garbled) ==
    LET failed == {d \in ClosureDistrict : FetchFails(d, file)}
        rows == UNION {RowsOf(d) : d \in ClosureDistrict \ failed}
        inScope == {w \in rows : ~Unrecognized(w, garbled) /\ InIncidentAreas(w, garbled)}
        events == {BuildLaneClosureEvent(w, PhaseAt(w, world.code[w], world.now)) :
                     w \in {v \in inScope : PhaseAt(v, world.code[v], world.now) \in {"SCHEDULED", "ACTIVE"}}}
    IN  IF Area = {} \/ ClosureDistrict \subseteq failed THEN PollError
        ELSE PollResult(AdoptLegacyClosureIDs(events), IF failed # {} THEN {"caltrans"} ELSE {}, {}, {})

\* Poll.
PollLanes(file, garbled) ==
    LET failed == {d \in ClosureDistrict : FetchFails(d, file)}
        rows == UNION {RowsOf(d) : d \in ClosureDistrict \ failed}
        unreadable == {w \in rows : Unrecognized(w, garbled)
                                    /\ (InIncidentAreas(w, garbled) \/ ~Placeable(w, garbled))}
        inScope == {w \in rows : ~Unrecognized(w, garbled) /\ InIncidentAreas(w, garbled)}
        events == {BuildLaneClosureEvent(w, PhaseAt(w, world.code[w], world.now)) :
                     w \in {v \in inScope : PhaseAt(v, world.code[v], world.now) \in {"SCHEDULED", "ACTIVE"}}}
    IN  IF Area = {} \/ ClosureDistrict \subseteq failed THEN PollError
        ELSE PollResult(AdoptLegacyClosureIDs(events),
                        IF failed # {} \/ unreadable # {} THEN {"caltrans"} ELSE {}, {}, {})

\* One tick, against files in any shape.
LaneTick(file, garbled) == Apply(PollLanes(file, garbled), {}) /\ UNCHANGED <<part, world>>

\* The crews' radio calls and the passing of time.
Radio(w, c) ==
    /\ world' = [world EXCEPT !.code[w] = c]
    /\ UNCHANGED <<part, live, result>>
SetUp(w) == w \in world.listed /\ ~world.code[w].set /\ Radio(w, [world.code[w] EXCEPT !.set = TRUE])
PickUp(w) == world.code[w].set /\ ~world.code[w].picked /\ Radio(w, [world.code[w] EXCEPT !.picked = TRUE])
Cancel(w) == world.code[w] = NotCalled /\ Radio(w, [world.code[w] EXCEPT !.cancelled = TRUE])
LaneClock ==
    /\ world.now < MaxClock
    /\ world' = [world EXCEPT !.now = @ + 1]
    /\ UNCHANGED <<part, live, result>>

\* A window is over when its crew says so, when nobody came, or when nobody
\* has been heard of for the grace after its end.
WindowOver(w) ==
    LET c == world.code[w]
    IN  \/ c.picked \/ c.cancelled
        \/ ~c.set /\ Planned(w) /\ w.until <= world.now
        \/ c.set /\ Planned(w) /\ w.until + DefaultGrace <= world.now

\* A row leaves the file some time after its window.
Delist(w) ==
    /\ w \in world.listed /\ WindowOver(w)
    /\ world' = [world EXCEPT !.listed = @ \ {w}]
    /\ UNCHANGED <<part, live, result>>

LaneInit(legacy) ==
    /\ world = [now |-> 0, listed |-> ClosureWindow,
                code |-> [w \in ClosureWindow |-> IF \E e \in legacy : e.win = w
                                                  THEN [NotCalled EXCEPT !.set = TRUE] ELSE NotCalled]]
    /\ live = {[id |-> e.id, source |-> e.source, win |-> e.win, status |-> e.status, at |-> e.at] : e \in legacy}
    /\ result = NeverPolled

LaneNext(files, garblings) ==
    \/ LaneClock
    \/ \E w \in ClosureWindow : SetUp(w) \/ PickUp(w) \/ Cancel(w) \/ Delist(w)
    \/ \E file \in files, garbled \in garblings : LaneTick(file, garbled)

\* A store without events of the KML era.
LaneSpec(files, garblings) == part = "lanes" /\ LaneInit({}) /\ [][LaneNext(files, garblings)]_feedVars

(***************************************************************************)
(* Properties                                                              *)
(***************************************************************************)
StillTracked(w) == \E e \in live' : e.win = w

\* Poll: a window that is tracked stays tracked until it is over, whatever
\* file is down, empty or frozen and whichever row is garbled.  Reading our
\* problem as the end of a closure writes an all-clear nobody gave.
ClosureEndsWhenOver ==
    [][part = "lanes" => \A e \in live : StillTracked(e.win) \/ WindowOver(e.win)]_feedVars

\* adoptLegacyClosureIDs: "The adoption is stable: next tick the stored event
\* still has the legacy id and the same window, so the same match recurs until
\* the window is picked up and the event resolves."
AdoptionIsStable ==
    [][part = "lanes" =>
         \A e \in live : e.id \in Ids(LegacyEvents) => e.id \in Ids(live') \/ WindowOver(e.win)]_feedVars
============================================================================
