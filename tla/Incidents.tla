----------------------------- MODULE Incidents -----------------------------
(***************************************************************************)
(* The region-wide incident list (services/incidents.go), its enhancement   *)
(* pipeline (enhanceRawAlert of services/roads.go) and the poller that      *)
(* turns the list into events (ingest/road_incident.go).                    *)
(*                                                                         *)
(* ListIncidents is three steps, split where the code waits for a network:  *)
(* the cache lookup, the two feeds, the enhancement and the store into the  *)
(* cache.  The per-feed outcome is kept in ONE record for the whole         *)
(* service, overwritten by whoever refreshes last; the poller reads it      *)
(* after its calls.                                                         *)
(***************************************************************************)
EXTENDS Cache, FiniteSets, FiniteSetsExt, TLC

CONSTANTS Area,             \* configured incident areas
          Row,              \* placemarks: [id, feed, at, described]
          Within,           \* [Area -> set of positions in its bounds]
          NoPlace,          \* a placemark without coordinates
          Poller, Visitor,  \* callers of ListIncidents: the poller, requests
          KmlClosures,      \* laneClosureDistricts is empty: lcs2way.kml is read
          IncidentTTL,      \* chpIncidents.refreshInterval
          MaxEnhancements   \* maxIncidentEnhancementsPerRefresh

VARIABLES incUp,       \* [id -> "unborn" | "live" | "over"]: what is on the road
          incHealth,   \* [chp, lane: did the latest attempt fail]
          incCall,     \* [caller -> a ListIncidents call in progress]
          incPoll,     \* the poll in progress: areas to ask, events, failed areas
          incAI,       \* ids whose current text has a cached enhancement
          incEvents,   \* [id -> "none" | "raw" | "enhanced"], the stored events
          onRecord     \* history: who holds a list of the refresh incHealth is of

incVars == <<incUp, incHealth, incCall, incPoll, incAI, incEvents, onRecord>>

IncId == {r.id : r \in Row}
IncFeed(i) == (CHOOSE r \in Row : r.id = i).feed
IncCaller == Visitor \cup {Poller}
IncKey(a) == <<"incidents", a>>
IncSources == IF KmlClosures THEN {"chp", "lane"} ELSE {"chp"}

IncHolder == IncCaller \cup {"cache", "poll"}

IncIdle == [pc |-> "idle"]
NoPoll == [pc |-> "idle"]

\* buildIncident and the filter of normalizeIncidents: placed, inside the
\* bounds, and not a geometry-only placemark.
BuildIncident(rows, a) == {r \in rows : r.at # NoPlace /\ r.at \in Within[a] /\ r.described}

\* southWestOf: of the two endpoints of a closure the south-western one stays.
SouthWestOf(rows, i) == Min({r.at : r \in {q \in rows : q.id = i}})

\* The list before enhancement: one entry per id.
NormalizeIncidents(rows, a) ==
    LET built == BuildIncident(rows, a)
    IN  [i \in {r.id : r \in built} |-> SouthWestOf(built, i)]

\* previouslyEnhancedIncidents reads the cache again, stale or not.
PreviouslyEnhanced(a) == IF Exists(IncKey(a)) THEN cache[IncKey(a)].data.enhanced ELSE {}

\* enhanceIncident over the sorted list.  Cached texts cost nothing; at most
\* MaxEnhancements calls are made, never-enhanced incidents first, and a call
\* that fails is spent all the same.
Attempts(ids, a) ==
    LET misses == ids \ incAI
        first == misses \ PreviouslyEnhanced(a)
        n == IF Cardinality(misses) < MaxEnhancements THEN Cardinality(misses) ELSE MaxEnhancements
    IN  {s \in SUBSET misses :
            /\ Cardinality(s) = n
            /\ s \subseteq first \/ first \subseteq s}

\* The rows the feeds that answered carry.
Listed(chpErr, laneErr) ==
    {r \in Row : /\ incUp[r.id] = "live"
                 /\ (r.feed = "chp" => ~chpErr)
                 /\ (r.feed = "lane" => KmlClosures /\ ~laneErr)}

\* What an answer does: a visitor takes it away, the poller files it.
\* incidentEnhanced decides between the incoming copy and the stored one.
PollTakes(list) ==
    [i \in DOMAIN list.at |->
        IF i \in list.enhanced \/ incEvents[i] = "enhanced" THEN "enhanced" ELSE "raw"]

PollAnswer(c, a, list) ==
    IF c # Poller THEN incPoll
    ELSE [incPoll EXCEPT !.todo = @ \ {a},
                         !.events = @ @@ PollTakes(list),
                         !.without = @ \cup list.without]

\* A list changes hands: the holders among "to" have it, or lose the one they had.
Hands(from, to) ==
    onRecord' = IF from \in onRecord THEN onRecord \cup to ELSE onRecord \ to
TakenBy(c) == IF c = Poller THEN {"poll"} ELSE {}

PollError(c, a) ==
    IF c # Poller THEN incPoll
    ELSE [incPoll EXCEPT !.todo = @ \ {a}, !.failed = TRUE]

\* ListIncidents up to its first wait: a fresh entry is the answer.
IncLookup(c, a) ==
    /\ incCall[c] = IncIdle
    /\ c = Poller => incPoll.pc = "asking" /\ a \in incPoll.todo
    /\ IF Exists(IncKey(a)) /\ ~IsStale(IncKey(a))
       THEN /\ incPoll' = PollAnswer(c, a, cache[IncKey(a)].data)
            /\ Hands("cache", TakenBy(c))
            /\ UNCHANGED incCall
       ELSE /\ incCall' = [incCall EXCEPT ![c] =
                  [pc |-> "fetch", area |-> a, entry |-> GetWithMetadata(IncKey(a))]]
            /\ UNCHANGED <<incPoll, onRecord>>
    /\ UNCHANGED <<cacheVars, incUp, incHealth, incAI, incEvents>>

\* recordIncidentFeedHealth
RecordHealth(c, chpErr, laneErr) ==
    /\ incHealth' = [chp |-> chpErr, lane |-> laneErr]
    /\ onRecord' = {c}

\* refreshIncidents fails when no feed answered.
RefreshFails(chpErr, laneErr) == chpErr /\ (laneErr \/ ~KmlClosures)

\* The feeds.  When the refresh fails the entry read at the start is served,
\* provided the entry that is in the cache NOW is not very stale.
IncFetch(c) ==
    /\ incCall[c].pc = "fetch"
    /\ \E chpErr, laneErr \in BOOLEAN :
        LET call == incCall[c]
            a == call.area
        IN  /\ laneErr => KmlClosures
            /\ RecordHealth(c, chpErr, laneErr)
            /\ IF RefreshFails(chpErr, laneErr)
               THEN /\ incCall' = [incCall EXCEPT ![c] = IncIdle]
                    /\ incPoll' = IF call.entry # NoEntry /\ ~IsVeryStale(IncKey(a))
                                  THEN PollAnswer(c, a, call.entry.data)
                                  ELSE PollError(c, a)
               ELSE /\ incCall' = [incCall EXCEPT ![c] =
                          [pc |-> "enhance", area |-> a,
                           without |-> {s \in IncSources : IF s = "chp" THEN chpErr ELSE laneErr},
                           list |-> NormalizeIncidents(Listed(chpErr, laneErr), a)]]
                    /\ UNCHANGED incPoll
    /\ UNCHANGED <<cacheVars, incUp, incAI, incEvents>>

\* The enhancement, the store into the cache and the answer.
IncFinish(c) ==
    /\ incCall[c].pc = "enhance"
    /\ LET a == incCall[c].area
           at == incCall[c].list
       IN  \E tried \in Attempts(DOMAIN at, a) : \E done \in SUBSET tried :
             LET ai == incAI \cup done
                 list == [at |-> at, enhanced |-> DOMAIN at \cap ai, without |-> incCall[c].without]
             IN  /\ incAI' = ai
                 /\ Set(IncKey(a), list, IncidentTTL)
                 /\ incPoll' = PollAnswer(c, a, list)
                 /\ Hands(c, {"cache"} \cup TakenBy(c))
    /\ incCall' = [incCall EXCEPT ![c] = IncIdle]
    /\ UNCHANGED <<now, incUp, incHealth, incEvents>>

\* RoadIncidentNormalizer.Poll starts: every area is asked.
PollStart ==
    /\ incPoll = NoPoll
    /\ incPoll' = [pc |-> "asking", todo |-> Area, failed |-> FALSE, without |-> {},
                   events |-> [i \in {} |-> "none"]]
    /\ UNCHANGED <<cacheVars, incUp, incHealth, incCall, incAI, incEvents, onRecord>>

\* Without the lane-closure feed's outcome its rows are swept on no evidence.
CleanIgnoringLanes == IF incPoll.failed THEN {}
                      ELSE {s \in IncSources : s = "lane" \/ ~incHealth[s]}

\* The sources the poll reports without an error: the ones swept.
Clean == IF incPoll.failed THEN {}
         ELSE {s \in IncSources : ~incHealth[s]}

\* The end of Poll and what its caller does with the result: listed events
\* are stored, events of a clean source that are not listed are resolved.
PollFinish ==
    /\ incPoll.pc = "asking"
    /\ incPoll.todo = {}
    /\ incEvents' = [i \in IncId |->
          IF i \in DOMAIN incPoll.events
          THEN incPoll.events[i]
          ELSE IF IncFeed(i) \in Clean THEN "none" ELSE incEvents[i]]
    /\ incPoll' = NoPoll
    /\ onRecord' = onRecord \ {"poll"}
    /\ UNCHANGED <<cacheVars, incUp, incHealth, incCall, incAI>>

\* An incident happens, ends, or gains a line of text (a new content hash).
Appear(i) ==
    /\ incUp[i] = "unborn"
    /\ incUp' = [incUp EXCEPT ![i] = "live"]
    /\ UNCHANGED <<cacheVars, incHealth, incCall, incPoll, incAI, incEvents, onRecord>>

ClearUp(i) ==
    /\ incUp[i] = "live"
    /\ incUp' = [incUp EXCEPT ![i] = "over"]
    /\ UNCHANGED <<cacheVars, incHealth, incCall, incPoll, incAI, incEvents, onRecord>>

Amend(i) ==
    /\ incUp[i] = "live" /\ i \in incAI
    /\ incAI' = incAI \ {i}
    /\ UNCHANGED <<cacheVars, incUp, incHealth, incCall, incPoll, incEvents, onRecord>>

\* The process restarts: the cache, the feed record and the calls are gone,
\* the stored events stay.
IncRestart ==
    /\ incPoll = NoPoll /\ incAI # {}
    /\ cache' = [k \in CacheKey |-> NoEntry]
    /\ incAI' = {}
    /\ incHealth' = [chp |-> FALSE, lane |-> FALSE]
    /\ incCall' = [c \in IncCaller |-> IncIdle]
    /\ onRecord' = {}
    /\ UNCHANGED <<now, incUp, incPoll, incEvents>>

IncInit ==
    /\ incUp = [i \in IncId |-> "unborn"]
    /\ incHealth = [chp |-> FALSE, lane |-> FALSE]
    /\ incCall = [c \in IncCaller |-> IncIdle]
    /\ incPoll = NoPoll
    /\ incAI = {}
    /\ incEvents = [i \in IncId |-> "none"]
    /\ onRecord = {}

IncNext ==
    \/ \E c \in IncCaller, a \in Area : IncLookup(c, a)
    \/ \E c \in IncCaller : IncFetch(c) \/ IncFinish(c)
    \/ PollStart \/ PollFinish \/ IncRestart
    \/ \E i \in IncId : Appear(i) \/ ClearUp(i) \/ Amend(i)

(***************************************************************************)
(* Properties                                                              *)
(***************************************************************************)

\* The disappearance sweep over the incident feeds, with requests refreshing
\* and storing beside the poller: a poll whose list was built by the refresh the
\* feed record is of resolves an event only when its incident is over.  Failing
\* feeds, stale answers, slow fetches and restarts never end what is still on
\* the road; a record some other call has written since can: see
\* ErrorIsNoAllClear.
RecordedListIsNoAllClear ==
    [][\A i \in IncId : "poll" \in onRecord /\ incEvents[i] # "none" /\ incEvents'[i] = "none"
                            => incUp[i] = "over"]_incEvents

\* IncidentFeedHealth: "an upstream error must never read as an all-clear that
\* RESOLVEs the failed feed's active events".  No event of an incident that is
\* still on the road is resolved by a poll that used a list built while the
\* event's own feed was failing.
ErrorIsNoAllClear ==
    [][\A i \in IncId : incEvents[i] # "none" /\ incEvents'[i] = "none"
                            => incUp[i] = "over" \/ IncFeed(i) \notin incPoll.without]_incEvents

============================================================================
