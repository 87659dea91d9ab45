---------------------------- MODULE MeshPresence ----------------------------
(***************************************************************************)
(* From radio to map: the MeshCore registry (internal/clients/meshcore),   *)
(* the reporters' side of internal/pushingest, the mesh normalizer         *)
(* (internal/ingest/network.go) and the scheduler's tick over them, down   *)
(* to the node's event row and its activity clocks.                        *)
(*                                                                         *)
(* MQTT callbacks and reporters' requests write the registry while a poll  *)
(* reads it in three separate critical sections; a write of the tick may   *)
(* fail, and the process may stop between any two steps and be replaced by *)
(* one that knows only what the store holds.                               *)
(*                                                                         *)
(* A node's name, role and signal figures are left out (whether it has a   *)
(* signal reading is kept), positions are points on a line, and the zero   *)
(* time is 0.  Full buffers, rejected requests, failing event upserts and  *)
(* boot reads, the spam floor, and rows keyed by a prefix, are left out.   *)
(***************************************************************************)
EXTENDS Integers, Sequences, FiniteSets, FiniteSetsExt

(***************************************************************************)
(* Relay attribution, internal/clients/meshcore/relay.go: which node       *)
(* forwarded a packet, from the hop hashes in its path.                    *)
(*                                                                         *)
(* A hop is a prefix of a repeater's public key.  Rule 1 resolves a hop of *)
(* two bytes or more that exactly one catalogued repeater carries.  Rule 2 *)
(* resolves any hop from the neighbours of the hops (or ends of the path)  *)
(* next to it.  The neighbour graph is an undirected graph whose edges     *)
(* remember when they were last seen; 0 stands for no edge.                *)
(***************************************************************************)
CONSTANTS
    Key,                \* the full public keys
    Observer,           \* the receiving radios that are no node
    Hash,               \* the hop hashes
    CarriedBy,          \* [Hash -> the keys it is a prefix of]
    Wide,               \* the hashes of two bytes or more
    Repeater,           \* the keys whose role can relay (canRelay)
    Packet,             \* the packets in the air
    AdjacencyRetention, \* how long a link stays usable without being seen again
    Nil                 \* stands for an absent value

Radio == Key \cup Observer

Link == {e \in SUBSET Radio : Cardinality(e) = 2}

\* A packet: what it is, how it is routed, the hops in its frame, all of one size,
\* the radio that reported it and, of an advert, the node that sent it and where it
\* says it is.
IsPacket(p) ==
    /\ p.kind \in {"advert", "other"}
    /\ p.route \in {"flood", "direct"}
    /\ p.hops \in Seq(Hash)
    /\ \A i \in 1 .. Len(p.hops) : p.hops[i] \in Wide <=> p.hops[1] \in Wide
    /\ p.observer \in Radio \cup {Nil}
    /\ p.sender \in Key \cup {Nil}
    /\ p.kind = "advert" <=> p.sender # Nil
    /\ p.loc \in Nat \cup {Nil}

ASSUME RelayAssumption ==
    /\ Key \cap Observer = {}
    /\ Nil \notin Radio \cup Nat
    /\ CarriedBy \in [Hash -> SUBSET Key]
    /\ Wide \subseteq Hash
    /\ Repeater \subseteq Key
    /\ \A p \in Packet : IsPacket(p)
    /\ AdjacencyRetention \in Nat

Only(S) == IF Cardinality(S) = 1 THEN CHOOSE x \in S : TRUE ELSE Nil

Latest(times) == Max(times \cup {0})

-----------------------------------------------------------------------------
(***************************************************************************)
(* What a packet tells: a flood path was travelled, a direct one is yet to *)
(* be.  A flood advert without hops still says who heard its sender.       *)
(***************************************************************************)
RelayPath(p) == p.route = "flood" /\ (p.hops # <<>> \/ p.kind = "advert")

RoutePath(p) == p.route = "direct" /\ p.kind = "other" /\ p.hops # <<>>

-----------------------------------------------------------------------------
(***************************************************************************)
(* Rule 1.                                                                 *)
(***************************************************************************)
\* relayIndex: the catalogued keys a hop can stand for.
Candidates(h, catalog) == CarriedBy[h] \cap catalog \cap Repeater

\* Mutant: a one-byte hop that one catalogued key carries resolves as well.
ResolveByAnyPrefix(hops, catalog) ==
    [i \in 1 .. Len(hops) |-> Only(Candidates(hops[i], catalog))]

\* One hash size per packet: the first hop tells.
ResolveByPrefix(hops, catalog) ==
    [i \in 1 .. Len(hops) |->
        IF hops[1] \in Wide THEN Only(Candidates(hops[i], catalog)) ELSE Nil]

\* learnLocked and addEdgeLocked: neighbours in sender, hops, observer; a hop
\* that is not resolved breaks the chain.
ChainLinks(p, res) ==
    LET chain == <<p.sender>> \o res \o <<p.observer>>
    IN Link \cap {{chain[i], chain[i + 1]} : i \in 1 .. Len(chain) - 1}

\* The graph with the links of the received packets, at[p] being when p was.
Learn(adj, packets, at, catalog) ==
    [e \in Link |-> Latest({adj[e]} \cup
        {at[p] : p \in {q \in packets : e \in ChainLinks(q, ResolveByPrefix(q.hops, catalog))}})]

PruneAdjacency(adj, t) ==
    [e \in Link |-> IF t - adj[e] > AdjacencyRetention THEN 0 ELSE adj[e]]

-----------------------------------------------------------------------------
(***************************************************************************)
(* Rule 2: sweeps over the path in place, left to right, until nothing     *)
(* changes.  A sweep that changes anything resolves a hop, so as many      *)
(* sweeps as there are hops reach the end.                                 *)
(***************************************************************************)
\* The catalogued repeaters hop i can be, next to what is known on either side.
Fits(adj, p, res, i, catalog) ==
    LET left  == IF i = 1 THEN p.sender ELSE res[i - 1]
        right == IF i = Len(res) THEN p.observer ELSE res[i + 1]
    IN {n \in Candidates(p.hops[i], catalog) :
            \E anchor \in {left, right} \ {Nil, n} : adj[{anchor, n}] > 0}

Sweep(adj, p, res, catalog) ==
    LET upTo[i \in 0 .. Len(res)] ==
            IF i = 0 THEN res
            ELSE LET r == upTo[i - 1]
                 IN IF r[i] # Nil THEN r ELSE [r EXCEPT ![i] = Only(Fits(adj, p, r, i, catalog))]
    IN upTo[Len(res)]

ResolveByNeighbours(adj, p, res, catalog) ==
    LET sweeps[k \in 0 .. Len(res)] ==
            IF k = 0 THEN res ELSE Sweep(adj, p, sweeps[k - 1], catalog)
    IN sweeps[Len(res)]

\* The nodes a drain credits for packet p, adj being what it has learnt so far;
\* a direct route goes by rule 1 only.
Credited(adj, p, catalog) ==
    LET first == ResolveByPrefix(p.hops, catalog)
        res == IF RelayPath(p) THEN ResolveByNeighbours(adj, p, first, catalog) ELSE first
    IN {res[i] : i \in 1 .. Len(res)} \ {Nil}

-----------------------------------------------------------------------------
(***************************************************************************)
(* The registry, the reporters, the normalizer and the tick.               *)
(***************************************************************************)
CONSTANTS
    Broker,           \* the configured MQTT brokers
    Reporter,         \* the configured reporters
    Streams,          \* [Reporter -> the streams it may post to]
    Enumerates,       \* the reporters that list the nodes they were asked to track
    Prefix,           \* the key prefixes reporters use
    PrefixOf,         \* [Prefix -> the keys it is a prefix of]
    Listing,          \* the ids one report may list
    Fence,            \* the positions inside the geofence
    Epsilon,          \* meshPositionEpsilonMeters
    GraceFloor, GraceCeil, CadenceK, RelayPresence, RetainFor,
    SilenceAfter, UnreachableAfter, StaleAfter, DeadMultiple,
    PersistInterval, ExpireAfter, Coalesce, ExpiredTTL,
    MaxTime, MaxInputs, MaxFaults \* bounds of the instance

ASSUME PresenceAssumption ==
    /\ Broker \cap Reporter = {}
    /\ Streams \in [Reporter -> SUBSET {"mesh.repeater", "mesh.packet"}]
    /\ Enumerates \subseteq Reporter
    /\ PrefixOf \in [Prefix -> SUBSET Key]
    /\ Prefix \cap Key = {}
    /\ Listing \subseteq SUBSET (Key \cup Prefix)
    /\ Fence \subseteq Nat
    /\ {Epsilon, GraceFloor, GraceCeil, CadenceK, RelayPresence, RetainFor,
        SilenceAfter, UnreachableAfter, StaleAfter, DeadMultiple, PersistInterval,
        ExpireAfter, Coalesce, ExpiredTTL, MaxTime, MaxInputs, MaxFaults} \subseteq Nat
    /\ GraceFloor <= GraceCeil /\ GraceCeil <= RetainFor /\ RelayPresence <= RetainFor
    /\ Coalesce < ExpireAfter /\ RetainFor > 0 /\ MaxTime > 0

VARIABLES
    now,        \* the clock
    nodes,      \* Registry.nodes: [Key -> entry or Nil]
    obsBuf,     \* Registry.obsBuf: the receptions since the last drain
    relayBuf,   \* Registry.relayBuf and routeBuf: [Packet -> latest reception]
    adj,        \* Registry.adj
    link,       \* Registry.links: [Broker -> its session and delivery clock]
    seeding,    \* seedMeshNeighbours has not run yet
    report,     \* [Reporter -> its buffered report and when it was accepted]
    activity,   \* NetworkNormalizer.activity: the clocks handed to the store
    relaySeen,  \* NetworkNormalizer.relaySeen
    expired,    \* NetworkNormalizer.expired and expiredAt
    poll,       \* the tick under way
    reconciled, \* pollerState.reconciled
    rows,       \* store: [Key -> the node's event row or Nil]
    clocks,     \* store: mesh_activity
    obs,        \* store: mesh_observations
    written,    \* history: the last mesh write did not fail
    received,   \* history: the packets the registry was handed
    strayed,    \* history: the nodes expired with evidence the fence kept out, not silent since
    inputs, faults \* how much of the bounds is used

registry   == <<nodes, obsBuf, relayBuf, adj, link, seeding>>
normalizer == <<activity, relaySeen, expired, poll, reconciled>>
store      == <<rows, clocks, obs>>
bounds     == <<written, received, strayed, inputs, faults>>
vars       == <<now, registry, report, normalizer, store, bounds>>

NoClock == [heard |-> 0, relayed |-> 0]
NoActivity == [n \in Key |-> NoClock]
NoPoll == [step |-> "idle", began |-> 0, at |-> 0, deaf |-> FALSE, registryLive |-> FALSE, reports |-> {},
           silent |-> FALSE, suppress |-> FALSE, relays |-> [n \in Key |-> 0],
           merged |-> [n \in Key |-> Nil], refused |-> {}, obs |-> {}, advanced |-> NoActivity]

Held      == {n \in Key : nodes[n] # Nil}
Active(n) == rows[n] # Nil /\ rows[n].status = "ACTIVE"

Connected(t) == [b \in Broker |-> [open |-> FALSE, last |-> 0, started |-> t]]

Init ==
    /\ now       = 1
    /\ nodes     = [n \in Key |-> Nil]
    /\ obsBuf    = {}
    /\ relayBuf  = [p \in Packet |-> 0]
    /\ adj       = [e \in Link |-> 0]
    /\ link      = Connected(1)
    /\ seeding   = FALSE
    /\ report    = [r \in Reporter |-> [ids |-> {}, success |-> 0, at |-> 0]]
    /\ activity  = NoActivity
    /\ relaySeen = [n \in Key |-> 0]
    /\ expired   = [rows |-> Nil, at |-> 0]
    /\ poll      = NoPoll
    /\ reconciled = FALSE
    /\ rows      = [n \in Key |-> Nil]
    /\ clocks    = NoActivity
    /\ obs       = {}
    /\ written   = TRUE
    /\ received  = {}
    /\ strayed   = {}
    /\ inputs    = 0
    /\ faults    = 0

-----------------------------------------------------------------------------
(***************************************************************************)
(* Presence.                                                               *)
(***************************************************************************)
\* recordCadence: receptions of one advert through several gateways, in one clock
\* unit, are one advert; ewma 0 stands for no interval measured.
RecordCadence(c, t) ==
    LET gap == t - c.last
    IN IF c.last = 0 THEN [last |-> t, ewma |-> 0]
       ELSE IF gap = 0 THEN c
       ELSE [last |-> t, ewma |-> IF c.ewma = 0 THEN gap ELSE (3 * gap + 7 * c.ewma) \div 10]

PresenceWindow(c) ==
    IF c.ewma = 0 THEN GraceFloor
    ELSE Max({GraceFloor, Min({GraceCeil, CadenceK * c.ewma})})

Present(e, t) ==
    \/ t - e.heard <= PresenceWindow(e.cadence)
    \/ e.relayed > 0 /\ RelayPresence > 0 /\ t - e.relayed <= RelayPresence

Pruned(ns, t) ==
    [n \in Key |-> IF ns[n] # Nil /\ t - Max({ns[n].heard, ns[n].relayed}) > RetainFor
                   THEN Nil ELSE ns[n]]

-----------------------------------------------------------------------------
(***************************************************************************)
(* The two doors of the registry: a broker's messages and a forwarder's    *)
(* posts both end in IngestEnvelope.                                       *)
(***************************************************************************)
Entry(p, door) ==
    LET old == nodes[p.sender]
    IN [heard   |-> now,
        recv    |-> now,
        relayed |-> IF old = Nil THEN 0 ELSE old.relayed,
        cadence |-> RecordCadence(IF old = Nil THEN [last |-> 0, ewma |-> 0] ELSE old.cadence, now),
        loc     |-> IF p.loc = Nil /\ old # Nil THEN old.loc ELSE p.loc,
        signal  |-> TRUE,
        via     |-> {door} \cup IF old = Nil THEN {} ELSE old.via]

\* recordRelaysLocked and recordRouteLocked.
Buffered(p) ==
    IF RelayPath(p) \/ RoutePath(p) THEN [relayBuf EXCEPT ![p] = now] ELSE relayBuf

IngestPacket(p, door) ==
    /\ relayBuf' = Buffered(p)
    /\ IF p.kind = "advert"
       THEN /\ nodes'  = Pruned([nodes EXCEPT ![p.sender] = Entry(p, door)], now)
            /\ obsBuf' = obsBuf \cup {[packet |-> p, at |-> now]}
       ELSE UNCHANGED <<nodes, obsBuf>>
    /\ received' = received \cup {p}
    /\ UNCHANGED <<adj, seeding>>

Input == inputs < MaxInputs /\ inputs' = inputs + 1
Fault == faults < MaxFaults /\ faults' = faults + 1

\* onMessage: any message stamps the broker's delivery clock.
OnMessage(b, p) ==
    /\ link[b].open
    /\ IngestPacket(p, b)
    /\ link' = [link EXCEPT ![b].last = now]
    /\ Input
    /\ UNCHANGED <<now, report, normalizer, store, written, strayed, faults>>

\* ingestPackets: the report's one packet reaches the registry, then the
\* reporter counts as heard from.
PostPackets(r, p) ==
    /\ "mesh.packet" \in Streams[r]
    /\ IngestPacket(p, r)
    /\ report' = [report EXCEPT ![r].at = now]
    /\ Input
    /\ UNCHANGED <<now, link, normalizer, store, written, strayed, faults>>

\* ingestMesh: a report replaces its reporter's previous one.  The monitor has
\* just reached the nodes it lists, or last did when it last said so.
PostReport(r, ids, success) ==
    /\ "mesh.repeater" \in Streams[r]
    /\ report' = [report EXCEPT ![r] = [ids |-> ids, success |-> success, at |-> now]]
    /\ Input
    /\ UNCHANGED <<now, registry, normalizer, store, written, received, strayed, faults>>

\* paho opens and loses sessions by itself.
SessionOpens(b) ==
    /\ ~link[b].open
    /\ link' = [link EXCEPT ![b].open = TRUE]
    /\ UNCHANGED <<now, nodes, obsBuf, relayBuf, adj, seeding, report, normalizer, store, bounds>>

SessionLost(b) ==
    /\ link[b].open
    /\ link' = [link EXCEPT ![b].open = FALSE]
    /\ Fault
    /\ UNCHANGED <<now, nodes, obsBuf, relayBuf, adj, seeding, report, normalizer, store, written, received, strayed, inputs>>

-----------------------------------------------------------------------------
(***************************************************************************)
(* What the poll asks of its inputs.                                       *)
(***************************************************************************)
\* deliveryProblem: open, and a message within SilenceAfter, counted from when
\* the broker was first dialed if there was none.
Delivering(b) ==
    /\ link[b].open
    /\ SilenceAfter = 0 \/ now - Max({link[b].last, link[b].started}) <= SilenceAfter

\* healthLocked: one state per reporter, whichever stream it posted to.
ReporterState(r) ==
    LET age == now - report[r].at
    IN CASE report[r].at = 0 -> "UNKNOWN"
         [] age <= StaleAfter -> "OK"
         [] age <= StaleAfter * DeadMultiple -> "STALE"
         [] OTHER -> "DEAD"

\* brokerDelivery: those that are; a poll that misses one ends with its error.
BrokerDelivery == {b \in Broker : Delivering(b)}

On(stream, states) == {r \in Reporter : stream \in Streams[r] /\ ReporterState(r) \in states}

\* MeshReports: the reports of the monitors that are OK.
MeshReports ==
    UNION {{[id |-> i, by |-> r, success |-> report[r].success, at |-> report[r].at] : i \in report[r].ids} :
               r \in On("mesh.repeater", {"OK"})}

-----------------------------------------------------------------------------
(***************************************************************************)
(* The poll's first step: who is delivering, and the relays.  With no door *)
(* delivering the poll fails before it has drained anything, and nothing   *)
(* but the source's health is written.                                     *)
(***************************************************************************)
\* The events that ended by expiry.
ExpiredRows == [n \in Key |-> IF rows[n] # Nil /\ rows[n].status = "EXPIRED" THEN rows[n] ELSE Nil]

\* expiredNodes: a cached list, kept when it is fresh or cannot be read again.
ExpiredNodes(readable) ==
    IF (expired.rows # Nil /\ now - expired.at < ExpiredTTL) \/ ~readable THEN expired
    ELSE [rows |-> ExpiredRows, at |-> now]

ExpiredEvent(cache, n) == IF cache.rows = Nil THEN Nil ELSE cache.rows[n]

\* expiredPrior.ByID.
ByID(cache, n) == IF Active(n) THEN rows[n] ELSE ExpiredEvent(cache, n)

\* noteRelays.
NoteRelays(credit) ==
    [n \in Key |-> LET t == Max({relaySeen[n], credit[n]})
                   IN IF RelayPresence = 0 \/ now - t > RelayPresence THEN 0 ELSE t]

\* DrainRelays: the latest reception each node relayed, in the graph the floods
\* have just taught.
DrainRelays(learnt, heard, catalog) ==
    [n \in Key |-> Latest({relayBuf[p] : p \in {q \in heard : n \in Credited(learnt, q, catalog)}})]

\* ... and it stamps the nodes the registry holds.
Stamped(credit) ==
    [n \in Key |-> IF nodes[n] # Nil /\ credit[n] > nodes[n].relayed
                   THEN [nodes[n] EXCEPT !.relayed = credit[n]] ELSE nodes[n]]

PollDrain ==
    /\ poll.step = "idle"
    /\ \E readable \in BOOLEAN :
         LET cache   == ExpiredNodes(readable)
             known   == {n \in Key : ByID(cache, n) # Nil}
             catalog == Held \cup known
             heard   == {p \in Packet : relayBuf[p] > 0}
             learnt  == Learn(PruneAdjacency(adj, now), {p \in heard : RelayPath(p)}, relayBuf, catalog)
             credit  == DrainRelays(learnt, heard, catalog)
             packetLive == On("mesh.packet", {"OK"}) # {}
             delivering == BrokerDelivery
         IN /\ delivering # {} \/ packetLive \/ On("mesh.repeater", {"OK"}) # {}
            /\ readable \/ (ExpiredNodes(TRUE) # expired /\ faults < MaxFaults)
            /\ faults' = IF readable THEN faults ELSE faults + 1
            /\ expired' = cache
            /\ adj' = learnt
            /\ relayBuf' = [p \in Packet |-> 0]
            /\ nodes' = Stamped(credit)
            /\ relaySeen' = NoteRelays(credit)
            /\ poll' = [NoPoll EXCEPT !.step = "drained", !.began = now, !.at = now,
                           !.deaf = delivering # Broker,
                           !.registryLive = delivering # {} \/ packetLive,
                           !.reports = MeshReports,
                           !.silent = On("mesh.repeater", {"STALE", "UNKNOWN"}) # {},
                           !.suppress = On("mesh.packet", {"STALE"}) # {},
                           !.relays = credit]
    /\ UNCHANGED <<now, obsBuf, link, seeding, report, activity, reconciled, store, written, received, strayed, inputs>>

-----------------------------------------------------------------------------
(***************************************************************************)
(* The snapshot and the merge: which nodes this tick presents.             *)
(***************************************************************************)
\* Registry.ResolvePrefix: the one node it holds under the prefix.
ResolvePrefix(id, held) == Only(PrefixOf[id] \cap held)

\* Registry.Snapshot: the nodes present once the old ones are pruned (ns).
Snapshot(ns) == {n \in Key : ns[n] # Nil /\ Present(ns[n], now)}

\* fullKeyCatalog: what this tick merged so far and the store's live events.
FullKeyCatalog(merged) == merged \cup {n \in Key : Active(n)}

\* Resolution of a reported id against full keys: those this tick presents or the
\* store holds, then those the registry holds.
ResolveReport(id, catalog, held) ==
    IF id \in Key THEN id
    ELSE IF Only(PrefixOf[id] \cap catalog) # Nil THEN Only(PrefixOf[id] \cap catalog)
    ELSE ResolvePrefix(id, held)

MonitorHolds(n, reports) ==
    /\ ByID(expired, n) # Nil
    /\ \E r \in reports : r.success > 0 /\ poll.at - r.success <= UnreachableAfter

\* A relay brings back a node whose stored position is in scope.
RelayRevives(n, enumerated) ==
    /\ relaySeen[n] > 0
    /\ ByID(expired, n) # Nil
    /\ n \in enumerated \/ ByID(expired, n).geo \in Fence

\* What the fence keeps out of this tick although the row is on the map: an advert
\* from outside, or a relay of a node stored outside.
Refused(kept, enumerated) ==
    {n \in Key \ enumerated : /\ Active(n)
                              /\ \/ n \in Snapshot(kept) /\ kept[n].loc \notin Fence
                                 \/ relaySeen[n] > 0 /\ rows[n].geo \notin Fence}

PollSnapshot ==
    /\ poll.step = "drained"
    /\ LET kept == IF poll.registryLive THEN Pruned(nodes, now) ELSE nodes
           held == {n \in Key : kept[n] # Nil}
           enumerated == {r.id : r \in {q \in poll.reports : q.by \in Enumerates}} \cap Key
           heard == {n \in Snapshot(kept) : poll.registryLive /\ (n \in enumerated \/ kept[n].loc \in Fence)}
           catalog == FullKeyCatalog(heard)
           reports(n) == {r \in poll.reports : ResolveReport(r.id, catalog, held) = n}
           monitored == {n \in Key : MonitorHolds(n, reports(n))}
           revived == {n \in Key : RelayRevives(n, enumerated)} \ (heard \cup monitored)
       IN /\ nodes' = kept
          /\ poll' = [poll EXCEPT !.step = "snapped", !.refused = Refused(kept, enumerated), !.merged = [n \in Key |->
                 IF n \notin heard \cup monitored \cup revived THEN Nil
                 ELSE [mqtt |-> IF n \in heard THEN kept[n] ELSE Nil,
                       reports |-> IF n \in revived THEN {} ELSE reports(n)]]]
    /\ UNCHANGED <<now, obsBuf, relayBuf, adj, link, seeding, report,
                   activity, relaySeen, expired, reconciled, store, bounds>>

-----------------------------------------------------------------------------
(***************************************************************************)
(* buildEvent, field by field.                                             *)
(***************************************************************************)
Abs(x) == IF x < 0 THEN -x ELSE x

\* stablePosition, and the stored position where this tick has none.
Geometry(m, prior) ==
    LET stored == IF prior = Nil THEN Nil ELSE prior.geo
        loc == IF m.mqtt = Nil THEN Nil ELSE m.mqtt.loc
    IN IF loc = Nil \/ (stored # Nil /\ Abs(stored - loc) <= Epsilon) THEN stored ELSE loc

\* meshProvenance: the operators of the doors it was heard through, each named in
\* the configuration.
MeshProvenance(m) == IF m.mqtt = Nil THEN {} ELSE m.mqtt.via

\* keepPriorAttribution: none is no news.
Attribution(m, prior) ==
    IF MeshProvenance(m) # {} THEN MeshProvenance(m)
    ELSE IF prior = Nil THEN {} ELSE prior.via

Reachability(m, prior) ==
    IF m.reports = {}
    THEN IF poll.silent /\ prior # Nil THEN prior.reach ELSE "UNSPECIFIED"
    ELSE IF \E r \in m.reports : r.success > 0 /\ poll.at - r.success <= UnreachableAfter
    THEN "REACHABLE" ELSE "UNREACHABLE"

\* Mutant: an entry of the registry is taken for a reading.
SignalOfEntry(m, prior) == IF m.mqtt # Nil THEN m.mqtt.signal ELSE prior # Nil /\ prior.signal

\* meshTelemetry: the reading of an advert this process received, else the stored one.
Signal(m, prior) ==
    IF m.mqtt # Nil /\ m.mqtt.signal THEN TRUE ELSE prior # Nil /\ prior.signal

\* When the sample of the freshest successful report was reported; 0: no sample.
Admin(m, prior) ==
    LET read == {r \in m.reports : r.success > 0}
    IN IF m.reports = {} THEN IF poll.silent /\ prior # Nil THEN prior.admin ELSE 0
       ELSE IF read = {} THEN 0
       ELSE (CHOOSE r \in read : \A q \in read : q.success <= r.success).at

BuildEvent(m, prior) ==
    [status |-> "ACTIVE", geo |-> Geometry(m, prior), via |-> Attribution(m, prior),
     reach |-> Reachability(m, prior), signal |-> Signal(m, prior), admin |-> Admin(m, prior)]

ContentHash(ev) == <<ev.status, ev.geo, ev.via, ev.reach>>

\* shouldPersistTelemetry.
ForceWrite(ev, prior) ==
    /\ ev.admin > 0 /\ prior # Nil
    /\ prior.admin = 0 \/ poll.at - prior.admin >= PersistInterval

\* shouldUpsert and UpsertEvent: changed content is a confirmation, a refresh is not.
Upserted(n, ev, prior) ==
    LET changed == rows[n] = Nil \/ ContentHash(rows[n]) # ContentHash(ev)
        seen == IF changed THEN now ELSE rows[n].seen
    IN IF changed \/ ~reconciled \/ ForceWrite(ev, prior)
       THEN [status |-> ev.status, geo |-> ev.geo, via |-> ev.via, reach |-> ev.reach,
             signal |-> ev.signal, admin |-> ev.admin, seen |-> seen]
       ELSE rows[n]

\* TouchSeen, for a source that was fetched cleanly.
Touched(row) ==
    IF ~poll.deaf /\ row.seen < now - Coalesce THEN [row EXCEPT !.seen = now] ELSE row

\* meshActivity: the clocks of the covered nodes that moved since the last handover.
Handover(n) ==
    LET m == poll.merged[n]
        covered == m # Nil \/ Active(n)
        heard == IF m # Nil /\ m.mqtt # Nil THEN m.mqtt.recv ELSE 0
    IN IF ~covered THEN activity[n]
       ELSE [heard |-> Max({activity[n].heard, heard}), relayed |-> Max({activity[n].relayed, poll.relays[n]})]

\* drainObservations: everything received since the last drain, the fence aside.
DrainObservations == obsBuf

\* The poll's last step drains the receptions and hands the result to the tick,
\* which writes the events and stamps them.
PollFinish ==
    /\ poll.step = "snapped"
    /\ rows' = [n \in Key |->
          IF poll.merged[n] = Nil THEN rows[n]
          ELSE Touched(Upserted(n, BuildEvent(poll.merged[n], ByID(expired, n)), ByID(expired, n)))]
    /\ activity' = [n \in Key |-> Handover(n)]
    /\ obsBuf' = {}
    /\ poll' = [poll EXCEPT !.step = "polled", !.at = now, !.obs = DrainObservations,
                  !.advanced = [n \in Key |-> IF Handover(n) = activity[n] THEN NoClock ELSE Handover(n)]]
    /\ UNCHANGED <<now, nodes, relayBuf, adj, link, seeding, report, relaySeen, expired,
                   reconciled, clocks, obs, bounds>>

-----------------------------------------------------------------------------
(***************************************************************************)
(* RecordMeshTick, in one transaction; the sweep.                          *)
(***************************************************************************)
\* Mutant: what was handed over is remembered although it was not written.
ForgetNothing == activity

\* forgetMeshActivity.
ForgetMeshActivity == NoActivity

Merge(c, a) == [heard |-> Max({c.heard, a.heard}), relayed |-> Max({c.relayed, a.relayed})]

RecordMeshTick ==
    /\ poll.step = "polled"
    /\ clocks' = [n \in Key |-> Merge(clocks[n], poll.advanced[n])]
    /\ obs' = obs \cup poll.obs
    /\ written' = TRUE
    /\ poll' = [poll EXCEPT !.step = "recorded"]
    /\ reconciled' = TRUE
    /\ UNCHANGED <<now, registry, report, activity, relaySeen, expired, rows, received, strayed, inputs, faults>>

MeshTickUnwritten ==
    /\ poll.step = "polled"
    /\ poll.obs # {} \/ poll.advanced # NoActivity
    /\ Fault
    /\ activity' = ForgetMeshActivity
    /\ written' = FALSE
    /\ poll' = [poll EXCEPT !.step = "recorded"]
    /\ reconciled' = TRUE
    /\ UNCHANGED <<now, registry, report, relaySeen, expired, store, received, strayed, inputs>>

Swept == ~poll.deaf /\ ~poll.suppress

\* When a node has been silent: adverts for the floor, relays for RelayPresence.
FadedBy(x, t) == x = 0 \/ t - x > RelayPresence
GoneBy(c, t) == t - c.heard > GraceFloor /\ FadedBy(c.relayed, t)

\* Nothing is left of the node but its row, and its clocks have run out.
Forgotten(n) ==
    rows[n] # Nil /\ nodes[n] = Nil /\ GoneBy(clocks[n], now) /\ GoneBy(activity[n], now)

SweepDisappeared ==
    /\ poll.step = "recorded"
    /\ rows' = [n \in Key |->
          IF Swept /\ Active(n) /\ poll.merged[n] = Nil /\ poll.at - rows[n].seen > ExpireAfter
          THEN [rows[n] EXCEPT !.status = "EXPIRED"] ELSE rows[n]]
    /\ poll' = NoPoll
    /\ strayed' = {n \in strayed : ~Forgotten(n)} \cup {n \in poll.refused : rows'[n].status = "EXPIRED"}
    /\ UNCHANGED <<now, registry, report, activity, relaySeen, expired, reconciled, clocks, obs,
                   written, received, inputs, faults>>

-----------------------------------------------------------------------------
(***************************************************************************)
(* The process stops and another takes over: seedMeshRegistry rehydrates   *)
(* the active nodes before anything is received, seedMeshNeighbours the    *)
(* graph in the background.                                                *)
(***************************************************************************)
HeardTimes(n) == {o.at : o \in {q \in obs : q.packet.sender = n}}

\* The cadence the stored receptions replay to.
Replayed(times) ==
    LET upTo[t \in 0 .. MaxTime] ==
            IF t = 0 THEN [last |-> 0, ewma |-> 0]
            ELSE IF t \in times THEN RecordCadence(upTo[t - 1], t) ELSE upTo[t - 1]
    IN upTo[MaxTime]

\* Mutant: the relay clock is not restored.
SeedHeardOnly(n) ==
    LET recv == Max(HeardTimes(n) \cup {clocks[n].heard})
    IN [heard |-> IF recv = 0 THEN rows[n].seen ELSE recv, recv |-> recv, relayed |-> 0,
        cadence |-> Replayed(HeardTimes(n)), loc |-> rows[n].geo, signal |-> FALSE, via |-> {}]

Seed(n) ==
    LET recv == Max(HeardTimes(n) \cup {clocks[n].heard})
    IN [heard |-> IF recv = 0 THEN rows[n].seen ELSE recv, recv |-> recv, relayed |-> clocks[n].relayed,
        cadence |-> Replayed(HeardTimes(n)), loc |-> rows[n].geo, signal |-> FALSE, via |-> {}]

Restart ==
    /\ Fault
    /\ nodes'     = [n \in Key |-> IF Active(n) THEN Seed(n) ELSE Nil]
    /\ obsBuf'    = {}
    /\ relayBuf'  = [p \in Packet |-> 0]
    /\ adj'       = [e \in Link |-> 0]
    /\ link'      = Connected(now)
    /\ seeding'   = (\E n \in Key : Active(n))
    /\ report'    = [r \in Reporter |-> [ids |-> {}, success |-> 0, at |-> 0]]
    /\ activity'  = NoActivity
    /\ relaySeen' = [n \in Key |-> 0]
    /\ expired'   = [rows |-> Nil, at |-> 0]
    /\ poll'      = NoPoll
    /\ reconciled' = FALSE
    /\ UNCHANGED <<now, store, written, received, strayed, inputs>>

\* MeshObservationPaths: the stored receptions with hops, of the time the graph keeps.
MeshObservationPaths == {q \in obs : q.packet.hops # <<>> /\ now - q.at <= AdjacencyRetention}

\* SeedPaths: the stored receptions with hops, whatever their route was.
SeedNeighbours ==
    /\ seeding
    /\ seeding' = FALSE
    /\ LET stored == {o.packet : o \in MeshObservationPaths}
           at == [p \in Packet |-> Latest({o.at : o \in {q \in obs : q.packet = p}})]
       IN adj' = Learn(adj, stored, at, Held)
    /\ UNCHANGED <<now, nodes, obsBuf, relayBuf, link, report, normalizer, store, bounds>>

Clock ==
    /\ now < MaxTime
    /\ now' = now + 1
    /\ UNCHANGED <<registry, report, normalizer, store, bounds>>

Poll == PollDrain \/ PollSnapshot \/ PollFinish \/ RecordMeshTick \/ MeshTickUnwritten \/ SweepDisappeared

Next ==
    \/ \E b \in Broker : SessionOpens(b) \/ SessionLost(b) \/ \E p \in Packet : OnMessage(b, p)
    \/ \E r \in Reporter, p \in Packet : PostPackets(r, p)
    \/ \E r \in Reporter, ids \in Listing : \E success \in {report[r].success, now} : PostReport(r, ids, success)
    \/ Poll
    \/ Restart \/ SeedNeighbours
    \/ Clock

Spec == Init /\ [][Next]_vars

-----------------------------------------------------------------------------
(***************************************************************************)
(* Properties.                                                             *)
(***************************************************************************)
Time   == 0 .. MaxTime
Door   == Broker \cup Reporter
Clocks == [heard : Time, relayed : Time]
Entries == [heard : Time, recv : Time, relayed : Time, cadence : [last : Time, ewma : Time],
            loc : Nat \cup {Nil}, signal : BOOLEAN, via : SUBSET Door]
EventRows == [status : {"ACTIVE", "EXPIRED"}, geo : Nat \cup {Nil}, via : SUBSET Door,
              reach : {"UNSPECIFIED", "REACHABLE", "UNREACHABLE"}, signal : BOOLEAN,
              admin : Time, seen : Time]

Merged == [mqtt : Entries \cup {Nil},
           reports : SUBSET [id : Key \cup Prefix, by : Reporter, success : Time, at : Time]]

\* Nil is no record.
ASSUME NilAssumption == Nil \notin Entries \cup EventRows \cup Merged

\* The type of the registry, the normalizer's memory and the stored rows.
TypeOK ==
    /\ now \in 1 .. MaxTime
    /\ nodes \in [Key -> Entries \cup {Nil}]
    /\ obsBuf \cup obs \subseteq [packet : Packet, at : Time]
    /\ relayBuf \in [Packet -> Time]
    /\ adj \in [Link -> Time]
    /\ link \in [Broker -> [open : BOOLEAN, last : Time, started : Time]]
    /\ report \in [Reporter -> [ids : SUBSET (Key \cup Prefix), success : Time, at : Time]]
    /\ activity \in [Key -> Clocks] /\ clocks \in [Key -> Clocks]
    /\ relaySeen \in [Key -> Time]
    /\ expired.rows = Nil \/ expired.rows \in [Key -> EventRows \cup {Nil}]
    /\ poll.step \in {"idle", "drained", "snapped", "polled", "recorded"}
    /\ rows \in [Key -> EventRows \cup {Nil}]
    /\ received \subseteq Packet
    /\ inputs \in 0 .. MaxInputs /\ faults \in 0 .. MaxFaults

\* The sweep expires a node only when the silence is the node's own: all brokers
\* had delivered within SilenceAfter when the poll began, and the store, which
\* outlives the process, holds no advert of it within GraceFloor and no relay by it
\* within RelayPresence ("an empty snapshot produced by OUR outage must never read
\* as every node left the mesh").  Or the fence kept it out: this poll heard it
\* outside, or an earlier one had and it has not been silent since.
ExpiresOnlyTheSilent ==
    [][\A n \in Key :
         (Active(n) /\ rows'[n].status = "EXPIRED" /\ n \notin strayed \cup poll.refused)
         => /\ \A b \in Broker : poll.began - Max({link[b].last, link[b].started}) <= SilenceAfter
            /\ GoneBy(clocks[n], now)]_vars

\* After a tick whose mesh write succeeded the stored last-heard clock of a node
\* the tick presented is not behind the registry's, although a failed write has
\* lost an earlier handover and only clocks that moved are handed over.
HeardClockStored ==
    (poll.step = "recorded" /\ written) =>
        \A n \in Key : (poll.merged[n] # Nil /\ poll.merged[n].mqtt # Nil)
                          => clocks[n].heard >= poll.merged[n].mqtt.recv

\* The same of the relay clock: after a failed write "the next tick re-sends every
\* covered node's clocks", so a write that succeeds leaves none behind.
RelayClockStored ==
    (poll.step = "recorded" /\ written) =>
        \A n \in Key : (poll.merged[n] # Nil /\ poll.merged[n].mqtt # Nil)
                          => clocks[n].relayed >= poll.merged[n].mqtt.relayed

\* No write of a live node's row, and no restart, loses its signal reading or its
\* position: "nothing new is not nothing".
ReadingsKept ==
    [][\A n \in Key : Active(n) =>
          /\ rows[n].signal => rows'[n].signal
          /\ rows[n].geo # Nil => rows'[n].geo # Nil]_vars

\* A restart by itself mints no revision: while no door has delivered a live
\* node's advert to this process and the monitors are silent, a tick leaves the
\* node's hashed content as it was.
QuietRestartMintsNothing ==
    [][poll.step = "snapped" /\ poll'.step = "polled" =>
       \A n \in Key :
         (/\ Active(n) /\ poll.silent
          /\ poll.merged[n] # Nil
          /\ poll.merged[n].reports = {}
          /\ poll.merged[n].mqtt # Nil => poll.merged[n].mqtt.via = {})
         => ContentHash(rows'[n]) = ContentHash(rows[n])]_vars

\* Position i of a packet's path names v: an end of the path, or a hop of two
\* bytes or more of v's key.
Names(p, i, v) ==
    CASE i = 0 -> v = p.sender
      [] i = Len(p.hops) + 1 -> v = p.observer
      [] OTHER -> p.hops[i] \in Wide /\ v \in CarriedBy[p.hops[i]]

\* Every link of the neighbour graph joins two neighbours on the path of a flood
\* packet that was received, each of them named by more than one byte: what rule 2
\* infers never teaches the graph, live or rebuilt at boot.
AdjacencyProven ==
    \A e \in Link : adj[e] > 0 =>
        \E p \in received : RelayPath(p) /\ \E i \in 0 .. Len(p.hops), u \in e :
            Names(p, i, u) /\ \E v \in e \ {u} : Names(p, i + 1, v)

\* Only a signed advert puts a node on the map: whatever monitors report, a row
\* belongs to a node an accepted advert came from ("a monitor is ADDITIONAL
\* data, never what makes a node exist").
OnlyAdvertsEstablish == \A n \in Key : rows[n] # Nil => \E p \in received : p.sender = n

============================================================================
