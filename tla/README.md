# Verification of sierra-data

TLA+ models of this repository's server, its mesh relay and their deployment, the TLC
configurations that check them on small instances, and TLAPS proofs for every instance.
`PROJECT.json` maps every definition to the lines it models (a function's doc comment is
part of its range), lists the components (modelled or not), the hazards the properties are
aimed at, the runs, their mutants, the findings and the theorems.

To check: `tlc -config X.cfg M` for the pairs in the table of runs, `tlapm M.tla` for
the modules whose name ends in `Proofs` and for `FiniteSums`.

## 1. The system

One server (`cmd/server`, "Grid") polls public feeds (weather alerts, wildfires, roads,
power, evacuations, burn status, a LoRa mesh), stores what it finds as revisioned
events in SQLite, and serves them over gRPC and HTTP.  A second program
(`cmd/mesh-relay`) relays mesh packets and reports telemetry, a third (`cmd/burn-line`)
dials the counties' burn lines and pushes what it hears.  Only one process may have a
database open, so a deployment hands it from the old process to the new one through a
control API.

### Inventory

| Component | State | Operations | Talks to | Where it is hard | What makes it correct |
|---|---|---|---|---|---|
| Handoff controller (`internal/handoff/controller.go`) | lifecycle state, databaseHeld, current operation | activate, quiesce, status, Run, shutdown, Fail | the service through Activate and Quiesce; a coordinator through HTTP | handlers, the operation's goroutine, Run and signals race; commands are late, repeated, misdirected; teardown fails half way | never two users of the database; databaseHeld never optimistic; a release is final |
| Grid service lifecycle (`cmd/server/grid.go`) | gate, store, scheduler, background readers, listener, quiesced steps | Activate, Quiesce | store, scheduler, gate, prefab server | a failed activation must undo itself; a quiescence resumes in the middle | users of the store stop before it closes |
| Relay lifecycle (`cmd/mesh-relay/main.go`) | database, sessions, poller, server, gate, step flags | Activate, Quiesce | controller, relay library, poller | the server of a failed activation stays; a retry resumes from flags set over several activations | "free" means no handle of any activation |
| Admission gate (`internal/handoff/gate.go`) | open/closed, in-flight count, idle channel per busy period | enter, done, Close, Drain | every production request | requests tie themselves to the cancellation after the lock is released | a drain that says nobody is left is right |
| Store opening (`internal/store/store.go`) | file lock, schema version, statistics | Open, migrate, Close, Analyze | every release that ever ran on the file | a crash between two statements; a rollback; two processes in a deploy | no file is stuck between two schemas |
| Event store (`internal/store/events.go`) | events, revisions, attachments | UpsertEvent, TransitionEvents, TouchSeen | SQLite | hash-gated writes, rewrites without a revision | history ends in the current row; nothing the hash leaves out is lost |
| Place directory (`internal/places`, `internal/store/places.go`) | places with parents and geometry | Seed, UpsertPlace, look-ups by place | configuration, summary, burn status | rows outlive the configuration that made them; the seed is many transactions | a place gets what lies where it lies, and nobody else's |
| Ingest scheduler (`internal/ingest/scheduler.go`) | per-poller reconcile memory, wake-ups, health rows | tick, sweep, maintenance, statistics, Stop | normalizers, enhancer, store | every step of a tick may fail and is skipped; restarts; wake-ups during a tick | an event ends only on evidence; a clean tick settles what earlier ones missed; no wake-up is lost |
| Normalizers (`internal/ingest/*.go`) | joins, debounce, adopted ids, carried fields | Poll | feed clients, scheduler | one feed of several fails, is blank or late; ids collide; the sweep reads absence as an end | our trouble is never somebody's all-clear |
| Read services (`internal/services`, `internal/hazards`, `internal/cache`) | cached answers with two bounds, one feed-health record | list, refresh, fall back, evict | feed clients, periodic refresher, requests | freshness is checked apart from the read; a cache over a cache; slow refreshes | no answer claims to be younger or more complete than it is |
| Grid API reads (`internal/gridapi`) | none of its own | summary, map layers, link map, conditions | store | one answer is several queries beside the writers | quiet is backed by what was read |
| Validators (`internal/gridapi/grpc.go`) | in-process refresh counters, nonce | list, detail, history, archive, places with ETags | store | counters read one by one before the body; bumps follow commits; counters die with the process | a matching tag is the tag of the same answer |
| Mesh tables (`internal/store/mesh.go`) | raw receptions, daily rollup, watermark | insert, compact in chunks, two prunes, link query | maintenance goroutine, pollers, API readers | rows move between tables while three queries read them; ids and watermark | every reception counted once and deleted only afterwards |
| Mesh registry and node normalizer (`internal/clients/meshcore`, `internal/ingest/network.go`) | heard nodes, packet buffers, presence, identities | receive, drain, poll, rehydrate, hand back | push ingest, subscriber, scheduler | a poll reads in three critical sections what callbacks write; its write may fail; a restart knows only the store | a node expires only by its own silence; restarts lose and change nothing; inference never feeds itself |
| Telemetry archive (`internal/store/mesh_telemetry.go`) | readings by key and time | insert, rename, prune | mesh tick | a monitor repeats itself; a key is promoted from its prefix | one reading is one row |
| Push ingest (`internal/pushingest`) | reporters, intervals, report buffers, staged burn readings | mesh reports, packets, burn readings | registry, burn staging | late and repeated reports | a late reading never replaces a newer one; a monitor adds to a node and never makes one |
| Relay telemetry (`internal/relaytelemetry`) | read schedule, outbox entries, poll of the gateway's node | tick, check, back off, hibernate, report | relay library, Grid | the share changes during a check; restarts between a read and a report | a restart takes no reading off the Grid |
| Configuration, geometry, generated code, MCP, tools that run once | none that outlives a call | - | - | - | not modelled |

## 2. Modules

`DbOwnership` &larr; `Coordination` &rarr; `Handoff`; `Gate`; `Ingest` &rarr; `EventStore` &larr; `Validators`;
`MeshStore`; `MeshRelay` &larr; `MeshPresence`; `Cache` &larr; `Weather`, `Roads`, `Incidents`, `Hazards`, with `Cameras`
in `MCServing`; `Feed` &larr; the normalizers and everything else in `MCFeeds`; `Severity` where severities
are compared.

Deployment:

* **Handoff** - one process incarnation per member of `Proc`.  The controller's fields are
  variables (`state`, `held`, `op`, ...), Run's position is `phase`, the goroutine of the
  service call is `job`.  Handlers hold the controller's mutex and are one action each
  (`HandleActivate`, `HandleQuiesce` with the answer tables `ActivateAnswer`,
  `QuiesceAnswer`); Activate and Quiesce take one action per step, each of which may fail
  (`OpenStore`/`OpenFails`, ..., `StepFails`), and `done` is the record a resumed quiescence
  starts from.  `Shutdown*` are the branches of `shutdown`.  Crash, signal, second signal
  and a listener that dies are the environment.
* **Coordination** - several such processes, the containers (`Slot`) whose addresses they
  succeed each other at, and a coordinator, which is outside the repository and is
  modelled from the calls the control API serves: grant, ask for release, confirm.  A
  command once sent stays deliverable for ever, to whatever process is at its address.
* **DbOwnership** - the promise in three actions: claim a free database, release it, retire.
* **Gate** - `enter`, its `done`, `Close`, and `Drain` step by step; channels are numbers.
* **RelayApp** - the relay as the same controller drives it, its sessions, requests, poller
  and server kept by the activation they belong to.
* **StoreOpen** - releases that follow one another on one file: lock, journal mode, each
  migration with its version row, source registry, retired sources, a crash at any step.

Ingest and mesh:

* **EventStore** - the event tables and their transactions as operators; **Ingest** runs a
  tick over them, one action per store call, with every early return and every skipped
  failure; **Validators** runs the conditional reads over them, one action per counter or
  query read, against all the writers.
* **PollLoop** - the goroutines around the ticks: the loop with its wake-up, the statistics
  refresh, mesh maintenance, Start and Stop.
* **MeshStore** - polls, the maintenance cycle (chunked compaction, two prunes) and the link
  request of three queries.
* **MeshRelay** - which node forwarded a packet, as operators: rule 1 (a hop of two bytes or
  more that one catalogued repeater carries), the neighbour graph learnt from it, rule 2 (a
  hop resolved from its neighbours on the path).
* **MeshPresence** - from a packet to a row.  The registry's maps, the reporters' buffers and
  the normalizer's memory are variables; `OnMessage`, `PostPackets` and `PostReport` are the
  doors.  A tick is `PollDrain` (delivery, expired-node cache, relays), `PollSnapshot`
  (presence and the merge of adverts, reports and relays), `PollFinish` (`BuildEvent` and the
  scheduler's writes), `RecordMeshTick` or `MeshTickUnwritten`, `SweepDisappeared`; anything
  may happen in between.  `Restart` keeps the store and seeds the registry from it,
  `SeedNeighbours` the graph, later.
* **MeshArchive** - the archive of monitors' readings beside reports, restarts and the
  promotion of a key.
* **RelayTelemetry** - the poller of the relay: a tick reads a share once and works on with
  that copy, one check over the mesh at a time, while the share changes, reports leave and
  the relay restarts; second, the node behind a gateway.

Feeds (each over `Feed`: the result of a poll, and what the sweep makes of it):

* **LaneClosures**, **Wildfire**, **Power**, **Evacuation**, **WeatherAlerts** (with
  earthquakes) - the client's decision between an answer, an empty answer and an error,
  and the normalizer: phases and adopted ids, the join of incidents and perimeters, areas
  kept from an earlier poll, id collisions and continuity, a list cached between a poller and
  visitors.
* **BurnLines** - the worker that dials, its pushes with the refusals of the push endpoint,
  the staged readings, CAL FIRE's page and the permission made of all of them.

Reads:

* **Cache** - entries with the time they were written and an interval; **Weather**, **Roads**,
  **Incidents** (with the road-incident poller) and **Hazards** (chain controls, message
  signs, segments, fire weather) run over it, each split where the code waits for a network.
  **Cameras** keeps its own snapshot.  **Severity** is the scale.
* **GridReads** - first the rules, as functions of what a request read: the status a layer is
  served with and the mode of a place; then the requests put together from several queries, a
  page or a query an action, beside ticks that write event by event and health last.
* **PlaceDirectory** - the directory over deploys that change the configuration and boots that
  are interrupted, and what a place inherits by where it lies.

**MCx** modules only give constants and search bounds (`Handoff` and `Gate` take theirs from the
configuration); **xProofs** modules hold theorems, those about `Gate` are in FeedsProofs, and
**FiniteSums** holds the lemmas on sums and least numbers that three of them need.
`MCServing` and `MCFeeds` run parts that share no state one at a time: the part is chosen in
the initial state (`Parts`, `FeedParts`) and the properties of the others hold of it trivially.

Abstractions: event content is a model value and `ContentHash` is injective on content
and status; places are points and areas intervals of a line (in `EventStore`, the set of
places an event is near); times are small numbers, and a datum of a cache is the time it was
fetched; text is the set of the words a rule looks for; a normalizer's fetch, in `Ingest`, is any
result its contract (`PollResult`) allows; signal strength and first and last seen of a link
are left out; in MeshPresence a node's name and role do not change, and full buffers, refused
requests, the spam floor, failing event upserts and boot reads and rows keyed by a prefix are
left out.  Next to some definitions stands a faulty variant of the same parameters
(`...Anyway`, `...Only`, `Forgets...`); no specification uses it, PROJECT.json's mutants do.

## 3. Runs

| Run | Module, config | Checks | Bounds, and why they are enough |
|---|---|---|---|
| handoff | Handoff, Handoff.cfg | HeldCoversUse, UsersStopBeforeClose, ShutdownTerminates | one process at a time (`Alone`), started either way; two ids and none.  Answers compare an id with one remembered id, so a second id is the only other case |
| coordination | MCCoordination, MCCoordination.cfg | SingleWriter, ImplementsOwnership | a legacy owner, a standby, and a successor at the standby's address; lock not enforced.  Once the successor runs, signals are left out (`Handover`).  The theorems remove the bound |
| gate | Gate, Gate.cfg | DrainIsHonest | four requests, one of which ignores cancellation: several busy periods before and during a drain |
| ingest_sources | MCIngest, MCIngest.cfg | CleanTickSettles, EndsOnEvidence | one poller, an authoritative and an expiring source, an event each; three revisions are create, end, reappear |
| ingest_expiry | MCIngest, MCIngestExpire.cfg | SeenTracksConfirmation, ReconcileAttaches | one event of two contents, one dated; four moments are one more than grace plus coalescing; a place that a restart may seed |
| validators | MCValidators, MCValidators.cfg | TagMeansBody, NotModifiedIsCurrent | one mesh node and one place; all five validated reads; two revisions and refreshes, two processes |
| mesh | MCMeshStore, MCMeshStore.cfg | EachReceptionCountedOnce, AnswerIsBracketed, PruneKeepsUnrolled, CompactionCatchesUp | three receptions in chunks of one, so a cycle takes several; two days of two ticks; a chain that crosses one link twice |
| mesh_presence | MCMeshPresence, MCMeshPresence.cfg | HeardClockStored, AdjacencyProven, ExpiresOnlyTheSilent, ReadingsKept | two repeaters that share a first byte, one of them without a position; a broker, a forwarder and a monitor; two inputs, one fault.  Four moments let a node be heard, expire and come back by a relay |
| serving | MCServing, MCServing.cfg | ServedWithinBound, ClosuresKnown, CameraStatusHonest, LayerErrorIsNoAllClear, NoFalseAllClear | nine parts one at a time.  Intervals of 1 and a clock to 3, so entries become fresh, stale and very stale; two districts, of which either fails; a CHP incident, a closure with two ends, a placemark that is only geometry and one without coordinates; a road whose routed line and straight line disagree.  NoFalseAllClear is about the poller alone: a visitor that refreshes the same list beside it breaks it (observations) |
| feeds | MCFeeds, MCFeeds.cfg | the fifteen properties below | sixteen parts one at a time, see below |
| boot_window_answers | Handoff, HandoffAnswers.cfg | EveryCommandAnswered: violated | see findings |
| mesh_id_reuse | MCMeshStore, MCMeshReuse.cfg | PruneKeepsUnrolled with a silent feed: violated | see findings |

The parts of `feeds`, what each has to contain for its property to bite, and the property:

| Part | Instance | Property |
|---|---|---|
| lanes | two windows, two districts that answer, are down or are blank, garbled rows | ClosureEndsWhenOver |
| wildfire | two fires, one across the edge of the region and flown over twice, either feed failing | FireStaysOnTheMap |
| power | two outages, one of them drawn, a shutoff of two rows; each layer failing alone | OutageStaysAsDrawn |
| evacuation | five rows whose names collide, in orders that change | EveryZoneAtItsWorst |
| burn | two lines, two reporters, CAL FIRE's page, a day of three moments | AllowedIsBacked |
| weather, quakes | two alerts over two zones; a quake that is revised and leaves the window | AlertsFollowNws |
| telemetry, companion | two gateways, one retry, hibernation after one failure, restarts; the node behind a gateway under two keys | ReadingsSurviveRestart |
| archive | an operator's monitor and the relay, a promotion, a prune | OneReadingOneRow |
| summary | pages of two rows, two polled sources, a zone and a fire that change severity between pages, roadwork to come and a lost premise | QuietIsBacked |
| open | two releases, a rollback, four launches, a crash at every statement | SchemaIsWhole |
| loop | three boots, two pushes, a stop during anything | WakeIsNotLost |
| places | three configurations in any order, three county shapes | FireWeatherIsLocal, BurnReachesTheTown |
| relay | three activations, each failing anywhere | RelayReleaseIsTrue |
| links | three keys, positions inside and outside the region or none, changed between the queries | MeshMapIsWhole |

`CHECK_DEADLOCK FALSE` is set where the program may stop (processes exit, requests are
answered) or where a bound ends the instance.

### Fairness

* `Handoff!FairSpec`: weak fairness of the service call's steps (every wait in Activate and
  Quiesce has a deadline or a cancellation) and of Run's loop.  Clients, signals, crashes
  and the listener owe nothing.  ShutdownTerminates assumes in addition that commands
  stop arriving: `shutdown` does not count an attempt it only waited for
  (`controller.go:297,304`), so a client that retries a failing quiescence at the right
  moments can hold it up for ever, and without the condition TLC shows that.
* `Gate!GateFairSpec`: handlers that honour their context leave once it is cancelled, and the
  goroutine of the AfterFunc runs.  Handlers that ignore it owe nothing.

### Findings

* **boot_window_answers** - the control API is served before the boot operation exists
  (`controller.go:198-219`): a command with an id that lands there dereferences a nil
  operation and is not answered.
* **mesh_id_reuse** - `mesh_observations.id` has no AUTOINCREMENT: after a silence as long
  as the raw retention the prune empties the table, ids start again below the watermark, and
  new receptions are pruned without being rolled up.

### Observations

The models show more disagreements of the code with its comments than runs are kept for.  The
following have a property that TLC refutes; to see the trace, put the property (and, where
one is named, the constant) into the configuration of the module's run.

* `CleanTicksAttach` (Ingest; MCIngest.cfg with `Place <- OneTown`, `Near <- InTown`, `SourceOf <- TwoOwned`,
  `Faults = FALSE`): the first tick of a process is its only full reconcile, whether or not it
  listed an event (`scheduler.go`, `st.reconciled = true`); an event whose source failed in
  that tick is never attached to a place that this boot seeded.
* `RelayClockStored` (MeshPresence): a failed mesh write makes the normalizer forget what it
  handed over so that "the next tick re-sends every covered node's clocks"
  (`network.go:565-567`).  The heard clock comes back from the registry; the relay clock was
  only in the relays of the lost tick and stays behind until the node relays again.
* `ExpiresOnlyTheSilent` (MeshPresence, with `GraceFloor`, `GraceCeil` and `RetainFor` 3 and an advert by
  which node a, alone, moves out of the fence): a node outside the fence when a poll reads the registry
  is not presented and ends by the grace of the source, 2 h as deployed (`prefab.yaml:559`), although
  its stored clock is younger than the grace floor, 14 h (`prefab.yaml:755`), and an advert from
  inside arrives before the sweep.  The next tick brings it back.
* `ErrorIsNoAllClear` (Incidents, `Visitor = {visitor}`): the outcome of the feeds is one record
  for all callers, and a visitor's refresh that succeeds overwrites the failure of the
  poller's, whose list was built without the feed; "an upstream error must never read as an
  all-clear" is the comment of IncidentFeedHealth.  A slow refresh that started earlier also
  overwrites a newer list.
* `ConditionsWithinBound` (Weather): refreshWeatherData caches what it had for a location whose
  fetch failed under a new time, so data older than the very-stale bound is served.
* `NearbyAlertIsShown` (Roads, `Window <- TwoWindows`, `MonitoredRoad <- TwoRoads`): the alert id is made of
  name and fetch time, which two alerts share, so processGlobalAlerts drops the second.
* `AdoptionIsStable` (LaneClosures, `ClosureDistrict = {10}`, `ClosureWindow <- TwoDays`, `LegacyStarts = {TRUE}`): a
  second window of the same job that is set up makes the match ambiguous, so the window that
  had adopted the legacy id loses it and the legacy event is swept.
* `FireStaysOnTheMap` with `Fire <- Namesakes`, `PerimRow <- NamesakeRows`: of two perimeters of one name that
  join no incident, a poll that lists only the second gives it the first one's id.
* `EveryZoneAtItsWorst` with `EvacRow <- Subzones`: continuity matches by prefix, so zone E032 takes the id
  of its neighbour E032-A; the comment promises "neither zone is dropped and ids are
  stable across polls".
* `FewGatewaysTransmit`, `RefusalIsOfTheShare` (RelayTelemetry): a share that changes during a check is
  worked on, and charged for, as it was when the tick read it.
* `EvacZeroIsConfirmed` (GridReads): the count of evacuations is read before the health of their
  source, so the zero of a poll that had not finished is served as confirmed.
* `CollisionWritesNothing` (PlaceDirectory): "collisions abort the seed before any write", but a
  place that an earlier configuration left in the store makes UpsertPlace fail half way, and
  every later boot as well.

Seen while modelling, with no property of their own:

* Run reads the state after the boot activation finished (`controller.go:237`); if a quiesce
  has begun by then, it exits with 1 without waiting for the release.
* When the wait for the listener gives up (`grid.go:557`) the process is back in STANDBY
  with the production port bound, though `docs/deploy-handoff.md:69` says it is not.  In the
  relay the server of a failed activation stays and its port is refused to every retry.
* Only the last operation is remembered (`controller.go:606`): after two failed activations a
  replay of the first is run again, not answered `operation_failed`
  (`docs/deploy-handoff.md:146`).
* Requests that a drain reports as remaining are not waited for before the store closes.
* A list whose activity overlay could not be read is sent with the tag of the full answer
  (`gridapi/mesh_activity.go`), so the copy without clocks is confirmed with 304.
  TagMeansBody and NotModifiedIsCurrent leave such copies out.
* A compaction between the rollup query and the watermark query of MeshLinks hides the
  receptions it folded from both; a link they are the only ones of is missing from that
  answer.  AnswerIsBracketed promises completeness only without such a compaction.
* Stored receptions carry no route type, so at boot the neighbour graph also learns from the
  path of a direct-routed advert (`cmd/server/main.go:397-407`), which live traffic never does
  (`client.go:653`); `frame.go:122-124` says a direct route never teaches it.  The packets of
  MCMeshPresence leave such adverts out.
* A node that expired since the expired-node cache was read and that the registry still holds
  is revived by a relay without its stored row, so its reading and attribution are not
  carried forward; `network.go:157-159` says the lag "only delays reviving".
* A reported prefix that is ambiguous among the presented and stored keys is tried again
  against the registry alone (`network.go:326-334`), where it may look unique.
* The health of a reporter is one state for both its streams (`pushingest/mesh.go:241-244`):
  while its monitor posts, a forwarder on the same reporter that died neither becomes STALE
  nor suppresses the sweep; after a restart a forwarder is UNKNOWN, which does not either.
* An event that escalates between two pages of a summary is missing from that answer; one that
  calms down is counted twice.
* GetConditions takes the fire weather of the whole region; an area without zones that
  intersects a place takes "match all" away from the union.
* An incident anywhere adopts the only perimeter of its name; a blank point layer of PG&E
  reads as no outages; a cancelled weather alert stays until its end or the grace.
* A late older burn reading refreshes the reporter's health in memory, but not after a restart;
  a freshness of 36 hours lets yesterday's permission stand.
* While Google or the enhancer is out, a road that an alert closed reads OPEN.
* A renamed archive is orphaned when the rename failed and the node is superseded before the
  next attempt; a relay that restarts sends its first report before its readings are restored.

Further properties stand in the modules without a run of their own.  TypeOK (Handoff,
MeshPresence), GateTypeOK, OnlyAdvertsEstablish, ReleasedIsSettled, ExitZeroReleased,
OneOperation, NeverReopens, OnlyGrantedHold,
ConfirmedIsFinal, IdleMeansNobody, HistoryIsCurrent, ExtraIsKept, StopIsFinal, StatsKeepUp,
RowOutlivesEvents, KindsAreTold, DrainIsComplete, TownSeesItsWeather, NewestReadingStaged and
QuakeEndsWhenOver are proved (section 4).  The others that are not
listed above hold on the instances of their module's run.

## 4. Proofs

For every set of processes, ids, slots, requests, pollers, sources, events, layers, nodes, chains,
monitors, releases, activations, configurations, outages, closures, lines and alerts, and every interval, batch size, retention and clock.  The
assumptions on constants are the named ASSUMEs of the modules (types, intervals that are numbers,
cache keys that differ, a layer that has a source); what is assumed beyond that is said below.

* **HandoffProofs**: TypeCorrect, HeldIsHonest, ReleaseOrder, Settled, ExitCode,
  SingleOperation, ReleaseIsFinal.  None of the invariants is inductive: that nothing is in
  use once databaseHeld is false depends on which quiesce steps are recorded as done, on
  where the service call is, and on operation and state agreeing which call it is.
  `Inv` = types and, per process, `OpInv` (operation, state and job agree), `HeldInv`
  (databaseHeld follows the state and covers every use), `StepInv` (what a recorded step
  says of the resource), `JobInv` (what is done by the time a call is at a step), `ExitInv`
  (attempts and exit code).  One lemma per group of actions; the action properties follow
  from `Inv` and the edges of the state machine (`StepsAreEdges`).
  Over it, for the composition: OneWriter, HoldersGranted, ConfirmationsHold, OwnershipRefined.
  `CoordInv` adds to `Inv` that every activate in flight is for a granted process and that of
  two granted processes one is confirmed.  A confirmed process is gone or released for
  good, because a release is final and databaseHeld is honest; so at most one process holds
  the database, and every step maps to a claim, a release, a retirement or a stutter of
  `DbOwnership`.  Assumed (`SlotAssumption`): at most one process boots the legacy way.  The
  file lock is not assumed.
* **IngestProofs**: SettlesTheorem, EvidenceTheorem, SeenTheorem, AttachTheorem, and of the event
  store HistoryTheorem and ExtraTheorem.  Three lemmas say what UpsertEvent, TransitionEvents
  and TouchSeen do to a row.  `IngestInv` = types and, per poller, `TickShape` (what a tick
  holds at each of its steps), `HashesFresh` (the hashes a tick read are still those of its
  rows: no other poller writes them), `ListedStored` (what a clean tick has got through is
  stored as polled) and `DroppedEnded` (what had to end and is not still to be swept has
  ended).  The action property about ends follows from what one sweep may touch (`SweepEvidence`).
* **ValidatorsProofs**: TagTheorem, NotModifiedTheorem.  The counters a tag is made of are bumped
  after the commit they count, read one by one, and start again with the process, so neither
  they nor their sums say anything alone.  A tag is compared with *levels*: the writes that are
  committed, whether counted or not (`DataLevel`, `RefreshLevel`, `MeshLevel`).  In one
  process no level falls, a write that changes an answer raises one (`Steady`), and `TagInv` says
  that no tag is ahead of its levels and that a tag that is not behind vouches for its body.
  A restart makes a new nonce, which no copy has.
* **MeshStoreProofs**: WatermarkTheorem, PruneKeepsUnrolledTheorem, CountedTheorem, AnswerTheorem,
  CatchUpTheorem, all under `MaySilence = FALSE` (the feed is never silent for the raw
  retention; without it they are false, see mesh_id_reuse).  `IInv`: ids grow with time, the
  watermark separates rows folded once from rows not folded, and some row at or above it is
  still there, so no later id can fall below it.  `CountInv` adds that a link's day in the rollup
  and its rows past the watermark never exceed what was received and equal it while the
  rollup keeps the day, and that at no single time do the rows past the watermark exceed it.
  `ReaderInv` adds, for a link request between its queries, that what it has added up and what
  its tail query would still add lie between what was received in the window and what was
  received at all (below only while no compaction ran).  Both were model-checked first,
  on the instance of the run.
  Second, ArchiveTheorem: `ArchiveInv` orders the readings of a monitor by time and success, so
  that a report which is not newer than the last row is one of those that are there, and says
  that no row keeps the prefix once the key is promoted.
* **MeshPresenceProofs**: PresenceTypes, AdjacencyTheorem, HeardClocksTheorem, ReadingsTheorem,
  MapTheorem, ExpiryTheorem.  A poll carries what it read in one critical section into the next,
  while packets, reports and sessions change it, so every invariant speaks of the poll too.
  * `Types` says more than TypeOK: no time that anything remembers is ahead of the clock.  All the
    rest needs it, for the differences of times that the rules compare.
  * AdjacencyTheorem.  `LinkInv`: buffered, drained and stored receptions are of packets that were
    received, and a link of the graph joins two neighbours on the path of one of them.  What a
    path names of a hop is a recursive function from either end, so a link needs two wide hops
    only because the hops of a packet are of one size (`frame.go:25-31`, in `IsPacket`).
    Assumed (`DirectAdvertsAreZeroHop`): a direct advert has no hops; without it the boot
    teaches the graph what live traffic does not (section 3), and what is then left of the
    property is LinksTheorem, which assumes nothing.
  * HeardClocksTheorem.  `ClockInv`: between ticks no clock remembered as handed over is ahead of
    the stored one, and within a tick one that is ahead is on its way: a failed write forgets
    them all, which is why the heard clock comes back.  Of the relay clock this is false.
  * ReadingsTheorem follows from what one write makes of a row (`WrittenRow`, `FinishRow`).
  * MapTheorem.  `MapInv`: registry entries, rows, the expired-node cache and what the poll
    presents all go back to an advert.
  * ExpiryTheorem, that the sweep takes only the silent.  The decision is made of three memories
    of different age: the delivery clocks at the start of the poll, the registry at its second
    critical section and the row at the sweep; and the clocks the property speaks of
    are a fourth, in the store, which a failed write leaves behind and a restart starts
    from.  `DeliveryInv`: a poll that is not deaf began with every broker delivering.
    `ScopeInv`: where a node is, registry, row, cache and poll agree.  `SilenceInv`: each clock of
    a node that anything remembers (the store's, the normalizer's, the one on its way) is
    accounted for (`Settled`): it is not ahead of the registry entry (a relay: or of the one the
    normalizer remembers), or it has run out; those of an expired row have, and once a poll in which every broker
    delivered has left a node out, its clocks have run out and stay so until the sweep.
    Assumed (`Deployed`): there is a broker, silence and relays count for something, and
    `NobodyCrosses`: either all adverts of a node have a position in the fence or none has.  Without
    the last it is false (section 3).
* **ServingProofs**: WeatherTheorem, RoadsTheorem, CamerasTheorem, LayersTheorem.  Each invariant
  says what an entry of the cache and a call in progress may hold at a time: how old its data
  can be for the time it was written (an alert list may have been made from a list one interval
  old), that a list of roads was built on closures of every district, what a snapshot says of
  the districts that failed, and for a layer that what it tells is what the files said no longer
  ago than the cache may lag.
* **FeedsProofs**, for the gate and for parts of `feeds`:
  * GateTypes, IdleIsExact, DrainReportsHonestly of the admission gate.  `GateInv`: the counter is
    the number of requests inside, the idle channel follows the counter, and from its first step
    the drain runs behind a closed gate, so its counts only fall and its channel is the last.
  * RelayReleaseTheorem.  That nothing of any activation is left when the relay says "released" is
    not inductive: a retry skips the steps whose flags earlier attempts set, and the fields it
    tears down are those of the last activation.  `RelayInv` = types, `PastIsGone` (nothing of an
    earlier activation is open once a later one began), `HeldFollowsState`, `FlagsInOrder` (a flag
    implies the ones before it) and `FieldsTell` (whatever is open is in a field or behind a
    flag still unset).
  * WakeTheorem, StopTheorem, StatsTheorem of the poll loop.  `LoopInv`: a tick under way read the
    last reading or a wake-up is pending, Stop waits for every goroutine, and while no ANALYZE
    runs the timer fires before the age of the statistics reaches the bound.
  * SchemaTheorem, RowsTheorem, KindsTheorem of the opening of the store.  `OpenInv`: the versions
    recorded and the migrations applied are both 1 to some c, which no open process needs more
    than, whoever is past the lock holds it, and what a boot seeded stays until it closes.
  * ModeIsMonotone (a worse layer never makes a place's mode better), OutageNeverCalms (losing a
    source never does either), UnknownIsNeverQuiet, of the rules themselves, so of every summary.
  * QuietTheorem, DrainTheorem of the summary, for any page size.  The store's order is total on
    what is stored at once (`BeforeIsOrder`), so each event left has a place of its own and every
    place is taken (`PlacesInOrder`, `EveryPlaceTaken`, a pigeonhole): a page is the first places,
    in order (`PageOf`), though the text of the query is a sort and a limit.  `SummaryInv`: an event
    that stood since the first page is on one page already or lies beyond the cursor
    (`ReadOrToCome`), and what a request keeps of the source rows is no older than its pages
    (`RequestKeepsUp`).  Assumed (`SummaryAssumption`, `EvacuationAssumption`): finitely many
    versions of events, whose rank identifies their id, and Cal OES alone publishes evacuations.
  * LinksTheorem.  `ReadsAreCurrent`: what an undisturbed request has read is what is stored; the
    rest of the property is about the answer alone.
  * BurnTheorem, TownTheorem, FireTheorem of the place directory.  `DirectoryInv`: a row is found
    under its id and the counties are those embedded (`RowsAreKeyed`), what a boot has got through
    is stored and nothing else goes by its ids (`SeededSoFar`), whatever earlier deployments
    left.  Assumed: positions are numbers, and no configured town lies on
    the border of two counties (`OneCountyAssumption`).  TownTheorem needs a precision the padding covers.  FireTheorem needs
    `ZonesAreNamed`: an area or a product without zones matches everything (`zonesMatch`), so
    without it another area's banner shows, which is what the code intends for a bare configuration.
  * PowerTheorem.  `TrackedPower`: what is tracked is a published outage or shutoff, with an area
    only if PG&E draws one.  A poll that neither fails nor keeps the stored area read both layers
    whole (`WholePoll`).  Assumed (`OutageAssumption`): PG&E does not take a drawing back.
  * LaneTheorem, for a store without events of the KML era.  `LaneInv`: a row left its file after its
    window only, and what is tracked is a window in the areas under its own id.  A poll that is
    sure of itself hands over every such window that is not over (`SurePoll`).  With legacy events
    an id that was adopted can be given up again (`AdoptionIsStable`, section 3).
    Assumed (`ClosureAssumption`, `GraceAssumption`): district and index name a window.
  * AllowedTheorem, NewestTheorem of the burn answer.  `StagedIsNewest` and `OneAnswer`: the one event
    keeps what CAL FIRE was last heard to say.  AllowedTheorem needs a bound on the age of a reading
    (`BurnDayStale > 0`); the configuration can turn it off.
  * AlertsTheorem.  `WeatherInv`: a list on its way is true since its request began (`FetchIsRecent`),
    the cached one since a request before it was written (`CacheIsTrue`), whoever fetched it.
  * QuakeTheorem, whose invariant is the types.
* **FiniteSums** has no theorem of its own.  The induction rules cannot be used here (they take
  an operator), so what a sum over a finite set is follows from the smallest counterexample: of
  the sets for which a claim fails one has no smaller one (`SmallestSet`).  That gives the
  recursive equation of SumFunctionOnSet (`SumUnfolds`), and from it sums of unions, of functions
  that differ at one place, of shifted index sets and of a partition.

Only model-checked:

* everything temporal under fairness: ShutdownTerminates, OperationsFinish, CancelReachesEveryone;
* NoFalseAllClear: it is a statement about the instance.  With two areas the successful fetch of
  the second overwrites the health record that the failure of the first left, so it does not
  hold for every set of areas;
* QuietRestartMintsNothing (MeshPresence), which no theorem states;
* of `feeds`: FireStaysOnTheMap and EveryZoneAtItsWorst, which fail for namesakes and for
  sub-zones (section 3) and so hold of instances without them, and ReadingsSurviveRestart, whose
  cycle is a fold over the gateways: what a fold computes is an induction over data.

## 5. What could follow

* Theorems: QuietRestartMintsNothing of MeshPresence; EveryZoneAtItsWorst of Evacuation
  without sub-zones and FireStaysOnTheMap of Wildfire without namesakes, with lemmas about their
  clusters argued from the shortest counterexample, as FiniteSums does for sums.
* The rest of the mesh: rows keyed by a prefix in MeshPresence, the spam floor and full
  buffers, forwarding of adverts.
* The full-text and as-of queries of the event store; the bucketing of charts.
* Normalizers inside Ingest's ticks rather than over `Feed`.

## 6. Not modelled

Bytes and characters of the feed clients' parsing and HTTP, the binary packet formats beyond
the fields a rule reads, projections of one row, chart shaping, the MCP and OpenAPI adapters,
generated code, loading of the configuration, floating-point geometry and routing, tools that
run once, the ECS metadata: conversions without state, I/O or floating point.  The relay and
prefab libraries are outside the repository.  SQLite is taken to be serialisable and durable;
a transaction is one step.
