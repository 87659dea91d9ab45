------------------------------- MODULE Ingest -------------------------------
(***************************************************************************)
(* The ingest scheduler of internal/ingest/scheduler.go over EventStore:   *)
(* one goroutine per poller, each tick polling its sources, writing what   *)
(* changed, stamping what was confirmed, sweeping what disappeared and     *)
(* recording the sources' health.                                          *)
(*                                                                         *)
(* A tick is a sequence of store transactions, each of which may fail and  *)
(* is then logged and skipped; a panic ends the tick, a crash ends the     *)
(* process.  The normalizer's fetch is the environment: any result its     *)
(* contract (PollResult) allows.  A poller's reads of its own rows before  *)
(* its first write are one step with the poll: nobody else writes them.    *)
(* The mesh tables a tick writes between the stamp and the sweep are in    *)
(* MeshStore.                                                              *)
(***************************************************************************)
EXTENDS EventStore

CONSTANTS Poller, Source,
          PollerOf,       \* [Source -> Poller]
          SourceOf,       \* [Event -> Source]
          Policy,         \* [Source -> {"resolve", "expire"}]: the disappearance tuning
          ExpireAfter,    \* the expire grace (0: none)
          StaleAfter,     \* health window of a source after its last success
          Coalesce,       \* touchSeenCoalesce
          ExpiresAt,      \* [Content -> Nat]: the event's own expiry (0: none)
          Alerts,         \* the weather alerts, which the enhancer may summarize
          Enhanced,       \* the hash-excluded content it produces (NoExtra: no enhancer)
          Telemetry,      \* the hash-excluded contents that are no enhancement
          BudgetPerTick,
          PollStatus,     \* statuses the polls of this instance return
          Nil,            \* stands for an absent value
          Faults,         \* whether store operations fail, ticks panic, processes crash
          MaxTime, MaxRev \* bounds of the instance

ASSUME IngestAssumption ==
    /\ PollerOf \in [Source -> Poller]
    /\ SourceOf \in [Event -> Source]
    /\ Policy \in [Source -> {"resolve", "expire"}]
    /\ ExpiresAt \in [Content -> Nat]
    /\ {ExpireAfter, StaleAfter, Coalesce, BudgetPerTick, MaxTime, MaxRev} \subseteq Nat
    /\ Coalesce < ExpireAfter \/ ExpireAfter = 0
    /\ Alerts \subseteq Event
    /\ Enhanced \in Extra \cup {NoExtra}
    /\ Telemetry \subseteq Extra \ {Enhanced}
    /\ PollStatus \subseteq LiveStatus
    /\ Faults \in BOOLEAN

\* The absent value is none of the stored hashes.
ASSUME NilAssumption == Nil \notin Content \X EventStatus

VARIABLES now,          \* the clock
          step,         \* [Poller -> step of the tick]
          tick,         \* [Poller -> what the current tick has learnt]
          reconciled,   \* [Poller -> pollerState.reconciled]
          health,       \* [Source -> its health row]
          confirmed,    \* history: when an event was last written, or listed by its source's clean poll
          stamped,      \* history: the last of these that the store was told of
          clean         \* history: nothing failed in the poller's current tick

ingestVars == <<now, step, tick, reconciled, health, confirmed, stamped, clean>>
vars == <<storeVars, ingestVars>>

SourcesOf(p) == {s \in Source : PollerOf[s] = p}
EventsOf(p)  == {e \in Event : PollerOf[SourceOf[e]] = p}
\* The source the loop is at: it goes through SourceIDs() in their order.
First(S)     == CHOOSE s \in S : TRUE
Listed(p)    == {e \in DOMAIN tick[p].list : tick[p].list[e] # Nil}

NoTick == [list |-> <<>>, errs |-> {}, suppress |-> {}, superseded |-> {}, force |-> {},
           at |-> 0, full |-> FALSE, hashes |-> Nil, budget |-> 0, left |-> {}]

Init ==
    /\ StoreInit
    /\ now        = 0
    /\ step       = [p \in Poller |-> "idle"]
    /\ tick       = [p \in Poller |-> NoTick]
    /\ reconciled = [p \in Poller |-> FALSE]
    /\ health     = [s \in Source |-> [status |-> "UNKNOWN", success |-> Nil]]
    /\ confirmed  = [e \in Event |-> 0]
    /\ stamped    = [e \in Event |-> 0]
    /\ clean      = [p \in Poller |-> TRUE]

-----------------------------------------------------------------------------
(***************************************************************************)
(* Bookkeeping of one step of p's tick.                                    *)
(***************************************************************************)
Goto(p, s) == step' = [step EXCEPT ![p] = s]

Succeeds(p) == UNCHANGED clean

Fails(p) ==
    /\ Faults
    /\ clean' = [clean EXCEPT ![p] = FALSE]

Ends(p) ==
    /\ Goto(p, "idle")
    /\ tick' = [tick EXCEPT ![p] = NoTick]

\* Room for what a tick may write (MaxRev bounds revisions and refreshes).
Room(p) == \A e \in EventsOf(p) : Known(e) => rows[e].rev < MaxRev /\ rows[e].fresh < MaxRev

-----------------------------------------------------------------------------
(***************************************************************************)
(* The poll and the reads that follow it.                                  *)
(***************************************************************************)
ActiveEventsBySource(s) == {e \in Event : Active(e) /\ SourceOf[e] = s}

PollForms == [content : Content, status : PollStatus, extra : Extra \cup {NoExtra}]

\* ContentHashes, storedHashes: one query for the whole poll, and no map when it fails.
ContentHashes(p) == [e \in EventsOf(p) |-> IF Known(e) THEN rows[e].hash ELSE Nil]
StoredHashes(p, hashed) == IF hashed THEN ContentHashes(p) ELSE Nil

\* loadPrior: the live events of the poller's sources.
LoadPrior(p) == UNION {ActiveEventsBySource(s) : s \in SourcesOf(p)}

Poll(p) ==
    /\ step[p] = "idle" /\ Room(p)
    /\ \E list \in [EventsOf(p) -> PollForms \cup {Nil}],
          errs \in SUBSET SourcesOf(p),
          suppress \in SUBSET SourcesOf(p),
          superseded \in SUBSET LoadPrior(p),
          force \in SUBSET EventsOf(p),
          hashed \in BOOLEAN :
         /\ suppress \cap errs = {}
         /\ \A e \in superseded : list[e] = Nil
         /\ \A e \in Alerts \cap EventsOf(p) : list[e] # Nil => list[e].extra = NoExtra
         /\ \A e \in force : list[e] # Nil /\ list[e].extra \in Telemetry
         /\ ~hashed => Faults                       \* ContentHashes failed
         /\ tick' = [tick EXCEPT ![p] =
                [list |-> list, errs |-> errs, suppress |-> suppress, superseded |-> superseded,
                 force |-> force,
                 at |-> now, full |-> ~reconciled[p],
                 hashes |-> StoredHashes(p, hashed),
                 budget |-> BudgetPerTick, left |-> {e \in EventsOf(p) : list[e] # Nil}]]
         /\ confirmed' = [e \in Event |->
                IF e \in EventsOf(p) /\ list[e] # Nil /\ SourceOf[e] \notin errs
                THEN now ELSE confirmed[e]]
    /\ Goto(p, "upsert")
    /\ clean' = [clean EXCEPT ![p] = TRUE]
    /\ UNCHANGED <<storeVars, now, reconciled, health, stamped>>

\* A hard error: only the health of every covered source is written.
PollFails(p) ==
    /\ step[p] = "idle"
    /\ tick' = [tick EXCEPT ![p] = [NoTick EXCEPT !.errs = SourcesOf(p), !.left = SourcesOf(p)]]
    /\ Goto(p, "health")
    /\ clean' = [clean EXCEPT ![p] = TRUE]
    /\ UNCHANGED <<storeVars, now, reconciled, health, confirmed, stamped>>

-----------------------------------------------------------------------------
(***************************************************************************)
(* The write path, one polled event at a time.                             *)
(***************************************************************************)
\* maybeEnhance: asking spends the budget, whether or not the model answers.
Enhances(p, e) ==
    /\ Enhanced # NoExtra /\ e \in Alerts /\ tick[p].budget > 0
    /\ NeedsUpdate(e, tick[p].list[e])

\* Mutant: hash-equal events are skipped in a full reconcile too.
ShouldUpsertLazy(p, e, ev) ==
    ev.extra \notin Extra \ Telemetry /\ tick[p].hashes # Nil /\ e \notin tick[p].force
        => tick[p].hashes[e] # ContentHash(ev.content, ev.status)

\* shouldUpsert: only an event whose stored hash is its own is skipped, and not in a
\* full reconcile, nor when it carries an enhancement or telemetry that must be stored.
ShouldUpsert(p, e, ev) ==
    /\ ~tick[p].full
    /\ ev.extra \notin Extra \ Telemetry
    /\ tick[p].hashes # Nil
    /\ e \notin tick[p].force
    => tick[p].hashes[e] # ContentHash(ev.content, ev.status)

UpsertNext(p) ==
    /\ step[p] = "upsert"
    /\ \E e \in tick[p].left, asked \in BOOLEAN, answered \in BOOLEAN :
         LET ev == [tick[p].list[e] EXCEPT !.extra = IF answered THEN Enhanced ELSE @]
         IN /\ answered => asked
            /\ asked => Enhances(p, e)
            /\ Enhances(p, e) => asked \/ Faults     \* NeedsUpdate failed
            /\ tick' = [tick EXCEPT ![p].left = @ \ {e},
                                    ![p].budget = IF asked THEN @ - 1 ELSE @]
            /\ IF ShouldUpsert(p, e, ev)
               THEN \/ /\ UpsertEvent(e, ev, now)
                       /\ confirmed' = [confirmed EXCEPT ![e] = IF NeedsUpdate(e, ev) THEN now ELSE @]
                       /\ stamped' = [stamped EXCEPT ![e] = IF NeedsUpdate(e, ev) THEN now ELSE @]
                       /\ Succeeds(p)
                    \/ Fails(p) /\ UNCHANGED <<storeVars, confirmed, stamped>>
               ELSE UNCHANGED <<storeVars, confirmed, stamped>> /\ Succeeds(p)
    /\ UNCHANGED <<now, step, reconciled, health>>

\* Mutant: events of a source that failed count as confirmed.
ConfirmedIdsAll(p) == Listed(p)

\* polledIDs: listed by a source that fetched cleanly.
ConfirmedIds(p) == {e \in Listed(p) : SourceOf[e] \notin tick[p].errs}

\* TouchSeen, after the last upsert: a failure is logged, and what the poll confirmed
\* stays unstamped; the reconcile is taken as done either way.
Touch(p) ==
    /\ step[p] = "upsert" /\ tick[p].left = {}
    /\ \/ /\ TouchSeen(ConfirmedIds(p), tick[p].at, Coalesce)
          /\ stamped' = [e \in Event |->
                 IF e \in Listed(p) /\ SourceOf[e] \notin tick[p].errs /\ tick[p].at > stamped[e]
                 THEN tick[p].at ELSE stamped[e]]
          /\ Succeeds(p)
       \/ /\ Fails(p)
          /\ UNCHANGED <<storeVars, stamped>>
    /\ reconciled' = [reconciled EXCEPT ![p] = TRUE]
    /\ tick' = [tick EXCEPT ![p].left = SourcesOf(p)]
    /\ Goto(p, "supersede")
    /\ UNCHANGED <<now, health, confirmed>>

-----------------------------------------------------------------------------
(***************************************************************************)
(* The disappearance sweep, one source at a time: first what the poll      *)
(* proves superseded, then what it does not list.                          *)
(***************************************************************************)
\* Mutant: a suppressed source is swept.
SweptAnyway(p, s) == s \notin tick[p].errs

Swept(p, s) == s \notin tick[p].errs \cup tick[p].suppress

ShouldExpire(e, t) ==
    \/ ExpiresAt[rows[e].content] > 0 /\ t > ExpiresAt[rows[e].content]
    \/ ExpireAfter > 0 /\ t > rows[e].seen + ExpireAfter

SkipSource(p) ==
    /\ step[p] = "supersede" /\ tick[p].left # {}
    /\ ~Swept(p, First(tick[p].left))
    /\ tick' = [tick EXCEPT ![p].left = @ \ {First(@)}]
    /\ UNCHANGED <<storeVars, now, step, reconciled, health, confirmed, stamped, clean>>

Supersede(p) ==
    /\ step[p] = "supersede" /\ tick[p].left # {}
    /\ LET s == First(tick[p].left)
           ids == ActiveEventsBySource(s) \cap tick[p].superseded
       IN /\ Swept(p, s)
          /\ \/ TransitionEvents(ids, "RESOLVED") /\ Succeeds(p)
             \/ ids # {} /\ Fails(p) /\ UNCHANGED storeVars
    /\ Goto(p, "disappear")
    /\ UNCHANGED <<now, tick, reconciled, health, confirmed, stamped>>

SweepDisappeared(p) ==
    /\ step[p] = "disappear"
    /\ LET s == First(tick[p].left)
           gone == ActiveEventsBySource(s) \ Listed(p)
           ids == IF Policy[s] = "expire" THEN {e \in gone : ShouldExpire(e, tick[p].at)} ELSE gone
           to == IF Policy[s] = "expire" THEN "EXPIRED" ELSE "RESOLVED"
       IN /\ \/ TransitionEvents(ids, to) /\ Succeeds(p)
             \/ ids # {} /\ Fails(p) /\ UNCHANGED storeVars
          /\ tick' = [tick EXCEPT ![p].left = @ \ {s}]
    /\ Goto(p, "supersede")
    /\ UNCHANGED <<now, reconciled, health, confirmed, stamped>>

SweepDone(p) ==
    /\ step[p] = "supersede" /\ tick[p].left = {}
    /\ tick' = [tick EXCEPT ![p].left = SourcesOf(p)]
    /\ Goto(p, "health")
    /\ UNCHANGED <<storeVars, now, reconciled, health, confirmed, stamped, clean>>

-----------------------------------------------------------------------------
(***************************************************************************)
(* Store.RecordAttempt for every covered source, then the tick is over.    *)
(***************************************************************************)
Attempt(s, failed) ==
    IF ~failed THEN [status |-> "OK", success |-> now]
    ELSE [health[s] EXCEPT !.status =
              IF health[s].success # Nil /\ now <= health[s].success + StaleAfter
              THEN "STALE" ELSE "UNAVAILABLE"]

RecordAttempt(p) ==
    /\ step[p] = "health" /\ tick[p].left # {}
    /\ LET s == First(tick[p].left)
       IN \/ health' = [health EXCEPT ![s] = Attempt(s, s \in tick[p].errs)] /\ Succeeds(p)
          \/ Fails(p) /\ UNCHANGED health
    /\ tick' = [tick EXCEPT ![p].left = @ \ {First(@)}]
    /\ UNCHANGED <<storeVars, now, step, reconciled, confirmed, stamped>>

TickEnds(p) ==
    /\ step[p] = "health" /\ tick[p].left = {}
    /\ Ends(p)
    /\ UNCHANGED <<storeVars, now, reconciled, health, confirmed, stamped, clean>>

\* safeTick recovers: the poller goes on with its next tick.
Panic(p) ==
    /\ step[p] # "idle"
    /\ Fails(p)
    /\ Ends(p)
    /\ UNCHANGED <<storeVars, now, reconciled, health, confirmed, stamped>>

-----------------------------------------------------------------------------
\* The process stops or dies and another opens the database: it seeds its
\* places and its pollers know nothing of earlier ticks.
Restart ==
    /\ \E new \in SUBSET Place : SeedPlaces(new)
    /\ step'       = [p \in Poller |-> "idle"]
    /\ tick'       = [p \in Poller |-> NoTick]
    /\ reconciled' = [p \in Poller |-> FALSE]
    /\ clean'      = [p \in Poller |-> TRUE]
    /\ UNCHANGED <<now, health, confirmed, stamped>>

Clock ==
    /\ now < MaxTime
    /\ now' = now + 1
    /\ UNCHANGED <<storeVars, step, tick, reconciled, health, confirmed, stamped, clean>>

Tick(p) ==
    \/ Poll(p) \/ PollFails(p) \/ UpsertNext(p) \/ Touch(p)
    \/ SkipSource(p) \/ Supersede(p) \/ SweepDisappeared(p) \/ SweepDone(p)
    \/ RecordAttempt(p) \/ TickEnds(p) \/ Panic(p)

Next == (\E p \in Poller : Tick(p)) \/ Restart \/ Clock

Spec == Init /\ [][Next]_vars

-----------------------------------------------------------------------------
(***************************************************************************)
(* Properties.                                                             *)
(***************************************************************************)
TypeOK ==
    /\ RowTypeOK
    /\ now \in 0..MaxTime
    /\ step \in [Poller -> {"idle", "upsert", "supersede", "disappear", "health"}]
    /\ \A p \in Poller :
          /\ tick[p].errs \cup tick[p].suppress \subseteq SourcesOf(p)
          /\ tick[p].budget \in 0..BudgetPerTick
    /\ reconciled \in [Poller -> BOOLEAN]
    /\ health \in [Source -> [status : {"UNKNOWN", "OK", "STALE", "UNAVAILABLE"},
                              success : (0..MaxTime) \cup {Nil}]]

(* A failed, suppressed or contradicting fetch never ends an event: whatever *)
(* fails in the tick, an event leaves the active set only by its own         *)
(* source's clean poll not listing it, and expires only past its own expiry  *)
(* or once the grace has run out since the last confirmation the store was   *)
(* told of, less the coalescing window its stamp may lag (tick,              *)
(* sweepDisappeared; GraceRunsFromConfirmation is refuted).                  *)
EndsOnEvidence ==
    [][\A e \in Event : LET p == PollerOf[SourceOf[e]] IN
          Active(e) /\ ~Active(e)' =>
              /\ SourceOf[e] \notin tick[p].errs \cup tick[p].suppress
              /\ e \notin Listed(p)
              /\ rows'[e].status = "EXPIRED" =>
                    \/ ExpiresAt[rows[e].content] > 0 /\ tick[p].at > ExpiresAt[rows[e].content]
                    \/ tick[p].at + Coalesce > stamped[e] + ExpireAfter]_vars

(* A tick in which nothing failed leaves the store as the poll says: what it *)
(* listed is stored with that content and status, even if an earlier sweep   *)
(* had ended it, and with the telemetry it forces; what an authoritative     *)
(* source dropped, the poll superseded, or no source has confirmed for the   *)
(* whole grace, is no longer active.  The hash pre-check is read at the      *)
(* start of the tick and earlier ticks may have failed anywhere.             *)
CleanTickSettles ==
    \A p \in Poller : step[p] = "health" /\ clean[p] =>
        \A e \in DOMAIN tick[p].list :
            IF e \in Listed(p)
            THEN /\ Known(e)
                 /\ rows[e].content = tick[p].list[e].content
                 /\ rows[e].status = tick[p].list[e].status
                 /\ e \in tick[p].force => rows[e].extra = tick[p].list[e].extra
            ELSE /\ SourceOf[e] \notin tick[p].errs \cup tick[p].suppress
                 /\ \/ Policy[SourceOf[e]] = "resolve"
                    \/ e \in tick[p].superseded
                    \/ ExpireAfter > 0 /\ tick[p].at > confirmed[e] + ExpireAfter
                 => ~Active(e)

(* Hash-excluded content (an enhancement, telemetry) survives as long as the *)
(* revision it belongs to: a poll without it never erases it.                *)
ExtraIsKept ==
    [][\A e \in Event : Known(e) /\ rows'[e].rev = rows[e].rev /\ rows[e].extra # NoExtra =>
          rows'[e].extra # NoExtra]_vars

(* last_seen_at is evidence, never a guess: it is no later than the last     *)
(* write of the event or its last listing by a clean poll (a source that is  *)
(* down and served stale cannot keep the grace from running out), and lags   *)
(* by no more than the coalescing window the last of them the store was told *)
(* of: a tick only logs that its stamping failed, and one that panics before *)
(* it stamps nothing (TouchSeen, polledIDs).                                 *)
SeenTracksConfirmation ==
    \A e \in Event : Known(e) =>
        rows[e].seen <= confirmed[e] /\ stamped[e] <= rows[e].seen + Coalesce

(* The first tick of a process attaches every event it lists to every place  *)
(* seeded so far, hash-equal or not, though the event was stored before the  *)
(* place was (fullReconcile).                                                *)
ReconcileAttaches ==
    \A p \in Poller : step[p] = "health" /\ clean[p] /\ tick[p].full =>
        \A e \in Listed(p) : rows[e].att = MatchPlaces(e)

(* "when the place set changes every event must go through the full path     *)
(* once - otherwise an event that arrived before a place was seeded would    *)
(* never attach to it" (tick): after any tick in which nothing failed, what  *)
(* the poll listed is attached to the places seeded.                         *)
CleanTicksAttach ==
    \A p \in Poller : step[p] = "health" /\ clean[p] =>
        \A e \in Listed(p) : rows[e].att = MatchPlaces(e)

(* "TouchSeen anchors the expire grace to this confirmation, so a stable     *)
(* event that later drops out of one poll is not expired instantly" (tick):  *)
(* what TLC refutes, for a stamping that fails is not made up for, and the   *)
(* next tick may be the one that expires.                                    *)
GraceRunsFromConfirmation ==
    [][\A e \in Event : LET p == PollerOf[SourceOf[e]] IN
          Active(e) /\ rows'[e].status = "EXPIRED" =>
              \/ ExpiresAt[rows[e].content] > 0 /\ tick[p].at > ExpiresAt[rows[e].content]
              \/ tick[p].at + Coalesce > confirmed[e] + ExpireAfter]_vars
=============================================================================
