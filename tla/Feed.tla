-------------------------------- MODULE Feed --------------------------------
(***************************************************************************)
(* What the feed normalizers of internal/ingest share: the result of a poll *)
(* and what a tick of the scheduler makes of it (module Ingest has the tick *)
(* in full).  Places are points of a line, areas intervals of it.           *)
(***************************************************************************)
EXTENDS Integers, Sequences, FiniteSets

VARIABLES part,    \* the normalizer at work
          world,   \* what is the case upstream
          live,    \* the active and scheduled events of the store
          result   \* health of the latest poll, or the latest answer, as long as it matters

feedVars == <<part, world, live, result>>

CONSTANTS Area,          \* the configured areas, as [lo, hi]
          Nowhere,       \* no position
          ExpireSource   \* the sources whose absent events are given a grace

ASSUME AreaAssumption == \A a \in Area : a.lo \in Int /\ a.hi \in Int

\* PollResult: what a poll hands over.
PollResult(events, failed, suppress, superseded) ==
    [hard |-> FALSE, events |-> events, failed |-> failed, suppress |-> suppress, superseded |-> superseded]

\* Poll's error, errEmptyScope among them: nothing is stored, nothing is swept.
PollError == [hard |-> TRUE, events |-> {}, failed |-> {}, suppress |-> {}, superseded |-> {}]

Ids(es) == {e.id : e \in es}

\* Prior.ForSource: the stored events of one source.
PriorForSource(s) == {e \in live : e.source = s}

\* Bounds.Contains.
InArea(at, a) == at # Nowhere /\ a.lo <= at /\ at <= a.hi
InAnyArea(at) == \E a \in Area : InArea(at, a)

\* unionBounds: one box around all areas.
InUnion(at, margin) ==
    /\ at # Nowhere
    /\ \E a \in Area : a.lo - margin <= at
    /\ \E a \in Area : at <= a.hi + margin

Distance(p, q) == IF p < q THEN q - p ELSE p - q

\* tick: the events of the poll replace those of their ids.  An absent event
\* stays while its source failed or was suppressed; else it ends, at once when
\* it is superseded or its source gives no grace, or when the grace has lapsed.
Tracked(res, lapsed) ==
    IF res.hard THEN live
    ELSE res.events \cup
         {e \in live :
            /\ e.id \notin Ids(res.events)
            /\ \/ e.source \in res.failed \cup res.suppress
               \/ e.source \in ExpireSource /\ e.id \notin res.superseded \cup lapsed}

Apply(res, lapsed) ==
    /\ result' = [hard |-> res.hard, failed |-> res.failed]
    /\ live' = Tracked(res, lapsed)
NeverPolled == [hard |-> TRUE, failed |-> {}]

\* The ids a tick ends.
Ended == Ids(live) \ Ids(live')
============================================================================
