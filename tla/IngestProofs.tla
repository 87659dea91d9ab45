---------------------------- MODULE IngestProofs ----------------------------
(***************************************************************************)
(* What a tick of the ingest scheduler leaves in the store, for any set of *)
(* pollers, sources and events, whichever of its transactions fail, and    *)
(* however the ticks of several pollers, panics and restarts interleave.   *)
(***************************************************************************)
EXTENDS Ingest, Integers, TLAPS

Row == [rev : Nat \ {0}, status : EventStatus, content : Content, hash : Content \X EventStatus,
        extra : Extra \cup {NoExtra}, att : SUBSET Place, seen : Nat, fresh : Nat]
Snap == [rev : Nat \ {0}, status : EventStatus, content : Content]
Lists == {<<>>} \cup UNION {[EventsOf(q) -> PollForms \cup {Nil}] : q \in Poller}
Hashes == {Nil} \cup UNION {[EventsOf(q) -> (Content \X EventStatus) \cup {Nil}] : q \in Poller}
TickRecord ==
    [list : Lists, errs : SUBSET Source, suppress : SUBSET Source, superseded : SUBSET Event, force : SUBSET Event,
     at : Nat, full : BOOLEAN, hashes : Hashes, budget : Int, left : SUBSET (Event \cup Source)]

StoreTypes ==
    /\ rows \in [Event -> {NoRow} \cup Row]
    /\ snaps \in [Event -> {NoSnap} \cup Snap]
    /\ places \subseteq Place

IngestTypes ==
    /\ StoreTypes
    /\ now \in Nat
    /\ step \in [Poller -> {"idle", "upsert", "supersede", "disappear", "health"}]
    /\ tick \in [Poller -> TickRecord]
    /\ stamped \in [Event -> Nat]
    /\ clean \in [Poller -> BOOLEAN]

-----------------------------------------------------------------------------
(***************************************************************************)
(* The operations of the store, row by row.                                *)
(***************************************************************************)

\* A known row is a whole row.
LEMMA KnownRow == ASSUME StoreTypes, NEW e \in Event PROVE Known(e) <=> rows[e] \in Row
BY DEF StoreTypes, Known, Row, NoRow

\* UpsertEvent stores what the poll says of the event, whether it writes a
\* revision, rewrites the blob or finds nothing to do, and touches no other row.
LEMMA UpsertEffect ==
    ASSUME StoreTypes, HistoryIsCurrent, NEW e \in Event, NEW ev \in Evs, NEW t \in Nat, UpsertEvent(e, ev, t)
    PROVE  /\ StoreTypes' /\ HistoryIsCurrent' /\ places' = places
           /\ \A x \in Event \ {e} : rows'[x] = rows[x]
           /\ rows'[e] \in Row /\ rows'[e].content = ev.content /\ rows'[e].status = ev.status
           /\ rows'[e].att = MatchPlaces(e)
           /\ ev.extra # NoExtra => rows'[e].extra = ev.extra
           /\ NeedsUpdate(e, ev) => rows'[e].seen = t
           /\ ~NeedsUpdate(e, ev) => /\ rows[e] \in Row /\ rows'[e].seen = rows[e].seen
                                     /\ rows'[e].rev = rows[e].rev
                                     /\ rows[e].extra # NoExtra => rows'[e].extra # NoExtra
           /\ NeedsUpdate(e, ev) /\ rows[e] \in Row => rows'[e].rev = rows[e].rev + 1
<1>0. MatchPlaces(e) \in SUBSET Place  BY DEF MatchPlaces, StoreTypes
<1>1. ev.content \in Content /\ ev.status \in LiveStatus /\ ev.extra \in Extra \cup {NoExtra} /\ ev.status \in EventStatus
  BY DEF Evs, EventStatus
<1>2. rows[e] \in {NoRow} \cup Row /\ (Known(e) <=> rows[e] \in Row)  BY KnownRow DEF StoreTypes
<1>3. CASE NeedsUpdate(e, ev)
  <2> DEFINE new == Revised(e, ev, t)
  <2>1. rows' = [rows EXCEPT ![e] = new] /\ InsertRevision({e}) /\ places' = places  BY <1>3 DEF UpsertEvent
  <2>2. new \in Row
    <3>1. rows[e].rev + 1 \in Nat \ {0}  BY <1>2 DEF Row, NoRow
    <3>2. (IF Known(e) THEN rows[e].fresh ELSE 0) \in Nat  BY <1>2 DEF Row
    <3>3. ContentHash(ev.content, ev.status) \in Content \X EventStatus  BY <1>1 DEF ContentHash
    <3> QED  BY <1>0, <1>1, <3>1, <3>2, <3>3 DEF Revised, Row
  <2>3. /\ new.content = ev.content /\ new.status = ev.status /\ new.att = MatchPlaces(e) /\ new.extra = ev.extra
        /\ new.seen = t /\ new.rev = rows[e].rev + 1 /\ new.hash = ContentHash(ev.content, ev.status)
    BY DEF Revised
  <2> HIDE DEF new
  <2>4. /\ rows' \in [Event -> {NoRow} \cup Row] /\ rows'[e] = new
        /\ \A x \in Event \ {e} : rows'[x] = rows[x]
    BY <2>1, <2>2 DEF StoreTypes
  <2>5. /\ snaps'[e] = [rev |-> new.rev, status |-> new.status, content |-> new.content]
        /\ \A x \in Event \ {e} : snaps'[x] = snaps[x]
        /\ snaps' \in [Event -> {NoSnap} \cup Snap]
    <3> DEFINE snap == [rev |-> new.rev, status |-> new.status, content |-> new.content]
    <3>1. snap \in Snap  BY <2>2 DEF Row, Snap
    <3>2. snaps' = [x \in Event |-> IF x \in {e} THEN [rev |-> rows'[x].rev, status |-> rows'[x].status,
                                                       content |-> rows'[x].content]
                                    ELSE snaps[x]]
      BY <2>1 DEF InsertRevision
    <3>3. \A x \in Event : snaps'[x] = IF x = e THEN snap ELSE snaps[x]  BY <2>4, <3>2
    <3> HIDE DEF snap
    <3>4. \A x \in Event : snaps'[x] \in {NoSnap} \cup Snap  BY <3>1, <3>3 DEF StoreTypes
    <3> QED  BY <3>2, <3>3, <3>4 DEF snap
  <2>6. StoreTypes'  BY <2>1, <2>4, <2>5 DEF StoreTypes
  <2>7. HistoryIsCurrent'  BY <2>3, <2>4, <2>5 DEF HistoryIsCurrent, Known
  <2> QED  BY <1>3, <2>1, <2>2, <2>3, <2>4, <2>6, <2>7
<1>4. CASE ~NeedsUpdate(e, ev)
  <2>1. Known(e) /\ rows[e].hash = ContentHash(ev.content, ev.status) /\ rows[e] \in Row
    BY <1>2, <1>4 DEF NeedsUpdate
  <2>2. rows[e].content = ev.content /\ rows[e].status = ev.status
    <3>1. rows[e].hash = <<rows[e].content, rows[e].status>>  BY <2>1 DEF HistoryIsCurrent, ContentHash
    <3>2. rows[e].hash = <<ev.content, ev.status>>  BY <2>1 DEF ContentHash
    <3> QED  BY <3>1, <3>2
  <2> DEFINE new == IF Rewrites(e, ev) THEN Refreshed(e, ev) ELSE rows[e]
  <2>3. rows' = [rows EXCEPT ![e] = new] /\ InsertRevision({}) /\ places' = places  BY <1>4 DEF UpsertEvent
  <2>4. /\ new \in Row /\ new.content = rows[e].content /\ new.status = rows[e].status /\ new.rev = rows[e].rev
        /\ new.hash = rows[e].hash /\ new.seen = rows[e].seen /\ new.att = MatchPlaces(e)
        /\ ev.extra # NoExtra => new.extra = ev.extra
        /\ rows[e].extra # NoExtra => new.extra # NoExtra
    <3>1. CASE Rewrites(e, ev)
      <4> DEFINE extra == IF ev.extra = NoExtra THEN rows[e].extra ELSE ev.extra
                 fresh == rows[e].fresh + 1
      <4>1. extra \in Extra \cup {NoExtra} /\ fresh \in Nat  BY <1>1, <2>1 DEF Row
      <4>2. new = [rows[e] EXCEPT !.att = MatchPlaces(e), !.extra = extra, !.fresh = fresh]  BY <3>1 DEF Refreshed
      <4>3. (ev.extra # NoExtra => extra = ev.extra) /\ (rows[e].extra # NoExtra => extra # NoExtra)  OBVIOUS
      <4> HIDE DEF new, extra, fresh
      <4>4. new \in Row  BY <1>0, <2>1, <4>1, <4>2 DEF Row
      <4> QED  BY <2>1, <4>2, <4>3, <4>4 DEF Row
    <3>2. CASE ~Rewrites(e, ev)
      <4>1. new = rows[e]  BY <3>2
      <4>2. rows[e].att = MatchPlaces(e) /\ ev.extra \in {NoExtra, rows[e].extra}  BY <1>4, <3>2 DEF Rewrites
      <4> QED  BY <2>1, <4>1, <4>2
    <3> QED  BY <3>1, <3>2
  <2> HIDE DEF new
  <2>5. /\ rows' \in [Event -> {NoRow} \cup Row] /\ rows'[e] = new
        /\ \A x \in Event \ {e} : rows'[x] = rows[x]
    BY <2>3, <2>4 DEF StoreTypes
  <2>6. snaps' = [x \in Event |-> snaps[x]]  BY <2>3 DEF InsertRevision
  <2>7. snaps' \in [Event -> {NoSnap} \cup Snap]
    BY <2>6 DEF StoreTypes
  <2>8. StoreTypes'  BY <2>3, <2>5, <2>7 DEF StoreTypes
  <2>9. HistoryIsCurrent'  BY <2>1, <2>4, <2>5, <2>6 DEF HistoryIsCurrent, Known
  <2> QED  BY <1>4, <2>1, <2>2, <2>3, <2>4, <2>5, <2>8, <2>9
<1> QED  BY <1>3, <1>4

\* TransitionEvents ends the events it is given and leaves the rest alone; what
\* it ends keeps its content, its stamp and its attachments.
LEMMA TransitionEffect ==
    ASSUME StoreTypes, HistoryIsCurrent, NEW ids \in SUBSET Event, NEW to \in EndStatus, TransitionEvents(ids, to)
    PROVE  /\ StoreTypes' /\ HistoryIsCurrent' /\ places' = places
           /\ \A x \in Event \ ids : rows'[x] = rows[x]
           /\ \A x \in ids : (rows[x] \in Row <=> rows'[x] \in Row)
           /\ \A x \in ids : rows[x] \in Row =>
                /\ rows'[x].status = to /\ rows'[x].content = rows[x].content /\ rows'[x].seen = rows[x].seen
                /\ rows'[x].att = rows[x].att /\ rows'[x].extra = rows[x].extra
<1> DEFINE moved == Moved(ids, to)
           ended(x) == [rows[x] EXCEPT !.status = to, !.rev = @ + 1, !.hash = ContentHash(rows[x].content, to)]
<1>0. to \in EventStatus /\ moved \subseteq Event /\ moved \subseteq ids  BY DEF EventStatus, Moved
<1>1. /\ rows' = [x \in Event |-> IF x \in moved THEN ended(x) ELSE rows[x]]
      /\ InsertRevision(moved) /\ places' = places
  BY DEF TransitionEvents
<1>2. \A x \in moved : rows[x] \in Row  BY <1>0, KnownRow DEF Moved
<1>3. ASSUME NEW x \in moved
      PROVE  /\ ended(x) \in Row /\ ended(x).status = to /\ ended(x).content = rows[x].content
             /\ ended(x).seen = rows[x].seen /\ ended(x).att = rows[x].att /\ ended(x).extra = rows[x].extra
             /\ ended(x).hash = ContentHash(rows[x].content, to)
  <2>1. rows[x] \in Row  BY <1>2
  <2>2. rows[x].rev + 1 \in Nat \ {0} /\ ContentHash(rows[x].content, to) \in Content \X EventStatus
    BY <1>0, <2>1 DEF Row, ContentHash
  <2> QED  BY <1>0, <2>1, <2>2 DEF Row
<1>4. \A x \in Event : rows'[x] = IF x \in moved THEN ended(x) ELSE rows[x]  BY <1>1
<1> HIDE DEF ended, moved
<1>5. rows' \in [Event -> {NoRow} \cup Row]  BY <1>1, <1>3 DEF StoreTypes
<1> DEFINE snap(x) == [rev |-> rows'[x].rev, status |-> rows'[x].status, content |-> rows'[x].content]
<1>6. snaps' = [x \in Event |-> IF x \in moved THEN snap(x) ELSE snaps[x]]  BY <1>1 DEF InsertRevision
<1>7. \A x \in moved : snap(x) \in Snap
  <2> SUFFICES ASSUME NEW x \in moved PROVE snap(x) \in Snap  OBVIOUS
  <2>1. rows'[x] \in Row  BY <1>0, <1>3, <1>4
  <2> QED  BY <2>1 DEF Row, Snap
<1>8. \A x \in Event : snaps'[x] = IF x \in moved THEN snap(x) ELSE snaps[x]  BY <1>6
<1>9. StoreTypes'
  <2> HIDE DEF snap
  <2>1. snaps' \in [Event -> {NoSnap} \cup Snap]  BY <1>6, <1>7 DEF StoreTypes
  <2> QED  BY <1>1, <1>5, <2>1 DEF StoreTypes
<1>10. HistoryIsCurrent'
  <2> SUFFICES ASSUME NEW x \in Event, Known(x)'
               PROVE  snaps'[x] = snap(x) /\ rows'[x].hash = ContentHash(rows'[x].content, rows'[x].status)
    BY DEF HistoryIsCurrent
  <2>1. CASE x \in moved
    <3>1. rows'[x] = ended(x)  BY <1>4, <2>1
    <3>2. snaps'[x] = snap(x)  BY <1>8, <2>1
    <3> QED  BY <1>3, <2>1, <3>1, <3>2
  <2>2. CASE x \notin moved
    <3>1. rows'[x] = rows[x] /\ snaps'[x] = snaps[x]  BY <1>4, <1>8, <2>2
    <3>2. Known(x)  BY <3>1 DEF Known
    <3> QED  BY <3>1, <3>2 DEF HistoryIsCurrent
  <2> QED  BY <2>1, <2>2
<1>11. \A x \in ids : rows[x] \in Row /\ x \notin moved => rows[x].status = to
  BY KnownRow DEF moved, Moved
<1>12. \A x \in ids : (rows[x] \in Row <=> rows'[x] \in Row)  BY <1>2, <1>3, <1>4
<1>13. \A x \in Event \ ids : rows'[x] = rows[x]  BY <1>0, <1>4
<1>14. ASSUME NEW x \in ids, rows[x] \in Row
       PROVE  /\ rows'[x].status = to /\ rows'[x].content = rows[x].content /\ rows'[x].seen = rows[x].seen
              /\ rows'[x].att = rows[x].att /\ rows'[x].extra = rows[x].extra
  BY <1>3, <1>4, <1>11, <1>14
<1> QED  BY <1>1, <1>9, <1>10, <1>12, <1>13, <1>14

\* TouchSeen moves stamps and nothing else.
LEMMA TouchEffect ==
    ASSUME StoreTypes, HistoryIsCurrent, NEW ids \in SUBSET Event, NEW t \in Nat, TouchSeen(ids, t, Coalesce)
    PROVE  /\ StoreTypes' /\ HistoryIsCurrent' /\ places' = places
           /\ \A x \in Event : (rows[x] \in Row <=> rows'[x] \in Row)
           /\ \A x \in Event : rows[x] \in Row =>
                /\ rows'[x].status = rows[x].status /\ rows'[x].content = rows[x].content
                /\ rows'[x].hash = rows[x].hash /\ rows'[x].rev = rows[x].rev
                /\ rows'[x].att = rows[x].att /\ rows'[x].extra = rows[x].extra
                /\ rows'[x].seen = IF x \in ids /\ rows[x].seen + Coalesce < t THEN t ELSE rows[x].seen
<1> DEFINE late(x) == x \in ids /\ Known(x) /\ rows[x].seen + Coalesce < t
           touched(x) == [rows[x] EXCEPT !.seen = t]
<1>1. /\ rows' = [x \in Event |-> IF late(x) THEN touched(x) ELSE rows[x]]
      /\ snaps' = snaps /\ places' = places
  BY DEF TouchSeen
<1>2. ASSUME NEW x \in Event, rows[x] \in Row
      PROVE  /\ touched(x) \in Row /\ touched(x).seen = t /\ touched(x).status = rows[x].status
             /\ touched(x).content = rows[x].content /\ touched(x).hash = rows[x].hash /\ touched(x).rev = rows[x].rev
             /\ touched(x).att = rows[x].att /\ touched(x).extra = rows[x].extra
  BY <1>2 DEF Row
<1>3. \A x \in Event : Known(x) <=> rows[x] \in Row  BY KnownRow
<1>4. \A x \in Event : late(x) <=> x \in ids /\ rows[x] \in Row /\ rows[x].seen + Coalesce < t  BY <1>3
<1>5. \A x \in Event : rows'[x] = IF late(x) THEN touched(x) ELSE rows[x]  BY <1>1
<1> HIDE DEF late, touched
<1>6. rows' \in [Event -> {NoRow} \cup Row]  BY <1>1, <1>2, <1>4 DEF StoreTypes
<1>7. StoreTypes'  BY <1>1, <1>6 DEF StoreTypes
<1>8. \A x \in Event : (rows[x] \in Row <=> rows'[x] \in Row)  BY <1>2, <1>4, <1>5
<1>9. ASSUME NEW x \in Event, rows[x] \in Row
      PROVE  /\ rows'[x].status = rows[x].status /\ rows'[x].content = rows[x].content
             /\ rows'[x].hash = rows[x].hash /\ rows'[x].rev = rows[x].rev
             /\ rows'[x].att = rows[x].att /\ rows'[x].extra = rows[x].extra
             /\ rows'[x].seen = IF x \in ids /\ rows[x].seen + Coalesce < t THEN t ELSE rows[x].seen
  BY <1>2, <1>4, <1>5, <1>9
<1>10. HistoryIsCurrent'
  <2> SUFFICES ASSUME NEW x \in Event, Known(x)'
               PROVE  /\ snaps'[x] = [rev |-> rows'[x].rev, status |-> rows'[x].status, content |-> rows'[x].content]
                      /\ rows'[x].hash = ContentHash(rows'[x].content, rows'[x].status)
    BY DEF HistoryIsCurrent
  <2>1. rows[x] \in Row /\ Known(x)
    <3>1. rows[x] \in Row \/ rows'[x] = rows[x]  BY <1>4, <1>5
    <3> QED  BY <1>3, <3>1 DEF Known
  <2> QED  BY <1>1, <1>9, <2>1 DEF HistoryIsCurrent
<1> QED  BY <1>1, <1>7, <1>8, <1>9, <1>10

-----------------------------------------------------------------------------
(***************************************************************************)
(* The inductive invariant: what a tick has done so far, poller by poller.  *)
(***************************************************************************)
PolledLists(p) == [EventsOf(p) -> PollForms \cup {Nil}]

TickShape(p) ==
    LET t == tick[p] IN
    /\ step[p] \in {"upsert", "supersede", "disappear"} => t.list \in PolledLists(p)
    /\ step[p] = "health" => t.list \in PolledLists(p) \cup {<<>>}
    /\ step[p] # "idle" => t.superseded \subseteq EventsOf(p) /\ \A e \in t.superseded : t.list[e] = Nil
    /\ step[p] = "upsert" => t.left \subseteq Listed(p)
    /\ step[p] = "upsert" => \A e \in t.force : e \in EventsOf(p) /\ t.list[e].extra \in Telemetry
    /\ step[p] = "upsert" => \A e \in Alerts \cap EventsOf(p) : t.list[e] # Nil => t.list[e].extra = NoExtra
    /\ step[p] \in {"supersede", "disappear"} => t.left \subseteq SourcesOf(p)
    /\ step[p] = "disappear" => t.left # {} /\ Swept(p, First(t.left))

\* The hashes read before the first write are those of the events still to come.
HashesFresh(p) ==
    LET t == tick[p] IN
    step[p] = "upsert" /\ t.hashes # Nil =>
        \A e \in t.left : t.hashes[e] = IF rows[e] \in Row THEN rows[e].hash ELSE Nil

\* The listed events the tick is done with are stored as listed.
Stored(p, e) ==
    /\ rows[e] \in Row
    /\ rows[e].content = tick[p].list[e].content /\ rows[e].status = tick[p].list[e].status
    /\ e \in tick[p].force => rows[e].extra = tick[p].list[e].extra
    /\ tick[p].full => rows[e].att = MatchPlaces(e)
Done(p) == IF step[p] = "upsert" THEN Listed(p) \ tick[p].left ELSE IF step[p] = "idle" THEN {} ELSE Listed(p)
ListedStored(p) == clean[p] => \A e \in Done(p) : Stored(p, e)

\* Of the sources swept, what had to end has ended; of the source at which the
\* sweep is, what the poll superseded.
MustEnd(p, e) ==
    /\ SourceOf[e] \notin tick[p].errs \cup tick[p].suppress
    /\ \/ Policy[SourceOf[e]] = "resolve"
       \/ e \in tick[p].superseded
       \/ ExpireAfter > 0 /\ tick[p].at > stamped[e] + ExpireAfter
Ended(e) == rows[e] \in Row => rows[e].status \notin LiveStatus
ToSweep(p) == IF step[p] = "health" THEN {} ELSE tick[p].left
DroppedEnded(p) ==
    clean[p] /\ step[p] \in {"supersede", "disappear", "health"} =>
        \A e \in (DOMAIN tick[p].list) \ Listed(p) :
            /\ MustEnd(p, e) /\ SourceOf[e] \notin ToSweep(p) => Ended(e)
            /\ step[p] = "disappear" /\ SourceOf[e] = First(tick[p].left) /\ e \in tick[p].superseded => Ended(e)

PollerInv(p) == TickShape(p) /\ HashesFresh(p) /\ ListedStored(p) /\ DroppedEnded(p)

\* The stamps follow what the store was told of.
StampsTracked ==
    \A e \in Event : Known(e) => rows[e].seen <= stamped[e] /\ stamped[e] <= rows[e].seen + Coalesce

IngestInv ==
    /\ IngestTypes
    /\ HistoryIsCurrent
    /\ StampsTracked
    /\ \A p \in Poller : PollerInv(p)

LEMMA IngestInitInv == Init => IngestInv
<1> SUFFICES ASSUME Init PROVE IngestInv  OBVIOUS
<1>1. \A e \in Event : rows[e] = NoRow /\ ~Known(e)  BY DEF Init, StoreInit, Known, NoRow
<1>2. NoTick \in TickRecord  BY DEF NoTick, TickRecord, Lists, Hashes
<1>3. IngestTypes  BY <1>2 DEF Init, StoreInit, IngestTypes, StoreTypes
<1>4. HistoryIsCurrent /\ StampsTracked  BY <1>1 DEF HistoryIsCurrent, StampsTracked
<1>5. ASSUME NEW p \in Poller PROVE PollerInv(p)
  <2>1. step[p] = "idle"  BY DEF Init
  <2> QED  BY <2>1 DEF PollerInv, TickShape, HashesFresh, ListedStored, Done, DroppedEnded
<1> QED  BY <1>3, <1>4, <1>5 DEF IngestInv

\* The events of two pollers are disjoint, and so are their sources.
LEMMA OwnEvents ==
    ASSUME NEW p \in Poller, NEW q \in Poller, p # q
    PROVE  EventsOf(p) \cap EventsOf(q) = {} /\ EventsOf(p) \subseteq Event /\ SourcesOf(p) \subseteq Source
BY DEF EventsOf, SourcesOf

\* A poller does not see the steps of another.
LEMMA OthersKept ==
    ASSUME IngestInv, NEW p \in Poller, IngestTypes', HistoryIsCurrent', StampsTracked', PollerInv(p)',
           \A q \in Poller \ {p} : step'[q] = step[q] /\ tick'[q] = tick[q] /\ clean'[q] = clean[q],
           \A e \in Event \ EventsOf(p) : rows'[e] = rows[e] /\ stamped'[e] = stamped[e],
           places' = places
    PROVE  IngestInv'
<1> SUFFICES ASSUME NEW q \in Poller \ {p} PROVE PollerInv(q)'  BY DEF IngestInv
<1>1. step'[q] = step[q] /\ tick'[q] = tick[q] /\ clean'[q] = clean[q]  OBVIOUS
<1>2. \A e \in EventsOf(q) : rows'[e] = rows[e] /\ stamped'[e] = stamped[e]
  <2>1. EventsOf(q) \subseteq Event \ EventsOf(p)  BY OwnEvents
  <2> QED  BY <2>1
<1>3. PollerInv(q)  BY DEF IngestInv
<1>4. TickShape(q)'  BY <1>1, <1>3 DEF PollerInv, TickShape, Listed, Swept
<1>5. Listed(q)' = Listed(q) /\ Done(q)' = Done(q)  BY <1>1 DEF Listed, Done
<1>6. DOMAIN tick[q].list \subseteq EventsOf(q) \/ step[q] = "idle"
  BY <1>3 DEF PollerInv, TickShape, PolledLists, IngestInv, IngestTypes
<1>7. Listed(q) \subseteq EventsOf(q) \/ step[q] = "idle"  BY <1>6 DEF Listed
<1>8. HashesFresh(q)'
  <2> SUFFICES ASSUME step[q] = "upsert", tick[q].hashes # Nil, NEW e \in tick[q].left
               PROVE  tick[q].hashes[e] = IF rows'[e] \in Row THEN rows'[e].hash ELSE Nil
    BY <1>1 DEF HashesFresh
  <2>1. e \in EventsOf(q)  BY <1>3, <1>7 DEF PollerInv, TickShape
  <2> QED  BY <1>2, <1>3, <2>1 DEF PollerInv, HashesFresh
<1>9. ListedStored(q)'
  <2> SUFFICES ASSUME clean[q], NEW e \in Done(q) PROVE Stored(q, e)'  BY <1>1, <1>5 DEF ListedStored
  <2>1. e \in EventsOf(q)  BY <1>7 DEF Done
  <2>2. Stored(q, e)  BY <1>3 DEF PollerInv, ListedStored
  <2> QED  BY <1>1, <1>2, <2>1, <2>2 DEF Stored, MatchPlaces
<1>10. DroppedEnded(q)'
  <2> SUFFICES ASSUME clean[q], step[q] \in {"supersede", "disappear", "health"},
                      NEW e \in (DOMAIN tick[q].list) \ Listed(q)
               PROVE  /\ (MustEnd(q, e) /\ SourceOf[e] \notin ToSweep(q))' => Ended(e)'
                      /\ step[q] = "disappear" /\ SourceOf[e] = First(tick[q].left) /\ e \in tick[q].superseded => Ended(e)'
    BY <1>1, <1>5 DEF DroppedEnded
  <2>1. e \in EventsOf(q)  BY <1>6
  <2>2. (Ended(e)' <=> Ended(e)) /\ (MustEnd(q, e)' <=> MustEnd(q, e)) /\ ToSweep(q)' = ToSweep(q)
    BY <1>1, <1>2, <2>1 DEF Ended, MustEnd, ToSweep
  <2> QED  BY <1>3, <2>2 DEF PollerInv, DroppedEnded
<1> QED  BY <1>4, <1>8, <1>9, <1>10 DEF PollerInv

\* A step that leaves the store alone leaves its history and stamps alone.
LEMMA StoreKept ==
    ASSUME IngestInv, UNCHANGED <<storeVars, stamped>>
    PROVE  /\ HistoryIsCurrent' /\ StampsTracked' /\ StoreTypes' /\ places' = places
           /\ rows' = rows /\ stamped' = stamped
BY DEF IngestInv, IngestTypes, StoreTypes, storeVars, HistoryIsCurrent, StampsTracked, Known

LEMMA PollStep == ASSUME IngestInv, NEW p \in Poller, Poll(p) PROVE IngestInv'
<1>0. IngestTypes  BY DEF IngestInv
<1>1. PICK list \in PolledLists(p), errs \in SUBSET SourcesOf(p), suppress \in SUBSET SourcesOf(p),
           superseded \in SUBSET LoadPrior(p), force \in SUBSET EventsOf(p), hashed \in BOOLEAN :
         /\ suppress \cap errs = {}
         /\ \A e \in superseded : list[e] = Nil
         /\ \A e \in Alerts \cap EventsOf(p) : list[e] # Nil => list[e].extra = NoExtra
         /\ \A e \in force : list[e] # Nil /\ list[e].extra \in Telemetry
         /\ ~hashed => Faults
         /\ tick' = [tick EXCEPT ![p] =
                [list |-> list, errs |-> errs, suppress |-> suppress, superseded |-> superseded,
                 force |-> force, at |-> now, full |-> ~reconciled[p], hashes |-> StoredHashes(p, hashed),
                 budget |-> BudgetPerTick, left |-> {e \in EventsOf(p) : list[e] # Nil}]]
         /\ confirmed' = [e \in Event |->
                IF e \in EventsOf(p) /\ list[e] # Nil /\ SourceOf[e] \notin errs
                THEN now ELSE confirmed[e]]
  BY Zenon DEF Poll, PolledLists
<1>2. /\ UNCHANGED <<storeVars, stamped>> /\ now' = now
      /\ step' = [step EXCEPT ![p] = "upsert"] /\ clean' = [clean EXCEPT ![p] = TRUE]
  BY DEF Poll, Goto
<1> DEFINE left == {e \in EventsOf(p) : list[e] # Nil}
           hashes == StoredHashes(p, hashed)
           full == ~reconciled[p]
           new == [list |-> list, errs |-> errs, suppress |-> suppress, superseded |-> superseded,
                 force |-> force, at |-> now, full |-> full, hashes |-> hashes,
                 budget |-> BudgetPerTick, left |-> left]
<1>a. /\ HistoryIsCurrent' /\ StampsTracked' /\ StoreTypes' /\ places' = places
      /\ rows' = rows /\ stamped' = stamped
  BY <1>2, StoreKept
<1>3. hashes = Nil \/ (hashes \in [EventsOf(p) -> (Content \X EventStatus) \cup {Nil}]
                       /\ \A e \in EventsOf(p) : hashes[e] = IF rows[e] \in Row THEN rows[e].hash ELSE Nil)
  <2>1. \A e \in EventsOf(p) : e \in Event  BY DEF EventsOf
  <2>2. \A e \in EventsOf(p) : Known(e) <=> rows[e] \in Row  BY <1>0, <2>1, KnownRow DEF IngestTypes
  <2>3. \A e \in EventsOf(p) : rows[e] \in Row => rows[e].hash \in Content \X EventStatus  BY DEF Row
  <2> QED  BY <2>2, <2>3 DEF StoredHashes, ContentHashes
<1>4. hashes \in Hashes  BY <1>3 DEF Hashes
<1>5. LoadPrior(p) \subseteq EventsOf(p)  BY DEF LoadPrior, ActiveEventsBySource, EventsOf, SourcesOf
<1>6. EventsOf(p) \subseteq Event /\ SourcesOf(p) \subseteq Source  BY DEF EventsOf, SourcesOf
<1>7. new \in TickRecord
  <2>1. list \in Lists  BY DEF Lists, PolledLists
  <2>2. full \in BOOLEAN  OBVIOUS
  <2>3. BudgetPerTick \in Int  BY IngestAssumption
  <2>4. left \subseteq Event \cup Source /\ superseded \subseteq Event /\ force \subseteq Event  BY <1>5, <1>6
  <2> HIDE DEF hashes, left, full
  <2> QED  BY <1>0, <1>4, <1>6, <2>1, <2>2, <2>3, <2>4 DEF TickRecord, IngestTypes
<1> HIDE DEF full, hashes
<1>8. /\ tick'[p] = new /\ tick' \in [Poller -> TickRecord] /\ step'[p] = "upsert"
      /\ step' \in [Poller -> {"idle", "upsert", "supersede", "disappear", "health"}]
      /\ clean' \in [Poller -> BOOLEAN]
      /\ \A q \in Poller \ {p} : step'[q] = step[q] /\ tick'[q] = tick[q] /\ clean'[q] = clean[q]
  BY <1>0, <1>1, <1>2, <1>7 DEF IngestTypes, hashes, full
<1>9. /\ tick'[p].list = list /\ tick'[p].superseded = superseded /\ tick'[p].left = left /\ tick'[p].force = force
      /\ tick'[p].hashes = hashes
  BY <1>8
<1>10. Listed(p)' = left  BY <1>9 DEF Listed, PolledLists
<1>11. TickShape(p)'  BY <1>1, <1>5, <1>8, <1>9, <1>10 DEF TickShape
<1>12. HashesFresh(p)'  BY <1>3, <1>8, <1>9, <1>a DEF HashesFresh
<1>13. ListedStored(p)' /\ DroppedEnded(p)'  BY <1>8, <1>9, <1>10 DEF ListedStored, Done, DroppedEnded
<1>14. PollerInv(p)'  BY <1>11, <1>12, <1>13 DEF PollerInv
<1>15. IngestTypes'  BY <1>0, <1>2, <1>8, <1>a DEF IngestTypes
<1> QED  BY <1>8, <1>14, <1>15, <1>a, OthersKept

LEMMA PollFailsStep == ASSUME IngestInv, NEW p \in Poller, PollFails(p) PROVE IngestInv'
<1>0. IngestTypes  BY DEF IngestInv
<1> DEFINE new == [NoTick EXCEPT !.errs = SourcesOf(p), !.left = SourcesOf(p)]
<1>1. /\ tick' = [tick EXCEPT ![p] = new] /\ step' = [step EXCEPT ![p] = "health"] /\ now' = now
      /\ clean' = [clean EXCEPT ![p] = TRUE] /\ UNCHANGED <<storeVars, stamped>>
  BY DEF PollFails, Goto
<1>2. /\ HistoryIsCurrent' /\ StampsTracked' /\ StoreTypes' /\ places' = places
      /\ rows' = rows /\ stamped' = stamped
  BY <1>1, StoreKept
<1>3. new \in TickRecord /\ new.list = <<>> /\ new.superseded = {}
  <2>1. NoTick \in TickRecord  BY DEF NoTick, TickRecord, Lists, Hashes
  <2>2. SourcesOf(p) \in SUBSET Source /\ SourcesOf(p) \in SUBSET (Event \cup Source)  BY DEF SourcesOf
  <2>3. NoTick.list = <<>> /\ NoTick.superseded = {}  BY DEF NoTick
  <2> QED  BY <2>1, <2>2, <2>3 DEF TickRecord
<1> HIDE DEF new
<1>4. /\ tick'[p] = new /\ tick' \in [Poller -> TickRecord] /\ step'[p] = "health"
      /\ step' \in [Poller -> {"idle", "upsert", "supersede", "disappear", "health"}]
      /\ clean' \in [Poller -> BOOLEAN]
      /\ \A q \in Poller \ {p} : step'[q] = step[q] /\ tick'[q] = tick[q] /\ clean'[q] = clean[q]
  BY <1>0, <1>1, <1>3 DEF IngestTypes
<1>5. DOMAIN tick'[p].list = {} /\ Listed(p)' = {}  BY <1>3, <1>4 DEF Listed
<1>6. PollerInv(p)'
  BY <1>3, <1>4, <1>5 DEF PollerInv, TickShape, HashesFresh, ListedStored, Done, DroppedEnded
<1>7. IngestTypes'  BY <1>0, <1>1, <1>2, <1>4 DEF IngestTypes
<1> QED  BY <1>2, <1>4, <1>6, <1>7, OthersKept

\* What a step does to the record of the tick when it only moves along.
LEMMA LeftFields ==
    ASSUME tick \in [Poller -> TickRecord], NEW p \in Poller, NEW left \in SUBSET (Event \cup Source), NEW budget \in Int,
           tick' = [tick EXCEPT ![p].left = left, ![p].budget = budget]
    PROVE  /\ tick' \in [Poller -> TickRecord] /\ tick'[p].left = left
           /\ tick'[p].list = tick[p].list /\ tick'[p].errs = tick[p].errs /\ tick'[p].suppress = tick[p].suppress
           /\ tick'[p].superseded = tick[p].superseded /\ tick'[p].force = tick[p].force /\ tick'[p].at = tick[p].at
           /\ tick'[p].full = tick[p].full /\ tick'[p].hashes = tick[p].hashes
           /\ \A q \in Poller \ {p} : tick'[q] = tick[q]
<1> DEFINE new == [tick[p] EXCEPT !.left = left, !.budget = budget]
<1>1. tick' = [tick EXCEPT ![p] = new]  OBVIOUS
<1>2. /\ new \in TickRecord /\ new.left = left
      /\ new.list = tick[p].list /\ new.errs = tick[p].errs /\ new.suppress = tick[p].suppress
      /\ new.superseded = tick[p].superseded /\ new.force = tick[p].force /\ new.at = tick[p].at
      /\ new.full = tick[p].full /\ new.hashes = tick[p].hashes
  BY DEF TickRecord
<1> HIDE DEF new
<1>3. tick' \in [Poller -> TickRecord] /\ tick'[p] = new /\ \A q \in Poller \ {p} : tick'[q] = tick[q]
  BY <1>1, <1>2
<1> QED  BY <1>2, <1>3

\* The event the write path is at, as the poll and the enhancer have it.
LEMMA PolledForm ==
    ASSUME IngestInv, NEW p \in Poller, step[p] = "upsert", NEW e \in tick[p].left, NEW answered \in BOOLEAN,
           answered => e \in Alerts
    PROVE  LET form == tick[p].list[e]
               ev == [form EXCEPT !.extra = IF answered THEN Enhanced ELSE @]
           IN /\ e \in EventsOf(p) /\ e \in Event /\ e \in Listed(p)
              /\ ev \in Evs /\ ev.content = form.content /\ ev.status = form.status
              /\ e \in tick[p].force => ev.extra = form.extra /\ ev.extra # NoExtra
<1> DEFINE form == tick[p].list[e]
           extra == IF answered THEN Enhanced ELSE form.extra
           ev == [form EXCEPT !.extra = extra]
<1>1. TickShape(p)  BY DEF IngestInv, PollerInv
<1>2. e \in Listed(p) /\ tick[p].list \in PolledLists(p)  BY <1>1 DEF TickShape
<1>3. e \in EventsOf(p) /\ form \in PollForms  BY <1>2 DEF Listed, PolledLists
<1>4. e \in Event  BY <1>3 DEF EventsOf
<1>5. form.content \in Content /\ form.status \in LiveStatus /\ form.extra \in Extra \cup {NoExtra}
  BY <1>3, IngestAssumption DEF PollForms
<1>6. extra \in Extra \cup {NoExtra}  BY <1>5, IngestAssumption
<1>7. e \in tick[p].force => extra = form.extra /\ extra # NoExtra
  <2> SUFFICES ASSUME e \in tick[p].force PROVE extra = form.extra /\ extra # NoExtra  OBVIOUS
  <2>1. form.extra \in Telemetry  BY <1>1 DEF TickShape
  <2>2. form.extra # NoExtra  BY <2>1, IngestAssumption, EventStoreAssumption
  <2>3. ~answered  BY <1>1, <1>2, <1>3, <2>2 DEF TickShape, Listed
  <2> QED  BY <2>2, <2>3
<1> HIDE DEF extra
<1>8. ev \in Evs /\ ev.content = form.content /\ ev.status = form.status /\ ev.extra = extra
  BY <1>3, <1>5, <1>6 DEF PollForms, Evs
<1> QED  BY <1>2, <1>3, <1>4, <1>7, <1>8 DEF extra

LEMMA UpsertStep == ASSUME IngestInv, NEW p \in Poller, UpsertNext(p) PROVE IngestInv'
<1>0. IngestTypes /\ StoreTypes /\ HistoryIsCurrent /\ PollerInv(p)  BY DEF IngestInv, IngestTypes
<1>1. step[p] = "upsert" /\ now' = now /\ step' = step  BY DEF UpsertNext
<1>2. PICK e \in tick[p].left, asked \in BOOLEAN, answered \in BOOLEAN :
         LET ev == [tick[p].list[e] EXCEPT !.extra = IF answered THEN Enhanced ELSE @]
         IN /\ answered => asked
            /\ asked => Enhances(p, e)
            /\ Enhances(p, e) => asked \/ Faults
            /\ tick' = [tick EXCEPT ![p].left = @ \ {e},
                                    ![p].budget = IF asked THEN @ - 1 ELSE @]
            /\ IF ShouldUpsert(p, e, ev)
               THEN \/ /\ UpsertEvent(e, ev, now)
                       /\ confirmed' = [confirmed EXCEPT ![e] = IF NeedsUpdate(e, ev) THEN now ELSE @]
                       /\ stamped' = [stamped EXCEPT ![e] = IF NeedsUpdate(e, ev) THEN now ELSE @]
                       /\ Succeeds(p)
                    \/ Fails(p) /\ UNCHANGED <<storeVars, confirmed, stamped>>
               ELSE UNCHANGED <<storeVars, confirmed, stamped>> /\ Succeeds(p)
  BY DEF UpsertNext
<1> DEFINE form == tick[p].list[e]
           ev == [form EXCEPT !.extra = IF answered THEN Enhanced ELSE @]
           left == tick[p].left \ {e}
           budget == IF asked THEN tick[p].budget - 1 ELSE tick[p].budget
<1>3. answered => e \in Alerts  BY <1>2 DEF Enhances
<1>4. /\ e \in EventsOf(p) /\ e \in Event /\ e \in Listed(p)
      /\ ev \in Evs /\ ev.content = form.content /\ ev.status = form.status
      /\ e \in tick[p].force => ev.extra = form.extra /\ ev.extra # NoExtra
  BY <1>1, <1>3, PolledForm
<1>5. /\ tick' \in [Poller -> TickRecord] /\ tick'[p].left = left
      /\ tick'[p].list = tick[p].list /\ tick'[p].errs = tick[p].errs /\ tick'[p].suppress = tick[p].suppress
      /\ tick'[p].superseded = tick[p].superseded /\ tick'[p].force = tick[p].force /\ tick'[p].at = tick[p].at
      /\ tick'[p].full = tick[p].full /\ tick'[p].hashes = tick[p].hashes
      /\ \A q \in Poller \ {p} : tick'[q] = tick[q]
  <2>1. left \in SUBSET (Event \cup Source) /\ budget \in Int  BY <1>0 DEF IngestTypes, TickRecord
  <2>2. tick' = [tick EXCEPT ![p].left = left, ![p].budget = budget]  BY <1>2
  <2> HIDE DEF left, budget
  <2> QED  BY <1>0, <2>1, <2>2, LeftFields DEF IngestTypes
<1>6. Listed(p)' = Listed(p)  BY <1>5 DEF Listed
<1>7. TickShape(p)'
  <2>1. TickShape(p)  BY <1>0 DEF PollerInv
  <2> QED  BY <1>1, <1>5, <1>6, <2>1 DEF TickShape
<1>8. Done(p)' = Done(p) \cup {e} /\ e \notin Done(p) /\ Done(p) \subseteq EventsOf(p)
  <2>1. Listed(p) \subseteq EventsOf(p)  BY <1>0, <1>1 DEF PollerInv, TickShape, PolledLists, Listed
  <2> QED  BY <1>1, <1>4, <1>5, <1>6, <2>1 DEF Done
<1> HIDE DEF ev
<1>9. CASE UNCHANGED <<storeVars, stamped>> /\ (Fails(p) \/ (Succeeds(p) /\ ~ShouldUpsert(p, e, ev)))
  <2>1. /\ HistoryIsCurrent' /\ StampsTracked' /\ StoreTypes' /\ places' = places
        /\ rows' = rows /\ stamped' = stamped
    BY <1>9, StoreKept
  <2>2. clean' \in [Poller -> BOOLEAN] /\ \A q \in Poller \ {p} : clean'[q] = clean[q]
    BY <1>0, <1>9 DEF Fails, Succeeds, IngestTypes
  <2>3. HashesFresh(p)'  BY <1>0, <1>1, <1>5, <2>1 DEF PollerInv, HashesFresh
  <2>4. ListedStored(p)'
    <3>1. CASE Fails(p)
      <4>1. clean'[p] = FALSE  BY <1>0, <3>1 DEF Fails, IngestTypes
      <4> QED  BY <4>1 DEF ListedStored
    <3>2. CASE Succeeds(p) /\ ~ShouldUpsert(p, e, ev)
      <4>1. /\ ~tick[p].full /\ tick[p].hashes # Nil /\ e \notin tick[p].force
            /\ tick[p].hashes[e] = ContentHash(ev.content, ev.status)
        BY <3>2 DEF ShouldUpsert
      <4>2. tick[p].hashes[e] = IF rows[e] \in Row THEN rows[e].hash ELSE Nil  BY <1>0, <1>1, <4>1 DEF PollerInv, HashesFresh
      <4>3. ContentHash(ev.content, ev.status) # Nil  BY <1>4, NilAssumption DEF ContentHash, Evs, EventStatus
      <4>4. rows[e] \in Row /\ rows[e].hash = <<ev.content, ev.status>>  BY <4>1, <4>2, <4>3 DEF ContentHash
      <4>5. rows[e].hash = <<rows[e].content, rows[e].status>>  BY <1>0, <1>4, <4>4, KnownRow DEF HistoryIsCurrent, ContentHash
      <4>6. Stored(p, e)  BY <1>4, <4>1, <4>4, <4>5 DEF Stored
      <4>7. clean'[p] = clean[p]  BY <3>2 DEF Succeeds
      <4> QED  BY <1>0, <1>5, <1>8, <2>1, <4>6, <4>7 DEF PollerInv, ListedStored, Stored, MatchPlaces
    <3> QED  BY <1>9, <3>1, <3>2
  <2>5. DroppedEnded(p)'  BY <1>1 DEF DroppedEnded
  <2>6. IngestTypes'  BY <1>0, <1>1, <1>5, <2>1, <2>2 DEF IngestTypes
  <2> QED  BY <1>1, <1>5, <1>7, <2>1, <2>2, <2>3, <2>4, <2>5, <2>6, OthersKept DEF PollerInv
<1>10. CASE /\ UpsertEvent(e, ev, now) /\ Succeeds(p)
            /\ stamped' = [stamped EXCEPT ![e] = IF NeedsUpdate(e, ev) THEN now ELSE @]
  <2>0. now \in Nat  BY <1>0 DEF IngestTypes
  <2>1. /\ StoreTypes' /\ HistoryIsCurrent' /\ places' = places
        /\ \A x \in Event \ {e} : rows'[x] = rows[x]
        /\ rows'[e] \in Row /\ rows'[e].content = ev.content /\ rows'[e].status = ev.status
        /\ rows'[e].att = MatchPlaces(e)
        /\ ev.extra # NoExtra => rows'[e].extra = ev.extra
        /\ NeedsUpdate(e, ev) => rows'[e].seen = now
        /\ ~NeedsUpdate(e, ev) => rows[e] \in Row /\ rows'[e].seen = rows[e].seen
    BY <1>0, <1>4, <1>10, <2>0, UpsertEffect
  <2>2. clean' = clean  BY <1>10 DEF Succeeds
  <2>3. /\ stamped' \in [Event -> Nat] /\ \A x \in Event \ {e} : stamped'[x] = stamped[x]
        /\ NeedsUpdate(e, ev) => stamped'[e] = now
        /\ ~NeedsUpdate(e, ev) => stamped'[e] = stamped[e]
    BY <1>0, <1>4, <1>10, <2>0 DEF IngestTypes
  <2>4. StampsTracked'
    <3> SUFFICES ASSUME NEW x \in Event, Known(x)'
                 PROVE  rows'[x].seen <= stamped'[x] /\ stamped'[x] <= rows'[x].seen + Coalesce
      BY DEF StampsTracked
    <3>1. CASE x # e  BY <2>1, <2>3, <3>1 DEF IngestInv, StampsTracked, Known
    <3>2. CASE x = e /\ NeedsUpdate(e, ev)  BY <2>0, <2>1, <2>3, <3>2, IngestAssumption
    <3>3. CASE x = e /\ ~NeedsUpdate(e, ev)
      <4>1. Known(e)  BY <1>0, <1>4, <2>1, <3>3, KnownRow
      <4> QED  BY <1>4, <2>1, <2>3, <3>3, <4>1 DEF IngestInv, StampsTracked
    <3> QED  BY <3>1, <3>2, <3>3
  <2>5. HashesFresh(p)'
    <3> SUFFICES ASSUME tick[p].hashes # Nil, NEW x \in left
                 PROVE  tick[p].hashes[x] = IF rows'[x] \in Row THEN rows'[x].hash ELSE Nil
      BY <1>5 DEF HashesFresh
    <3>1. x \in Event \ {e} /\ x \in tick[p].left
      BY <1>0, <1>1 DEF PollerInv, TickShape, PolledLists, Listed, EventsOf
    <3> QED  BY <1>0, <1>1, <2>1, <3>1 DEF PollerInv, HashesFresh
  <2>6. ListedStored(p)'
    <3> SUFFICES ASSUME clean[p], NEW x \in Done(p) \cup {e} PROVE Stored(p, x)'
      BY <1>8, <2>2 DEF ListedStored
    <3>1. CASE x = e
      <4>1. MatchPlaces(e)' = MatchPlaces(e)  BY <2>1 DEF MatchPlaces
      <4> QED  BY <1>4, <1>5, <2>1, <3>1, <4>1 DEF Stored
    <3>2. CASE x # e
      <4>1. Stored(p, x) /\ x \in Event \ {e}  BY <1>0, <1>8, <3>2 DEF PollerInv, ListedStored, EventsOf
      <4>2. rows'[x] = rows[x] /\ MatchPlaces(x)' = MatchPlaces(x)  BY <2>1, <4>1 DEF MatchPlaces
      <4> QED  BY <1>5, <4>1, <4>2 DEF Stored
    <3> QED  BY <3>1, <3>2
  <2>7. DroppedEnded(p)'  BY <1>1 DEF DroppedEnded
  <2>8. IngestTypes'  BY <1>0, <1>1, <1>5, <2>1, <2>2, <2>3 DEF IngestTypes
  <2>9. \A x \in Event \ EventsOf(p) : rows'[x] = rows[x] /\ stamped'[x] = stamped[x]  BY <1>4, <2>1, <2>3
  <2> QED  BY <1>1, <1>5, <1>7, <2>1, <2>2, <2>4, <2>5, <2>6, <2>7, <2>8, <2>9, OthersKept DEF PollerInv
<1> QED  BY <1>2, <1>9, <1>10 DEF ev

LEMMA LeftOnly ==
    ASSUME tick \in [Poller -> TickRecord], NEW p \in Poller, NEW left \in SUBSET (Event \cup Source),
           tick' = [tick EXCEPT ![p].left = left]
    PROVE  /\ tick' \in [Poller -> TickRecord] /\ tick'[p].left = left
           /\ tick'[p].list = tick[p].list /\ tick'[p].errs = tick[p].errs /\ tick'[p].suppress = tick[p].suppress
           /\ tick'[p].superseded = tick[p].superseded /\ tick'[p].force = tick[p].force /\ tick'[p].at = tick[p].at
           /\ tick'[p].full = tick[p].full /\ tick'[p].hashes = tick[p].hashes
           /\ \A q \in Poller \ {p} : tick'[q] = tick[q]
<1> DEFINE new == [tick[p] EXCEPT !.left = left]
<1>1. tick' = [tick EXCEPT ![p] = new]  OBVIOUS
<1>2. /\ new \in TickRecord /\ new.left = left
      /\ new.list = tick[p].list /\ new.errs = tick[p].errs /\ new.suppress = tick[p].suppress
      /\ new.superseded = tick[p].superseded /\ new.force = tick[p].force /\ new.at = tick[p].at
      /\ new.full = tick[p].full /\ new.hashes = tick[p].hashes
  BY DEF TickRecord
<1> HIDE DEF new
<1>3. tick' \in [Poller -> TickRecord] /\ tick'[p] = new /\ \A q \in Poller \ {p} : tick'[q] = tick[q]
  BY <1>1, <1>2
<1> QED  BY <1>2, <1>3

\* The stamp of a listed event is moved, or is recent enough to stay.
LEMMA TouchStep == ASSUME IngestInv, NEW p \in Poller, Touch(p) PROVE IngestInv'
<1>0. IngestTypes /\ StoreTypes /\ HistoryIsCurrent /\ PollerInv(p)  BY DEF IngestInv, IngestTypes
<1>1. /\ step[p] = "upsert" /\ tick[p].left = {} /\ now' = now /\ step' = [step EXCEPT ![p] = "supersede"]
      /\ tick' = [tick EXCEPT ![p].left = SourcesOf(p)]
  BY DEF Touch, Goto
<1>2. /\ tick' \in [Poller -> TickRecord] /\ tick'[p].left = SourcesOf(p)
      /\ tick'[p].list = tick[p].list /\ tick'[p].errs = tick[p].errs /\ tick'[p].suppress = tick[p].suppress
      /\ tick'[p].superseded = tick[p].superseded /\ tick'[p].force = tick[p].force /\ tick'[p].at = tick[p].at
      /\ tick'[p].full = tick[p].full /\ tick'[p].hashes = tick[p].hashes
      /\ \A q \in Poller \ {p} : tick'[q] = tick[q]
  <2>1. SourcesOf(p) \in SUBSET (Event \cup Source)  BY DEF SourcesOf
  <2> QED  BY <1>0, <1>1, <2>1, LeftOnly DEF IngestTypes
<1>3. /\ step'[p] = "supersede" /\ \A q \in Poller \ {p} : step'[q] = step[q]
      /\ step' \in [Poller -> {"idle", "upsert", "supersede", "disappear", "health"}]
  BY <1>0, <1>1 DEF IngestTypes
<1>4. Listed(p)' = Listed(p)  BY <1>2 DEF Listed
<1>5. tick[p].list \in PolledLists(p) /\ DOMAIN tick[p].list = EventsOf(p) /\ Listed(p) \subseteq EventsOf(p)
  BY <1>0, <1>1 DEF PollerInv, TickShape, PolledLists, Listed
<1>6. TickShape(p)'
  <2>1. TickShape(p)  BY <1>0 DEF PollerInv
  <2> QED  BY <1>1, <1>2, <1>3, <2>1 DEF TickShape
<1>7. HashesFresh(p)'  BY <1>3 DEF HashesFresh
<1>8. DroppedEnded(p)'
  <2>1. \A e \in EventsOf(p) : SourceOf[e] \in SourcesOf(p)  BY IngestAssumption DEF EventsOf, SourcesOf
  <2> QED  BY <1>2, <1>3, <1>5, <2>1 DEF DroppedEnded, ToSweep
<1>9. Done(p) = Listed(p) /\ Done(p)' = Listed(p)  BY <1>1, <1>3, <1>4 DEF Done
<1>10. CASE Fails(p) /\ UNCHANGED <<storeVars, stamped>>
  <2>1. /\ HistoryIsCurrent' /\ StampsTracked' /\ StoreTypes' /\ places' = places
        /\ rows' = rows /\ stamped' = stamped
    BY <1>10, StoreKept
  <2>2. clean' \in [Poller -> BOOLEAN] /\ clean'[p] = FALSE /\ \A q \in Poller \ {p} : clean'[q] = clean[q]
    BY <1>0, <1>10 DEF Fails, IngestTypes
  <2>3. ListedStored(p)'  BY <2>2 DEF ListedStored
  <2>4. IngestTypes'  BY <1>0, <1>1, <1>2, <1>3, <2>1, <2>2 DEF IngestTypes
  <2> QED  BY <1>2, <1>3, <1>6, <1>7, <1>8, <2>1, <2>2, <2>3, <2>4, OthersKept DEF PollerInv
<1>11. CASE /\ TouchSeen(ConfirmedIds(p), tick[p].at, Coalesce) /\ Succeeds(p)
            /\ stamped' = [e \in Event |->
                 IF e \in Listed(p) /\ SourceOf[e] \notin tick[p].errs /\ tick[p].at > stamped[e]
                 THEN tick[p].at ELSE stamped[e]]
  <2> DEFINE ids == ConfirmedIds(p)
             at == tick[p].at
  <2>0. at \in Nat /\ Coalesce \in Nat  BY <1>0, IngestAssumption DEF IngestTypes, TickRecord
  <2>1. ids \subseteq EventsOf(p) /\ ids \in SUBSET Event  BY <1>5 DEF ConfirmedIds, EventsOf
  <2>2. /\ StoreTypes' /\ HistoryIsCurrent' /\ places' = places
        /\ \A x \in Event : (rows[x] \in Row <=> rows'[x] \in Row)
        /\ \A x \in Event : rows[x] \in Row =>
             /\ rows'[x].status = rows[x].status /\ rows'[x].content = rows[x].content
             /\ rows'[x].hash = rows[x].hash /\ rows'[x].rev = rows[x].rev
             /\ rows'[x].att = rows[x].att /\ rows'[x].extra = rows[x].extra
             /\ rows'[x].seen = IF x \in ids /\ rows[x].seen + Coalesce < at THEN at ELSE rows[x].seen
    <3> HIDE DEF ids, at
    <3>1. TouchSeen(ids, at, Coalesce)  BY <1>11 DEF ids, at
    <3> QED  BY <1>0, <2>0, <2>1, <3>1, TouchEffect
  <2>3. /\ stamped' \in [Event -> Nat]
        /\ \A x \in Event : stamped'[x] = IF x \in ids /\ at > stamped[x] THEN at ELSE stamped[x]
    BY <1>0, <1>11, <2>0 DEF ConfirmedIds, IngestTypes
  <2>4. \A x \in Event \ EventsOf(p) : rows'[x] = rows[x] /\ stamped'[x] = stamped[x]
    BY <1>11, <2>1, <2>3 DEF TouchSeen
  <2>5. StampsTracked'
    <3> SUFFICES ASSUME NEW x \in Event, Known(x)'
                 PROVE  rows'[x].seen <= stamped'[x] /\ stamped'[x] <= rows'[x].seen + Coalesce
      BY DEF StampsTracked
    <3>1. rows'[x] \in Row
      <4>1. rows'[x] \in {NoRow} \cup Row  BY <2>2 DEF StoreTypes
      <4> QED  BY <4>1 DEF Known, NoRow
    <3>2. rows[x] \in Row /\ Known(x)  BY <1>0, <2>2, <3>1, KnownRow
    <3>3. rows[x].seen <= stamped[x] /\ stamped[x] <= rows[x].seen + Coalesce
      BY <3>2 DEF IngestInv, StampsTracked
    <3>4. rows[x].seen \in Nat /\ stamped[x] \in Nat  BY <1>0, <3>2 DEF Row, IngestTypes
    <3>5. /\ rows'[x].seen = IF x \in ids /\ rows[x].seen + Coalesce < at THEN at ELSE rows[x].seen
          /\ stamped'[x] = IF x \in ids /\ at > stamped[x] THEN at ELSE stamped[x]
      BY <2>2, <2>3, <3>2
    <3> HIDE DEF ids, at
    <3>6. CASE x \notin ids  BY <3>3, <3>5, <3>6
    <3>7. CASE x \in ids /\ rows[x].seen + Coalesce < at
      <4>1. rows'[x].seen = at /\ stamped'[x] = at  BY <2>0, <3>3, <3>4, <3>5, <3>7
      <4> QED  BY <2>0, <4>1
    <3>8. CASE x \in ids /\ ~(rows[x].seen + Coalesce < at)  BY <2>0, <3>3, <3>4, <3>5, <3>8
    <3> QED  BY <3>6, <3>7, <3>8
  <2>6. clean' = clean  BY <1>11 DEF Succeeds
  <2>7. ListedStored(p)'
    <3> SUFFICES ASSUME clean[p], NEW x \in Listed(p) PROVE Stored(p, x)'  BY <1>9, <2>6 DEF ListedStored
    <3>1. Stored(p, x) /\ x \in Event  BY <1>0, <1>5, <1>9 DEF PollerInv, ListedStored, EventsOf
    <3>2. MatchPlaces(x)' = MatchPlaces(x)  BY <2>2 DEF MatchPlaces
    <3> QED  BY <1>2, <2>2, <3>1, <3>2 DEF Stored
  <2>8. IngestTypes'  BY <1>0, <1>1, <1>2, <1>3, <2>2, <2>3, <2>6 DEF IngestTypes
  <2> QED  BY <1>2, <1>3, <1>6, <1>7, <1>8, <2>2, <2>4, <2>5, <2>6, <2>7, <2>8, OthersKept DEF PollerInv
<1> QED  BY <1>10, <1>11 DEF Touch

\* What both halves of the sweep of a source keep.
LEMMA SweepKeeps ==
    ASSUME IngestInv, NEW p \in Poller, step[p] \in {"supersede", "disappear"},
           NEW ids \in SUBSET (EventsOf(p) \ Listed(p)), NEW to \in EndStatus,
           (TransitionEvents(ids, to) /\ Succeeds(p)) \/ (Fails(p) /\ UNCHANGED storeVars),
           stamped' = stamped, step'[p] \in {"supersede", "disappear"},
           tick'[p].list = tick[p].list, tick'[p].force = tick[p].force, tick'[p].full = tick[p].full
    PROVE  /\ StoreTypes' /\ HistoryIsCurrent' /\ StampsTracked' /\ places' = places
           /\ \A x \in Event \ EventsOf(p) : rows'[x] = rows[x]
           /\ clean' \in [Poller -> BOOLEAN] /\ \A q \in Poller \ {p} : clean'[q] = clean[q]
           /\ ListedStored(p)' /\ HashesFresh(p)' /\ Listed(p)' = Listed(p)
           /\ \A x \in EventsOf(p) : Ended(x) => Ended(x)'
           /\ clean'[p] => clean[p] /\ \A x \in ids : Ended(x)'
<1>0. IngestTypes /\ StoreTypes /\ HistoryIsCurrent /\ PollerInv(p)  BY DEF IngestInv, IngestTypes
<1>1. Listed(p)' = Listed(p) /\ HashesFresh(p)' /\ Done(p) = Listed(p) /\ Done(p)' = Listed(p)
  BY DEF Listed, HashesFresh, Done
<1>2. Listed(p) \subseteq EventsOf(p) /\ EventsOf(p) \subseteq Event
  BY <1>0 DEF PollerInv, TickShape, PolledLists, Listed, EventsOf
<1>3. CASE Fails(p) /\ UNCHANGED storeVars
  <2>1. /\ HistoryIsCurrent' /\ StampsTracked' /\ StoreTypes' /\ places' = places
        /\ rows' = rows
    BY <1>3, StoreKept
  <2>2. clean' \in [Poller -> BOOLEAN] /\ clean'[p] = FALSE /\ \A q \in Poller \ {p} : clean'[q] = clean[q]
    BY <1>0, <1>3 DEF Fails, IngestTypes
  <2> QED  BY <1>1, <2>1, <2>2 DEF ListedStored, Ended
<1>4. CASE TransitionEvents(ids, to) /\ Succeeds(p)
  <2>1. /\ StoreTypes' /\ HistoryIsCurrent' /\ places' = places
        /\ \A x \in Event \ ids : rows'[x] = rows[x]
        /\ \A x \in ids : (rows[x] \in Row <=> rows'[x] \in Row)
        /\ \A x \in ids : rows[x] \in Row =>
             /\ rows'[x].status = to /\ rows'[x].content = rows[x].content /\ rows'[x].seen = rows[x].seen
             /\ rows'[x].att = rows[x].att /\ rows'[x].extra = rows[x].extra
    BY <1>0, <1>2, <1>4, TransitionEffect
  <2>2. clean' = clean  BY <1>4 DEF Succeeds
  <2>3. \A x \in ids : Ended(x)'  BY <2>1 DEF Ended, EndStatus, LiveStatus
  <2>4. StampsTracked'
    <3> SUFFICES ASSUME NEW x \in Event, Known(x)'
                 PROVE  rows'[x].seen <= stamped[x] /\ stamped[x] <= rows'[x].seen + Coalesce
      BY DEF StampsTracked
    <3>1. rows'[x] \in Row
      <4>1. rows'[x] \in {NoRow} \cup Row  BY <2>1 DEF StoreTypes
      <4> QED  BY <4>1 DEF Known, NoRow
    <3>2. rows[x] \in Row /\ Known(x) /\ rows'[x].seen = rows[x].seen  BY <1>0, <2>1, <3>1, KnownRow
    <3> QED  BY <3>2 DEF IngestInv, StampsTracked
  <2>5. ListedStored(p)'
    <3> SUFFICES ASSUME clean[p], NEW x \in Listed(p) PROVE Stored(p, x)'  BY <1>1, <2>2 DEF ListedStored
    <3>1. Stored(p, x) /\ x \in Event \ ids  BY <1>0, <1>1, <1>2 DEF PollerInv, ListedStored
    <3>2. MatchPlaces(x)' = MatchPlaces(x) /\ rows'[x] = rows[x]  BY <2>1, <3>1 DEF MatchPlaces
    <3> QED  BY <3>1, <3>2 DEF Stored
  <2>6. \A x \in EventsOf(p) : Ended(x) => Ended(x)'  BY <1>2, <2>1, <2>3 DEF Ended
  <2>7. clean' \in [Poller -> BOOLEAN]  BY <1>0, <2>2 DEF IngestTypes
  <2> QED  BY <1>1, <1>2, <2>1, <2>2, <2>3, <2>4, <2>5, <2>6, <2>7
<1> QED  BY <1>3, <1>4

\* The source the sweep is at is one of the poller's, and so are its live events.
LEMMA SweptSource ==
    ASSUME IngestInv, NEW p \in Poller, step[p] \in {"supersede", "disappear"}, tick[p].left # {}
    PROVE  /\ First(tick[p].left) \in tick[p].left /\ First(tick[p].left) \in SourcesOf(p)
           /\ ActiveEventsBySource(First(tick[p].left)) \subseteq EventsOf(p)
           /\ \A e \in EventsOf(p) : SourceOf[e] = First(tick[p].left) /\ ~Ended(e) =>
                 e \in ActiveEventsBySource(First(tick[p].left))
<1>1. First(tick[p].left) \in tick[p].left  BY DEF First
<1>2. tick[p].left \subseteq SourcesOf(p)  BY DEF IngestInv, PollerInv, TickShape
<1>3. \A e \in EventsOf(p) : ~Ended(e) => Active(e)
  BY KnownRow DEF IngestInv, IngestTypes, Ended, Active, EventsOf
<1> QED  BY <1>1, <1>2, <1>3 DEF ActiveEventsBySource, EventsOf, SourcesOf

LEMMA SupersedeStep == ASSUME IngestInv, NEW p \in Poller, Supersede(p) PROVE IngestInv'
<1> DEFINE s == First(tick[p].left)
           ids == ActiveEventsBySource(s) \cap tick[p].superseded
<1>0. IngestTypes /\ PollerInv(p) /\ TickShape(p)  BY DEF IngestInv, PollerInv
<1>1. /\ step[p] = "supersede" /\ tick[p].left # {} /\ Swept(p, s)
      /\ (TransitionEvents(ids, "RESOLVED") /\ Succeeds(p)) \/ (Fails(p) /\ UNCHANGED storeVars)
      /\ step' = [step EXCEPT ![p] = "disappear"] /\ now' = now /\ tick' = tick /\ stamped' = stamped
  BY DEF Supersede, Goto
<1>2. /\ s \in tick[p].left /\ s \in SourcesOf(p) /\ ActiveEventsBySource(s) \subseteq EventsOf(p)
      /\ \A e \in EventsOf(p) : SourceOf[e] = s /\ ~Ended(e) => e \in ActiveEventsBySource(s)
  BY <1>1, SweptSource
<1>3. /\ step'[p] = "disappear" /\ \A q \in Poller \ {p} : step'[q] = step[q]
      /\ step' \in [Poller -> {"idle", "upsert", "supersede", "disappear", "health"}]
  BY <1>0, <1>1 DEF IngestTypes
<1>4. ids \in SUBSET (EventsOf(p) \ Listed(p))  BY <1>0, <1>1, <1>2 DEF TickShape, Listed
<1> HIDE DEF ids
<1>5. /\ StoreTypes' /\ HistoryIsCurrent' /\ StampsTracked' /\ places' = places
      /\ \A x \in Event \ EventsOf(p) : rows'[x] = rows[x]
      /\ clean' \in [Poller -> BOOLEAN] /\ \A q \in Poller \ {p} : clean'[q] = clean[q]
      /\ ListedStored(p)' /\ HashesFresh(p)' /\ Listed(p)' = Listed(p)
      /\ \A x \in EventsOf(p) : Ended(x) => Ended(x)'
      /\ clean'[p] => clean[p] /\ \A x \in ids : Ended(x)'
  <2>1. "RESOLVED" \in EndStatus  BY DEF EndStatus
  <2> QED  BY <1>1, <1>3, <1>4, <2>1, SweepKeeps
<1>6. TickShape(p)'  BY <1>0, <1>1, <1>3, <1>5 DEF TickShape, Swept
<1>7. DroppedEnded(p)'
  <2> SUFFICES ASSUME clean'[p], NEW e \in (DOMAIN tick[p].list) \ Listed(p)
               PROVE  /\ MustEnd(p, e) /\ SourceOf[e] \notin tick[p].left => Ended(e)'
                      /\ SourceOf[e] = s /\ e \in tick[p].superseded => Ended(e)'
    BY <1>1, <1>3, <1>5 DEF DroppedEnded, ToSweep, MustEnd
  <2>1. e \in EventsOf(p)  BY <1>0, <1>1 DEF TickShape, PolledLists
  <2>2. MustEnd(p, e) /\ SourceOf[e] \notin tick[p].left => Ended(e)
    BY <1>0, <1>1, <1>5 DEF PollerInv, DroppedEnded, ToSweep
  <2>3. SourceOf[e] = s /\ e \in tick[p].superseded /\ ~Ended(e) => e \in ids  BY <1>2, <2>1 DEF ids
  <2> QED  BY <1>5, <2>1, <2>2, <2>3
<1>8. PollerInv(p)'  BY <1>5, <1>6, <1>7 DEF PollerInv
<1>9. IngestTypes'  BY <1>0, <1>1, <1>3, <1>5 DEF IngestTypes
<1> QED  BY <1>1, <1>3, <1>5, <1>8, <1>9, OthersKept

\* What the sweep of one source ends, and the status it gives.
SweptIds(p) ==
    LET s == First(tick[p].left)
        gone == ActiveEventsBySource(s) \ Listed(p)
    IN IF Policy[s] = "expire" THEN {e \in gone : ShouldExpire(e, tick[p].at)} ELSE gone
SweptTo(p) == IF Policy[First(tick[p].left)] = "expire" THEN "EXPIRED" ELSE "RESOLVED"

LEMMA SweepForm ==
    ASSUME IngestInv, NEW p \in Poller, SweepDisappeared(p)
    PROVE  /\ step[p] = "disappear" /\ tick[p].left # {} /\ Swept(p, First(tick[p].left))
           /\ (TransitionEvents(SweptIds(p), SweptTo(p)) /\ Succeeds(p)) \/ (Fails(p) /\ UNCHANGED storeVars)
           /\ tick' = [tick EXCEPT ![p].left = @ \ {First(tick[p].left)}]
           /\ step' = [step EXCEPT ![p] = "supersede"] /\ now' = now /\ stamped' = stamped
           /\ SweptIds(p) \in SUBSET (EventsOf(p) \ Listed(p)) /\ SweptTo(p) \in EndStatus
<1>1. step[p] = "disappear"  BY DEF SweepDisappeared
<1>2. tick[p].left # {} /\ Swept(p, First(tick[p].left))  BY <1>1 DEF IngestInv, PollerInv, TickShape
<1>3. ActiveEventsBySource(First(tick[p].left)) \subseteq EventsOf(p)  BY <1>1, <1>2, SweptSource
<1>4. /\ (TransitionEvents(SweptIds(p), SweptTo(p)) /\ Succeeds(p)) \/ (Fails(p) /\ UNCHANGED storeVars)
      /\ tick' = [tick EXCEPT ![p].left = @ \ {First(tick[p].left)}]
  BY Zenon DEF SweepDisappeared, SweptIds, SweptTo
<1>5. step' = [step EXCEPT ![p] = "supersede"] /\ now' = now /\ stamped' = stamped
  BY DEF SweepDisappeared, Goto
<1>6. SweptIds(p) \in SUBSET (EventsOf(p) \ Listed(p))  BY <1>3 DEF SweptIds
<1>7. SweptTo(p) \in EndStatus  BY DEF SweptTo, EndStatus
<1> QED  BY <1>1, <1>2, <1>4, <1>5, <1>6, <1>7

LEMMA SweepStep == ASSUME IngestInv, NEW p \in Poller, SweepDisappeared(p) PROVE IngestInv'
<1> DEFINE s == First(tick[p].left)
           ids == SweptIds(p)
           to == SweptTo(p)
           left == tick[p].left \ {s}
<1>0. IngestTypes /\ PollerInv(p) /\ TickShape(p)  BY DEF IngestInv, PollerInv
<1>1. /\ step[p] = "disappear" /\ tick[p].left # {} /\ Swept(p, s)
      /\ (TransitionEvents(ids, to) /\ Succeeds(p)) \/ (Fails(p) /\ UNCHANGED storeVars)
      /\ tick' = [tick EXCEPT ![p].left = left]
      /\ step' = [step EXCEPT ![p] = "supersede"] /\ now' = now /\ stamped' = stamped
      /\ ids \in SUBSET (EventsOf(p) \ Listed(p)) /\ to \in EndStatus
  BY SweepForm
<1>2. /\ s \in tick[p].left /\ s \in SourcesOf(p)
      /\ \A e \in EventsOf(p) : SourceOf[e] = s /\ ~Ended(e) => e \in ActiveEventsBySource(s)
  BY <1>1, SweptSource
<1>3. /\ step'[p] = "supersede" /\ \A q \in Poller \ {p} : step'[q] = step[q]
      /\ step' \in [Poller -> {"idle", "upsert", "supersede", "disappear", "health"}]
  BY <1>0, <1>1 DEF IngestTypes
<1>4. /\ tick' \in [Poller -> TickRecord] /\ tick'[p].left = left
      /\ tick'[p].list = tick[p].list /\ tick'[p].errs = tick[p].errs /\ tick'[p].suppress = tick[p].suppress
      /\ tick'[p].superseded = tick[p].superseded /\ tick'[p].force = tick[p].force /\ tick'[p].at = tick[p].at
      /\ tick'[p].full = tick[p].full /\ tick'[p].hashes = tick[p].hashes
      /\ \A q \in Poller \ {p} : tick'[q] = tick[q]
  <2>1. left \in SUBSET (Event \cup Source)  BY <1>0 DEF IngestTypes, TickRecord
  <2> HIDE DEF left
  <2> QED  BY <1>0, <1>1, <2>1, LeftOnly DEF IngestTypes
<1> HIDE DEF ids, to
<1>5. /\ StoreTypes' /\ HistoryIsCurrent' /\ StampsTracked' /\ places' = places
      /\ \A x \in Event \ EventsOf(p) : rows'[x] = rows[x]
      /\ clean' \in [Poller -> BOOLEAN] /\ \A q \in Poller \ {p} : clean'[q] = clean[q]
      /\ ListedStored(p)' /\ HashesFresh(p)' /\ Listed(p)' = Listed(p)
      /\ \A x \in EventsOf(p) : Ended(x) => Ended(x)'
      /\ clean'[p] => clean[p] /\ \A x \in ids : Ended(x)'
  BY <1>1, <1>3, <1>4, SweepKeeps
<1>6. TickShape(p)'
  <2>1. left \subseteq SourcesOf(p)  BY <1>0, <1>1 DEF TickShape
  <2> HIDE DEF left
  <2> QED  BY <1>0, <1>1, <1>3, <1>4, <1>5, <2>1 DEF TickShape
<1>7. DroppedEnded(p)'
  <2> SUFFICES ASSUME clean'[p], NEW e \in (DOMAIN tick[p].list) \ Listed(p), MustEnd(p, e), SourceOf[e] \notin left
               PROVE  Ended(e)'
    BY <1>1, <1>3, <1>4, <1>5 DEF DroppedEnded, ToSweep, MustEnd
  <2>1. e \in EventsOf(p) /\ e \in Event  BY <1>0, <1>1 DEF TickShape, PolledLists, EventsOf
  <2>2. CASE Ended(e)  BY <1>5, <2>1, <2>2
  <2>3. CASE ~Ended(e)
    <3>1. SourceOf[e] = s
      <4>1. SourceOf[e] \notin tick[p].left => Ended(e)  BY <1>0, <1>1, <1>5 DEF PollerInv, DroppedEnded, ToSweep
      <4> QED  BY <2>3, <4>1
    <3>2. e \in ActiveEventsBySource(s) \ Listed(p)  BY <1>2, <2>1, <2>3, <3>1
    <3>3. e \notin tick[p].superseded  BY <1>0, <1>1, <1>5, <2>3, <3>1 DEF PollerInv, DroppedEnded
    <3>4. Policy[s] = "resolve" \/ (ExpireAfter > 0 /\ tick[p].at > stamped[e] + ExpireAfter)
      BY <3>1, <3>3 DEF MustEnd
    <3>5. ExpireAfter > 0 /\ tick[p].at > stamped[e] + ExpireAfter => ShouldExpire(e, tick[p].at)
      <4>1. rows[e] \in Row  BY <2>3 DEF Ended
      <4>2. Known(e)  BY <1>0, <2>1, <4>1, KnownRow DEF IngestTypes
      <4>3. rows[e].seen <= stamped[e]  BY <2>1, <4>2 DEF IngestInv, StampsTracked
      <4>4. rows[e].seen \in Nat /\ stamped[e] \in Nat /\ tick[p].at \in Nat /\ ExpireAfter \in Nat
        BY <1>0, <2>1, <4>1, IngestAssumption DEF Row, IngestTypes, TickRecord
      <4> QED  BY <4>3, <4>4 DEF ShouldExpire
    <3>6. e \in ids  BY <3>2, <3>4, <3>5 DEF ids, SweptIds
    <3> QED  BY <1>5, <3>6
  <2> QED  BY <2>2, <2>3
<1>8. PollerInv(p)'  BY <1>5, <1>6, <1>7 DEF PollerInv
<1>9. IngestTypes'  BY <1>0, <1>1, <1>3, <1>4, <1>5 DEF IngestTypes
<1> QED  BY <1>1, <1>3, <1>4, <1>5, <1>8, <1>9, OthersKept

\* A source that is not swept owes nothing.
LEMMA SkipStep == ASSUME IngestInv, NEW p \in Poller, SkipSource(p) PROVE IngestInv'
<1> DEFINE s == First(tick[p].left)
           left == tick[p].left \ {s}
<1>0. IngestTypes /\ PollerInv(p) /\ TickShape(p)  BY DEF IngestInv, PollerInv
<1>1. /\ step[p] = "supersede" /\ tick[p].left # {} /\ ~Swept(p, s)
      /\ tick' = [tick EXCEPT ![p].left = left]
      /\ step' = step /\ now' = now /\ UNCHANGED <<storeVars, stamped>> /\ clean' = clean
  BY DEF SkipSource
<1>2. /\ HistoryIsCurrent' /\ StampsTracked' /\ StoreTypes' /\ places' = places
      /\ rows' = rows /\ stamped' = stamped
  BY <1>1, StoreKept
<1>3. left \in SUBSET (Event \cup Source) /\ left \subseteq SourcesOf(p)
  BY <1>0, <1>1 DEF IngestTypes, TickRecord, TickShape
<1>4. /\ tick' \in [Poller -> TickRecord] /\ tick'[p].left = left
      /\ tick'[p].list = tick[p].list /\ tick'[p].errs = tick[p].errs /\ tick'[p].suppress = tick[p].suppress
      /\ tick'[p].superseded = tick[p].superseded /\ tick'[p].force = tick[p].force /\ tick'[p].at = tick[p].at
      /\ tick'[p].full = tick[p].full /\ tick'[p].hashes = tick[p].hashes
      /\ \A q \in Poller \ {p} : tick'[q] = tick[q]
  <2> HIDE DEF left
  <2> QED  BY <1>0, <1>1, <1>3, LeftOnly DEF IngestTypes
<1>5. Listed(p)' = Listed(p)  BY <1>4 DEF Listed
<1>6. TickShape(p)'
  <2> HIDE DEF left
  <2> QED  BY <1>0, <1>1, <1>3, <1>4, <1>5 DEF TickShape
<1>7. HashesFresh(p)'  BY <1>1 DEF HashesFresh
<1>8. ListedStored(p)'  BY <1>0, <1>1, <1>2, <1>4, <1>5 DEF PollerInv, ListedStored, Done, Stored, MatchPlaces
<1>9. DroppedEnded(p)'
  <2> SUFFICES ASSUME clean[p], NEW e \in (DOMAIN tick[p].list) \ Listed(p), MustEnd(p, e), SourceOf[e] \notin left
               PROVE  Ended(e)'
    BY <1>1, <1>2, <1>4, <1>5 DEF DroppedEnded, ToSweep, MustEnd
  <2>1. SourceOf[e] # s  BY <1>1 DEF MustEnd, Swept
  <2>2. Ended(e)  BY <1>0, <1>1, <2>1 DEF PollerInv, DroppedEnded, ToSweep
  <2> QED  BY <1>2, <2>2 DEF Ended
<1>10. PollerInv(p)'  BY <1>6, <1>7, <1>8, <1>9 DEF PollerInv
<1>11. IngestTypes'  BY <1>0, <1>1, <1>2, <1>4 DEF IngestTypes
<1> QED  BY <1>1, <1>2, <1>4, <1>10, <1>11, OthersKept

\* The end of the sweep and the health records that follow it leave the events alone.
LEMMA HealthStep ==
    ASSUME IngestInv, NEW p \in Poller, SweepDone(p) \/ RecordAttempt(p) PROVE IngestInv'
<1>0. IngestTypes /\ PollerInv(p) /\ TickShape(p)  BY DEF IngestInv, PollerInv
<1>1. PICK left \in SUBSET (Event \cup Source) : tick' = [tick EXCEPT ![p].left = left]
  <2>1. SourcesOf(p) \in SUBSET (Event \cup Source)  BY DEF SourcesOf
  <2>2. tick[p].left \ {First(tick[p].left)} \in SUBSET (Event \cup Source)  BY <1>0 DEF IngestTypes, TickRecord
  <2>3. CASE SweepDone(p)  BY <2>1, <2>3 DEF SweepDone
  <2>4. CASE RecordAttempt(p)
    <3>1. tick' = [tick EXCEPT ![p].left = tick[p].left \ {First(tick[p].left)}]  BY <2>4 DEF RecordAttempt
    <3> QED  BY <2>2, <3>1
  <2> QED  BY <2>3, <2>4
<1>2. /\ (step[p] = "supersede" /\ tick[p].left = {}) \/ step[p] = "health"
      /\ step' = [step EXCEPT ![p] = "health"] \/ (step[p] = "health" /\ step' = step)
      /\ now' = now /\ UNCHANGED <<storeVars, stamped>>
      /\ Succeeds(p) \/ Fails(p)
  BY DEF SweepDone, RecordAttempt, Goto, Succeeds
<1>3. /\ HistoryIsCurrent' /\ StampsTracked' /\ StoreTypes' /\ places' = places
      /\ rows' = rows /\ stamped' = stamped
  BY <1>2, StoreKept
<1>4. /\ tick' \in [Poller -> TickRecord] /\ tick'[p].left = left
      /\ tick'[p].list = tick[p].list /\ tick'[p].errs = tick[p].errs /\ tick'[p].suppress = tick[p].suppress
      /\ tick'[p].superseded = tick[p].superseded /\ tick'[p].force = tick[p].force /\ tick'[p].at = tick[p].at
      /\ tick'[p].full = tick[p].full /\ tick'[p].hashes = tick[p].hashes
      /\ \A q \in Poller \ {p} : tick'[q] = tick[q]
  BY <1>0, <1>1, LeftOnly DEF IngestTypes
<1>5. /\ step'[p] = "health" /\ \A q \in Poller \ {p} : step'[q] = step[q]
      /\ step' \in [Poller -> {"idle", "upsert", "supersede", "disappear", "health"}]
  BY <1>0, <1>2 DEF IngestTypes
<1>6. /\ clean' \in [Poller -> BOOLEAN] /\ \A q \in Poller \ {p} : clean'[q] = clean[q]
      /\ clean'[p] => clean[p]
  BY <1>0, <1>2 DEF Fails, Succeeds, IngestTypes
<1>7. Listed(p)' = Listed(p) /\ Done(p)' = Listed(p) /\ Done(p) = Listed(p)  BY <1>2, <1>4, <1>5 DEF Listed, Done
<1>8. TickShape(p)'  BY <1>0, <1>2, <1>4, <1>5 DEF TickShape
<1>9. HashesFresh(p)'  BY <1>5 DEF HashesFresh
<1>10. ListedStored(p)'  BY <1>0, <1>3, <1>4, <1>6, <1>7 DEF PollerInv, ListedStored, Stored, MatchPlaces
<1>11. DroppedEnded(p)'
  <2> SUFFICES ASSUME clean[p], NEW e \in (DOMAIN tick[p].list) \ Listed(p), MustEnd(p, e)
               PROVE  Ended(e)'
    BY <1>3, <1>4, <1>5, <1>6, <1>7 DEF DroppedEnded, MustEnd
  <2>1. Ended(e)  BY <1>0, <1>2 DEF PollerInv, DroppedEnded, ToSweep
  <2> QED  BY <1>3, <2>1 DEF Ended
<1>12. PollerInv(p)'  BY <1>8, <1>9, <1>10, <1>11 DEF PollerInv
<1>13. IngestTypes'  BY <1>0, <1>2, <1>3, <1>4, <1>5, <1>6 DEF IngestTypes
<1> QED  BY <1>3, <1>4, <1>5, <1>6, <1>12, <1>13, OthersKept

\* However the tick ends, the next one starts from the store.
LEMMA EndStep == ASSUME IngestInv, NEW p \in Poller, TickEnds(p) \/ Panic(p) PROVE IngestInv'
<1>0. IngestTypes  BY DEF IngestInv
<1>1. /\ step' = [step EXCEPT ![p] = "idle"] /\ tick' = [tick EXCEPT ![p] = NoTick]
      /\ now' = now /\ UNCHANGED <<storeVars, stamped>>
      /\ Succeeds(p) \/ Fails(p)
  BY DEF TickEnds, Panic, Ends, Goto, Succeeds
<1>2. /\ HistoryIsCurrent' /\ StampsTracked' /\ StoreTypes' /\ places' = places
      /\ rows' = rows /\ stamped' = stamped
  BY <1>1, StoreKept
<1>3. NoTick \in TickRecord  BY DEF NoTick, TickRecord, Lists, Hashes
<1>4. /\ step'[p] = "idle" /\ tick' \in [Poller -> TickRecord]
      /\ step' \in [Poller -> {"idle", "upsert", "supersede", "disappear", "health"}]
      /\ \A q \in Poller \ {p} : step'[q] = step[q] /\ tick'[q] = tick[q]
  BY <1>0, <1>1, <1>3 DEF IngestTypes
<1>5. clean' \in [Poller -> BOOLEAN] /\ \A q \in Poller \ {p} : clean'[q] = clean[q]
  BY <1>0, <1>1 DEF Fails, Succeeds, IngestTypes
<1>6. PollerInv(p)'
  BY <1>4 DEF PollerInv, TickShape, HashesFresh, ListedStored, Done, DroppedEnded
<1>7. IngestTypes'  BY <1>0, <1>1, <1>2, <1>4, <1>5 DEF IngestTypes
<1> QED  BY <1>2, <1>4, <1>5, <1>6, <1>7, OthersKept

LEMMA RestartStep == ASSUME IngestInv, Restart PROVE IngestInv'
<1>0. IngestTypes  BY DEF IngestInv
<1>1. PICK new \in SUBSET Place : SeedPlaces(new)  BY DEF Restart
<1>2. /\ step' = [p \in Poller |-> "idle"] /\ tick' = [p \in Poller |-> NoTick]
      /\ clean' = [p \in Poller |-> TRUE] /\ now' = now /\ stamped' = stamped
  BY DEF Restart
<1>3. rows' = rows /\ snaps' = snaps /\ places' = places \cup new  BY <1>1 DEF SeedPlaces
<1>4. StoreTypes' /\ HistoryIsCurrent' /\ StampsTracked'
  BY <1>0, <1>2, <1>3 DEF IngestInv, IngestTypes, StoreTypes, HistoryIsCurrent, StampsTracked, Known
<1>5. NoTick \in TickRecord  BY DEF NoTick, TickRecord, Lists, Hashes
<1>6. IngestTypes'  BY <1>0, <1>2, <1>4, <1>5 DEF IngestTypes
<1>7. ASSUME NEW p \in Poller PROVE PollerInv(p)'
  <2>1. step'[p] = "idle"  BY <1>2
  <2> QED  BY <2>1 DEF PollerInv, TickShape, HashesFresh, ListedStored, Done, DroppedEnded
<1> QED  BY <1>4, <1>6, <1>7 DEF IngestInv

\* Time alone changes nothing of this: the tick judges by the time it began at.
LEMMA ClockStep ==
    ASSUME IngestInv, now' \in Nat, UNCHANGED <<storeVars, step, tick, stamped, clean>> PROVE IngestInv'
<1>1. /\ rows' = rows /\ snaps' = snaps /\ places' = places /\ step' = step /\ tick' = tick
      /\ stamped' = stamped /\ clean' = clean
  BY DEF storeVars
<1>2. IngestTypes' /\ HistoryIsCurrent' /\ StampsTracked'
  BY <1>1 DEF IngestInv, IngestTypes, StoreTypes, HistoryIsCurrent, StampsTracked, Known
<1>3. ASSUME NEW p \in Poller PROVE PollerInv(p)'
  <2>1. PollerInv(p)  BY DEF IngestInv
  <2>2. Listed(p)' = Listed(p) /\ Done(p)' = Done(p) /\ ToSweep(p)' = ToSweep(p)  BY <1>1 DEF Listed, Done, ToSweep
  <2>3. TickShape(p)' /\ HashesFresh(p)'  BY <1>1, <2>1, <2>2 DEF PollerInv, TickShape, HashesFresh, Swept
  <2>4. ListedStored(p)'  BY <1>1, <2>1, <2>2 DEF PollerInv, ListedStored, Stored, MatchPlaces
  <2>5. DroppedEnded(p)'  BY <1>1, <2>1, <2>2 DEF PollerInv, DroppedEnded, MustEnd, Ended
  <2> QED  BY <2>3, <2>4, <2>5 DEF PollerInv
<1> QED  BY <1>2, <1>3 DEF IngestInv

LEMMA IngestNextInv == ASSUME IngestInv, [Next]_vars PROVE IngestInv'
<1>1. ASSUME NEW p \in Poller, Tick(p) PROVE IngestInv'
  BY <1>1, PollStep, PollFailsStep, UpsertStep, TouchStep, SkipStep, SupersedeStep, SweepStep, HealthStep, EndStep DEF Tick
<1>2. CASE Restart  BY <1>2, RestartStep
<1>3. CASE Clock
  <2>1. now' \in Nat  BY <1>3 DEF Clock, IngestInv, IngestTypes
  <2> QED  BY <1>3, <2>1, ClockStep DEF Clock
<1>4. CASE UNCHANGED vars
  <2>1. now' \in Nat  BY <1>4 DEF vars, ingestVars, IngestInv, IngestTypes
  <2> QED  BY <1>4, <2>1, ClockStep DEF vars, ingestVars
<1> QED  BY <1>1, <1>2, <1>3, <1>4 DEF Next

LEMMA IngestInvHolds == Spec => []IngestInv
BY IngestInitInv, IngestNextInv, PTL DEF Spec

-----------------------------------------------------------------------------
(***************************************************************************)
(* What was confirmed, whether or not the store was told of it.            *)
(***************************************************************************)
\* The clean listings of a tick were confirmed when it began.
PollConfirmed(p) ==
    step[p] = "upsert" => tick[p].at <= now /\ \A e \in ConfirmedIds(p) : tick[p].at <= confirmed[e]

ConfirmInv ==
    /\ confirmed \in [Event -> Nat]
    /\ \A e \in Event : stamped[e] <= confirmed[e] /\ confirmed[e] <= now
    /\ \A p \in Poller : PollConfirmed(p)

LEMMA ConfirmInitInv == Init => ConfirmInv
BY DEF Init, ConfirmInv, PollConfirmed

\* The steps that confirm nothing: a tick comes to its write path by its poll only.
LEMMA ConfirmKept ==
    ASSUME IngestInv, ConfirmInv, UNCHANGED <<confirmed, stamped>>, now' \in Nat, now <= now',
           \A p \in Poller : step'[p] = "upsert" =>
               step[p] = "upsert" /\ tick'[p].list = tick[p].list /\ tick'[p].errs = tick[p].errs
               /\ tick'[p].at = tick[p].at
    PROVE  ConfirmInv'
<1>1. now \in Nat /\ tick \in [Poller -> TickRecord] /\ stamped \in [Event -> Nat]  BY DEF IngestInv, IngestTypes
<1>2. ASSUME NEW p \in Poller, step'[p] = "upsert"
      PROVE  tick'[p].at <= now' /\ \A e \in ConfirmedIds(p)' : tick'[p].at <= confirmed'[e]
  <2>1. step[p] = "upsert" /\ tick'[p].at = tick[p].at /\ ConfirmedIds(p)' = ConfirmedIds(p)
    BY <1>2 DEF ConfirmedIds, Listed
  <2>2. tick[p].at \in Nat  BY <1>1 DEF TickRecord
  <2> QED  BY <1>1, <2>1, <2>2 DEF ConfirmInv, PollConfirmed
<1>3. \A e \in Event : stamped[e] <= confirmed[e] /\ confirmed[e] <= now'  BY <1>1 DEF ConfirmInv
<1> QED  BY <1>2, <1>3 DEF ConfirmInv, PollConfirmed

\* What a clean poll lists is confirmed at the moment its tick began.
LEMMA PollConfirms ==
    ASSUME IngestInv, ConfirmInv, NEW p \in Poller, Poll(p) PROVE ConfirmInv'
<1>0. now \in Nat /\ tick \in [Poller -> TickRecord] /\ stamped \in [Event -> Nat] /\ confirmed \in [Event -> Nat]
      /\ step \in [Poller -> {"idle", "upsert", "supersede", "disappear", "health"}]
  BY DEF IngestInv, IngestTypes, ConfirmInv
<1>1. now' = now /\ stamped' = stamped /\ step' = [step EXCEPT ![p] = "upsert"]  BY DEF Poll, Goto
<1>2. PICK list \in PolledLists(p), errs \in SUBSET SourcesOf(p), suppress \in SUBSET SourcesOf(p),
           superseded \in SUBSET LoadPrior(p), force \in SUBSET EventsOf(p), hashed \in BOOLEAN :
         /\ suppress \cap errs = {}
         /\ \A e \in superseded : list[e] = Nil
         /\ \A e \in Alerts \cap EventsOf(p) : list[e] # Nil => list[e].extra = NoExtra
         /\ \A e \in force : list[e] # Nil /\ list[e].extra \in Telemetry
         /\ ~hashed => Faults
         /\ tick' = [tick EXCEPT ![p] =
                [list |-> list, errs |-> errs, suppress |-> suppress, superseded |-> superseded,
                 force |-> force, at |-> now, full |-> ~reconciled[p], hashes |-> StoredHashes(p, hashed),
                 budget |-> BudgetPerTick, left |-> {e \in EventsOf(p) : list[e] # Nil}]]
         /\ confirmed' = [e \in Event |->
                IF e \in EventsOf(p) /\ list[e] # Nil /\ SourceOf[e] \notin errs
                THEN now ELSE confirmed[e]]
  BY Zenon DEF Poll, PolledLists
<1>3. /\ tick'[p].list = list /\ tick'[p].errs = errs /\ tick'[p].at = now
      /\ \A q \in Poller \ {p} : tick'[q] = tick[q] /\ step'[q] = step[q]
  BY <1>0, <1>1, <1>2
<1>4. confirmed' \in [Event -> Nat]  BY <1>0, <1>2
<1>5. \A e \in Event : confirmed'[e] \in {now, confirmed[e]}  BY <1>2
<1>6. \A e \in Event : stamped[e] <= confirmed'[e] /\ confirmed[e] <= confirmed'[e] /\ confirmed'[e] <= now
  BY <1>0, <1>5 DEF ConfirmInv
<1>7. PollConfirmed(p)'
  <2>1. \A e \in ConfirmedIds(p)' : e \in EventsOf(p) /\ list[e] # Nil /\ SourceOf[e] \notin errs
    BY <1>3 DEF ConfirmedIds, Listed, PolledLists
  <2>2. \A e \in ConfirmedIds(p)' : confirmed'[e] = now  BY <1>2, <2>1 DEF EventsOf
  <2> QED  BY <1>0, <1>1, <1>3, <2>2 DEF PollConfirmed
<1>8. ASSUME NEW q \in Poller \ {p} PROVE PollConfirmed(q)'
  <2> SUFFICES ASSUME step[q] = "upsert"
               PROVE  tick[q].at <= now /\ \A e \in ConfirmedIds(q) : tick[q].at <= confirmed'[e]
    BY <1>1, <1>3 DEF PollConfirmed, ConfirmedIds, Listed
  <2>1. PollConfirmed(q) /\ TickShape(q) /\ tick[q].at \in Nat
    BY <1>0 DEF ConfirmInv, IngestInv, PollerInv, TickRecord
  <2>2. ConfirmedIds(q) \subseteq Event
    BY <2>1 DEF TickShape, ConfirmedIds, Listed, PolledLists, EventsOf
  <2>3. \A e \in ConfirmedIds(q) : tick[q].at <= confirmed[e] /\ confirmed[e] <= confirmed'[e]
                                  /\ confirmed[e] \in Nat /\ confirmed'[e] \in Nat
    BY <1>0, <1>4, <1>6, <2>1, <2>2 DEF PollConfirmed
  <2> QED  BY <2>1, <2>3 DEF PollConfirmed
<1> QED  BY <1>1, <1>4, <1>6, <1>7, <1>8 DEF ConfirmInv

\* A write confirms and stamps alike.
LEMMA UpsertConfirms ==
    ASSUME IngestInv, ConfirmInv, NEW p \in Poller, UpsertNext(p) PROVE ConfirmInv'
<1>0. now \in Nat /\ tick \in [Poller -> TickRecord] /\ stamped \in [Event -> Nat] /\ confirmed \in [Event -> Nat]
      /\ step[p] = "upsert" /\ step' = step /\ now' = now
  BY DEF IngestInv, IngestTypes, ConfirmInv, UpsertNext
<1>1. PICK x \in tick[p].left :
         /\ \E asked \in BOOLEAN : tick' = [tick EXCEPT ![p].left = @ \ {x}, ![p].budget = IF asked THEN @ - 1 ELSE @]
         /\ \/ confirmed' = confirmed /\ stamped' = stamped
            \/ \E written \in BOOLEAN :
                  /\ confirmed' = [confirmed EXCEPT ![x] = IF written THEN now ELSE @]
                  /\ stamped' = [stamped EXCEPT ![x] = IF written THEN now ELSE @]
  <2>1. PICK x \in tick[p].left, asked \in BOOLEAN, answered \in BOOLEAN :
         LET ev == [tick[p].list[x] EXCEPT !.extra = IF answered THEN Enhanced ELSE @]
         IN /\ tick' = [tick EXCEPT ![p].left = @ \ {x}, ![p].budget = IF asked THEN @ - 1 ELSE @]
            /\ \/ confirmed' = confirmed /\ stamped' = stamped
               \/ /\ confirmed' = [confirmed EXCEPT ![x] = IF NeedsUpdate(x, ev) THEN now ELSE @]
                  /\ stamped' = [stamped EXCEPT ![x] = IF NeedsUpdate(x, ev) THEN now ELSE @]
    BY Zenon DEF UpsertNext
  <2> DEFINE ev == [tick[p].list[x] EXCEPT !.extra = IF answered THEN Enhanced ELSE @]
             written == NeedsUpdate(x, ev)
  <2>2. \/ confirmed' = confirmed /\ stamped' = stamped
        \/ /\ confirmed' = [confirmed EXCEPT ![x] = IF written THEN now ELSE @]
           /\ stamped' = [stamped EXCEPT ![x] = IF written THEN now ELSE @]
    BY <2>1
  <2>3. written \in BOOLEAN  BY DEF NeedsUpdate
  <2> HIDE DEF ev, written
  <2> QED  BY <2>1, <2>2, <2>3
<1>2. \A q \in Poller : /\ tick'[q].list = tick[q].list /\ tick'[q].errs = tick[q].errs /\ tick'[q].at = tick[q].at
                        /\ ConfirmedIds(q)' = ConfirmedIds(q)
  <2>1. PICK asked \in BOOLEAN : tick' = [tick EXCEPT ![p].left = @ \ {x}, ![p].budget = IF asked THEN @ - 1 ELSE @]
    BY <1>1
  <2>2. \A q \in Poller : tick'[q].list = tick[q].list /\ tick'[q].errs = tick[q].errs /\ tick'[q].at = tick[q].at
    BY <1>0, <2>1 DEF TickRecord
  <2> QED  BY <2>2 DEF ConfirmedIds, Listed
<1>3. /\ confirmed' \in [Event -> Nat]
      /\ \A e \in Event : \/ confirmed'[e] = confirmed[e] /\ stamped'[e] = stamped[e]
                          \/ confirmed'[e] = now /\ stamped'[e] = now
  <2>1. CASE confirmed' = confirmed /\ stamped' = stamped  BY <1>0, <2>1
  <2>2. ASSUME NEW written \in BOOLEAN, confirmed' = [confirmed EXCEPT ![x] = IF written THEN now ELSE @],
               stamped' = [stamped EXCEPT ![x] = IF written THEN now ELSE @]
        PROVE  /\ confirmed' \in [Event -> Nat]
               /\ \A e \in Event : \/ confirmed'[e] = confirmed[e] /\ stamped'[e] = stamped[e]
                                   \/ confirmed'[e] = now /\ stamped'[e] = now
    <3>1. CASE written  BY <1>0, <2>2, <3>1
    <3>2. CASE ~written  BY <1>0, <2>2, <3>2
    <3> QED  BY <2>2, <3>1, <3>2
  <2> QED  BY <1>1, <2>1, <2>2
<1>4. \A e \in Event : stamped'[e] <= confirmed'[e] /\ confirmed[e] <= confirmed'[e] /\ confirmed'[e] <= now
  BY <1>0, <1>3 DEF ConfirmInv
<1>5. ASSUME NEW q \in Poller, step[q] = "upsert"
      PROVE  tick[q].at <= now /\ \A e \in ConfirmedIds(q) : tick[q].at <= confirmed'[e]
  <2>1. PollConfirmed(q) /\ TickShape(q) /\ tick[q].at \in Nat
    BY <1>0 DEF ConfirmInv, IngestInv, PollerInv, TickRecord
  <2>2. ConfirmedIds(q) \subseteq Event
    BY <1>5, <2>1 DEF TickShape, ConfirmedIds, Listed, PolledLists, EventsOf
  <2>3. \A e \in ConfirmedIds(q) : tick[q].at <= confirmed[e] /\ confirmed[e] <= confirmed'[e]
                                  /\ confirmed[e] \in Nat /\ confirmed'[e] \in Nat
    BY <1>0, <1>3, <1>4, <1>5, <2>1, <2>2 DEF PollConfirmed
  <2> QED  BY <1>5, <2>1, <2>3 DEF PollConfirmed
<1>6. \A q \in Poller : PollConfirmed(q)'
  BY <1>0, <1>2, <1>5 DEF PollConfirmed
<1> QED  BY <1>0, <1>3, <1>4, <1>6 DEF ConfirmInv

\* A stamp tells the store of no more than what was confirmed.
LEMMA TouchConfirms ==
    ASSUME IngestInv, ConfirmInv, NEW p \in Poller, Touch(p) PROVE ConfirmInv'
<1>0. now \in Nat /\ tick \in [Poller -> TickRecord] /\ stamped \in [Event -> Nat] /\ confirmed \in [Event -> Nat]
      /\ step[p] = "upsert" /\ step' = [step EXCEPT ![p] = "supersede"] /\ now' = now /\ confirmed' = confirmed
      /\ step \in [Poller -> {"idle", "upsert", "supersede", "disappear", "health"}]
      /\ tick' = [tick EXCEPT ![p].left = SourcesOf(p)]
  BY DEF IngestInv, IngestTypes, ConfirmInv, Touch, Goto
<1>1. stamped' = stamped \/ stamped' = [e \in Event |->
         IF e \in Listed(p) /\ SourceOf[e] \notin tick[p].errs /\ tick[p].at > stamped[e]
         THEN tick[p].at ELSE stamped[e]]
  BY DEF Touch
<1>2. \A e \in ConfirmedIds(p) : tick[p].at <= confirmed[e]  BY <1>0 DEF ConfirmInv, PollConfirmed
<1>3. \A e \in Event : stamped'[e] = stamped[e] \/ (stamped'[e] = tick[p].at /\ e \in ConfirmedIds(p))
  BY <1>1 DEF ConfirmedIds
<1>4. \A e \in Event : stamped'[e] <= confirmed[e] /\ confirmed[e] <= now  BY <1>2, <1>3 DEF ConfirmInv
<1>5. ASSUME NEW q \in Poller PROVE PollConfirmed(q)'
  <2>1. CASE q = p  BY <1>0, <2>1 DEF PollConfirmed
  <2>2. CASE q # p
    <3>1. tick'[q] = tick[q] /\ step'[q] = step[q]  BY <1>0, <2>2
    <3> QED  BY <1>0, <3>1 DEF ConfirmInv, PollConfirmed, ConfirmedIds, Listed
  <2> QED  BY <2>1, <2>2
<1> QED  BY <1>0, <1>4, <1>5 DEF ConfirmInv

\* The other steps of a tick leave the write path behind or never come to it.
LEMMA QuietConfirms ==
    ASSUME IngestInv, ConfirmInv, NEW p \in Poller,
           \/ PollFails(p) \/ SkipSource(p) \/ Supersede(p) \/ SweepDisappeared(p) \/ SweepDone(p)
           \/ RecordAttempt(p) \/ TickEnds(p) \/ Panic(p)
    PROVE  ConfirmInv'
<1>1. now \in Nat /\ step \in [Poller -> {"idle", "upsert", "supersede", "disappear", "health"}]
      /\ tick \in [Poller -> TickRecord]
  BY DEF IngestInv, IngestTypes
<1>2. UNCHANGED <<confirmed, stamped, now>>
  BY DEF PollFails, SkipSource, Supersede, SweepDisappeared, SweepDone, RecordAttempt, TickEnds, Panic
<1>3. /\ step'[p] # "upsert"
      /\ \A q \in Poller \ {p} : step'[q] = step[q] /\ tick'[q] = tick[q]
  BY <1>1 DEF PollFails, SkipSource, Supersede, SweepDisappeared, SweepDone, RecordAttempt, TickEnds, Panic, Goto, Ends
<1> QED  BY <1>1, <1>2, <1>3, ConfirmKept

LEMMA ConfirmNextInv == ASSUME IngestInv, ConfirmInv, [Next]_vars PROVE ConfirmInv'
<1>0. now \in Nat /\ now + 1 \in Nat /\ now <= now + 1 /\ now <= now  BY DEF IngestInv, IngestTypes
<1>1. ASSUME NEW p \in Poller, Tick(p) PROVE ConfirmInv'
  BY <1>1, PollConfirms, UpsertConfirms, TouchConfirms, QuietConfirms DEF Tick
<1>2. CASE Restart
  <2>1. UNCHANGED <<confirmed, stamped, now>> /\ \A p \in Poller : step'[p] # "upsert"  BY <1>2 DEF Restart
  <2> QED  BY <1>0, <2>1, ConfirmKept
<1>3. CASE Clock  BY <1>0, <1>3, ConfirmKept DEF Clock
<1>4. CASE UNCHANGED vars
  <2>1. UNCHANGED <<confirmed, stamped, now, step, tick>>  BY <1>4 DEF vars, ingestVars
  <2> QED  BY <1>0, <2>1, ConfirmKept
<1> QED  BY <1>1, <1>2, <1>3, <1>4 DEF Next

LEMMA ConfirmInvHolds == Spec => []ConfirmInv
<1>1. Init => ConfirmInv  BY ConfirmInitInv
<1>2. IngestInv /\ ConfirmInv /\ [Next]_vars => ConfirmInv'  BY ConfirmNextInv
<1> QED  BY <1>1, <1>2, IngestInvHolds, PTL DEF Spec

-----------------------------------------------------------------------------
(***************************************************************************)
(* The theorems.                                                           *)
(***************************************************************************)

(* UpsertEvent, TransitionEvents: the newest revision of every event is its  *)
(* row, and the hash stored with it is that of the row, after any sequence of*)
(* upserts, transitions and stamps.                                          *)
THEOREM HistoryTheorem == Spec => []HistoryIsCurrent
<1>1. IngestInv => HistoryIsCurrent  BY DEF IngestInv
<1> QED  BY <1>1, IngestInvHolds, PTL

(* TouchSeen, polledIDs: last_seen_at never runs ahead of the last write or  *)
(* clean listing of an event, whatever fails, and lags the last of these the *)
(* store was told of by no more than the coalescing window.                  *)
THEOREM SeenTheorem == Spec => []SeenTracksConfirmation
<1>1. ASSUME IngestInv, ConfirmInv PROVE SeenTracksConfirmation
  <2> SUFFICES ASSUME NEW e \in Event, Known(e)
               PROVE  rows[e].seen <= confirmed[e] /\ stamped[e] <= rows[e].seen + Coalesce
    BY DEF SeenTracksConfirmation
  <2>1. rows[e].seen <= stamped[e] /\ stamped[e] <= rows[e].seen + Coalesce  BY <1>1 DEF IngestInv, StampsTracked
  <2>2. stamped[e] <= confirmed[e] /\ confirmed[e] \in Nat  BY <1>1 DEF ConfirmInv
  <2>3. rows[e].seen \in Nat /\ stamped[e] \in Nat  BY <1>1, KnownRow DEF IngestInv, IngestTypes, Row
  <2> QED  BY <2>1, <2>2, <2>3
<1> QED  BY <1>1, IngestInvHolds, ConfirmInvHolds, PTL

(* tick: once a tick in which nothing failed comes to its health row, the    *)
(* store is as the poll said, for the events listed and for those that had to*)
(* end.                                                                      *)
THEOREM SettlesTheorem == Spec => []CleanTickSettles
<1>1. ASSUME IngestInv, ConfirmInv, NEW p \in Poller, step[p] = "health", clean[p], NEW e \in DOMAIN tick[p].list
      PROVE  IF e \in Listed(p)
             THEN /\ Known(e)
                  /\ rows[e].content = tick[p].list[e].content
                  /\ rows[e].status = tick[p].list[e].status
                  /\ e \in tick[p].force => rows[e].extra = tick[p].list[e].extra
             ELSE /\ SourceOf[e] \notin tick[p].errs \cup tick[p].suppress
                  /\ \/ Policy[SourceOf[e]] = "resolve"
                     \/ e \in tick[p].superseded
                     \/ ExpireAfter > 0 /\ tick[p].at > confirmed[e] + ExpireAfter
                  => ~Active(e)
  <2>1. StoreTypes /\ PollerInv(p) /\ TickShape(p)  BY <1>1 DEF IngestInv, IngestTypes, PollerInv
  <2>2. e \in Event
    <3>1. tick[p].list \in PolledLists(p) \cup {<<>>}  BY <1>1, <2>1 DEF TickShape
    <3> QED  BY <1>1, <3>1 DEF PolledLists, EventsOf
  <2>3. Known(e) <=> rows[e] \in Row  BY <2>1, <2>2, KnownRow
  <2>4. CASE e \in Listed(p)
    <3>1. Stored(p, e)  BY <1>1, <2>1, <2>4 DEF PollerInv, ListedStored, Done
    <3> QED  BY <2>3, <2>4, <3>1 DEF Stored
  <2>5. CASE e \notin Listed(p)
    <3>1. MustEnd(p, e) => Ended(e)  BY <1>1, <2>1, <2>5 DEF PollerInv, DroppedEnded, ToSweep
    <3>2. stamped[e] <= confirmed[e] /\ confirmed[e] \in Nat  BY <1>1, <2>2 DEF ConfirmInv
    <3>3. stamped[e] \in Nat /\ tick[p].at \in Nat /\ ExpireAfter \in Nat
      BY <1>1, <2>2, IngestAssumption DEF IngestInv, IngestTypes, TickRecord
    <3>4. tick[p].at > confirmed[e] + ExpireAfter => tick[p].at > stamped[e] + ExpireAfter  BY <3>2, <3>3
    <3> QED  BY <2>3, <2>5, <3>1, <3>4 DEF MustEnd, Ended, Active
  <2> QED  BY <2>4, <2>5
<1>2. IngestInv /\ ConfirmInv => CleanTickSettles  BY <1>1 DEF CleanTickSettles
<1> QED  BY <1>2, IngestInvHolds, ConfirmInvHolds, PTL

(* UpsertEvent with matchPlaces: a full reconcile in which nothing failed    *)
(* attaches every event it lists to every seeded place it is near, whatever  *)
(* was stored before.                                                        *)
THEOREM AttachTheorem == Spec => []ReconcileAttaches
<1>1. ASSUME IngestInv, NEW p \in Poller, step[p] = "health", clean[p], tick[p].full, NEW e \in Listed(p)
      PROVE  rows[e].att = MatchPlaces(e)
  <2>1. ListedStored(p)  BY <1>1 DEF IngestInv, PollerInv
  <2> QED  BY <1>1, <2>1 DEF ListedStored, Done, Stored
<1>2. IngestInv => ReconcileAttaches  BY <1>1 DEF ReconcileAttaches
<1> QED  BY <1>2, IngestInvHolds, PTL

\* The steps that write no event.
LEMMA QuietSteps ==
    ASSUME NEW p \in Poller, Poll(p) \/ PollFails(p) \/ SkipSource(p) \/ SweepDone(p) \/ RecordAttempt(p)
                             \/ TickEnds(p) \/ Panic(p)
    PROVE  rows' = rows
BY DEF Poll, PollFails, SkipSource, SweepDone, RecordAttempt, TickEnds, Panic, storeVars

\* A step that ends no event and takes nothing from a row.
RowKept(e) ==
    rows[e] \in Row => /\ rows'[e] \in Row
                       /\ rows[e].status \in LiveStatus => rows'[e].status \in LiveStatus
                       /\ rows'[e].rev = rows[e].rev /\ rows[e].extra # NoExtra => rows'[e].extra # NoExtra

\* Writing what a poll lists keeps every row, live or not.
LEMMA UpsertKeeps ==
    ASSUME IngestInv, NEW p \in Poller, UpsertNext(p), NEW x \in Event PROVE RowKept(x)
<1>0. IngestTypes /\ StoreTypes /\ HistoryIsCurrent /\ now \in Nat /\ step[p] = "upsert"
  BY DEF IngestInv, IngestTypes, UpsertNext
<1>1. PICK e \in tick[p].left, asked \in BOOLEAN, answered \in BOOLEAN :
         LET ev == [tick[p].list[e] EXCEPT !.extra = IF answered THEN Enhanced ELSE @]
         IN /\ answered => asked
            /\ asked => Enhances(p, e)
            /\ Enhances(p, e) => asked \/ Faults
            /\ tick' = [tick EXCEPT ![p].left = @ \ {e},
                                    ![p].budget = IF asked THEN @ - 1 ELSE @]
            /\ IF ShouldUpsert(p, e, ev)
               THEN \/ /\ UpsertEvent(e, ev, now)
                       /\ confirmed' = [confirmed EXCEPT ![e] = IF NeedsUpdate(e, ev) THEN now ELSE @]
                       /\ stamped' = [stamped EXCEPT ![e] = IF NeedsUpdate(e, ev) THEN now ELSE @]
                       /\ Succeeds(p)
                    \/ Fails(p) /\ UNCHANGED <<storeVars, confirmed, stamped>>
               ELSE UNCHANGED <<storeVars, confirmed, stamped>> /\ Succeeds(p)
  BY DEF UpsertNext
<1> DEFINE ev == [tick[p].list[e] EXCEPT !.extra = IF answered THEN Enhanced ELSE @]
<1>2. answered => e \in Alerts  BY <1>1 DEF Enhances
<1>3. e \in Event /\ ev \in Evs  BY <1>0, <1>2, PolledForm
<1>4. UpsertEvent(e, ev, now) \/ rows' = rows  BY <1>1 DEF storeVars
<1> HIDE DEF ev
<1>5. CASE rows' = rows  BY <1>5 DEF RowKept
<1>6. CASE UpsertEvent(e, ev, now)
  <2>1. /\ \A y \in Event \ {e} : rows'[y] = rows[y]
        /\ rows'[e] \in Row /\ rows'[e].status = ev.status
        /\ ~NeedsUpdate(e, ev) /\ rows[e].extra # NoExtra => rows'[e].extra # NoExtra
        /\ NeedsUpdate(e, ev) /\ rows[e] \in Row => rows'[e].rev = rows[e].rev + 1
    BY <1>0, <1>3, <1>6, UpsertEffect
  <2>2. ev.status \in LiveStatus  BY <1>3 DEF Evs
  <2>3. rows[e] \in Row /\ NeedsUpdate(e, ev) => rows'[e].rev # rows[e].rev
    <3> SUFFICES ASSUME rows[e] \in Row, NeedsUpdate(e, ev) PROVE rows'[e].rev # rows[e].rev  OBVIOUS
    <3>1. rows[e].rev \in Nat  BY DEF Row
    <3> QED  BY <2>1, <3>1
  <2>4. CASE x = e  BY <2>1, <2>2, <2>3, <2>4 DEF RowKept
  <2>5. CASE x # e  BY <2>1, <2>5 DEF RowKept
  <2> QED  BY <2>4, <2>5
<1> QED  BY <1>4, <1>5, <1>6

\* So does stamping what was confirmed.
LEMMA TouchKeeps ==
    ASSUME IngestInv, NEW p \in Poller, Touch(p), NEW x \in Event PROVE RowKept(x)
<1>0. IngestTypes /\ StoreTypes /\ HistoryIsCurrent /\ tick[p].at \in Nat /\ step[p] = "upsert"
  BY DEF IngestInv, IngestTypes, Touch, TickRecord
<1>1. TouchSeen(ConfirmedIds(p), tick[p].at, Coalesce) \/ rows' = rows  BY DEF Touch, storeVars
<1>2. ConfirmedIds(p) \in SUBSET Event
  <2>1. tick[p].list \in PolledLists(p)  BY <1>0 DEF IngestInv, PollerInv, TickShape
  <2> QED  BY <2>1 DEF PolledLists, Listed, ConfirmedIds, EventsOf
<1>3. CASE TouchSeen(ConfirmedIds(p), tick[p].at, Coalesce)  BY <1>0, <1>2, <1>3, TouchEffect DEF RowKept
<1> QED  BY <1>1, <1>3 DEF RowKept

\* Of the steps of a process, only the sweep may fail to keep a row.
LEMMA OnlySweepEnds ==
    ASSUME IngestInv, [Next]_vars, NEW x \in Event, ~RowKept(x)
    PROVE  \E p \in Poller : Supersede(p) \/ SweepDisappeared(p)
<1>1. rows' # rows  BY DEF RowKept
<1>2. ~Restart /\ ~Clock /\ ~UNCHANGED vars  BY <1>1 DEF Restart, SeedPlaces, Clock, vars, storeVars
<1>3. PICK p \in Poller : Tick(p)  BY <1>2 DEF Next
<1>4. ~UpsertNext(p) /\ ~Touch(p)  BY UpsertKeeps, TouchKeeps
<1> QED  BY <1>1, <1>3, <1>4, QuietSteps DEF Tick

\* What the two halves of the sweep take out, and on what evidence.
LEMMA SweepEvidence ==
    ASSUME IngestInv, NEW p \in Poller, NEW ids \in SUBSET (EventsOf(p) \ Listed(p)), NEW to \in EndStatus,
           TransitionEvents(ids, to) \/ rows' = rows, NEW x \in Event, rows[x] \in Row
    PROVE  /\ rows'[x].extra = rows[x].extra
           /\ rows[x].status \in LiveStatus /\ ~(rows'[x] \in Row /\ rows'[x].status \in LiveStatus) =>
                x \in ids /\ rows'[x].status = to
<1>1. CASE rows' = rows  BY <1>1
<1>2. CASE TransitionEvents(ids, to)
  <2>1. StoreTypes /\ HistoryIsCurrent /\ ids \in SUBSET Event  BY DEF IngestInv, IngestTypes, EventsOf
  <2>2. /\ \A y \in Event \ ids : rows'[y] = rows[y]
        /\ \A y \in ids : rows[y] \in Row => rows'[y].status = to /\ rows'[y].extra = rows[y].extra
    BY <1>2, <2>1, TransitionEffect
  <2> QED  BY <2>2
<1> QED  BY <1>1, <1>2

(* sweepAbsent, expireStale: whatever fails, and however ticks, panics and   *)
(* restarts interleave, an event leaves the active set only by its own       *)
(* source's clean poll not listing it, and expires only past its expiry or   *)
(* once its grace has run out.                                               *)
THEOREM EvidenceTheorem == Spec => EndsOnEvidence
<1>1. ASSUME IngestInv, [Next]_vars, NEW e \in Event, Active(e), ~Active(e)'
      PROVE  /\ SourceOf[e] \notin tick[PollerOf[SourceOf[e]]].errs \cup tick[PollerOf[SourceOf[e]]].suppress
             /\ e \notin Listed(PollerOf[SourceOf[e]])
             /\ rows'[e].status = "EXPIRED" =>
                   \/ /\ ExpiresAt[rows[e].content] > 0
                      /\ tick[PollerOf[SourceOf[e]]].at > ExpiresAt[rows[e].content]
                   \/ tick[PollerOf[SourceOf[e]]].at + Coalesce > stamped[e] + ExpireAfter
  <2>0. IngestTypes /\ StoreTypes /\ rows[e] \in Row /\ rows[e].status \in LiveStatus
    BY <1>1, KnownRow DEF IngestInv, IngestTypes, Active
  <2>1. StoreTypes'
    BY <1>1, IngestNextInv DEF IngestInv, IngestTypes
  <2>2. ~(rows'[e] \in Row /\ rows'[e].status \in LiveStatus)
    BY <1>1 DEF Active, Known, Row
  <2>3. PICK p \in Poller : Supersede(p) \/ SweepDisappeared(p)
    <3>1. ~RowKept(e)  BY <2>0, <2>2 DEF RowKept
    <3> QED  BY <1>1, <3>1, OnlySweepEnds
  <2> DEFINE s == First(tick[p].left)
  <2>4. step[p] \in {"supersede", "disappear"} /\ tick[p].left # {} /\ Swept(p, s) /\ TickShape(p)
    BY <1>1, <2>3, SweepForm DEF Supersede, IngestInv, PollerInv
  <2>5. s \in SourcesOf(p) /\ ActiveEventsBySource(s) \subseteq EventsOf(p)  BY <1>1, <2>4, SweptSource
  <2>6. CASE Supersede(p)
    <3> DEFINE ids == ActiveEventsBySource(s) \cap tick[p].superseded
    <3>1. TransitionEvents(ids, "RESOLVED") \/ rows' = rows  BY <2>6 DEF Supersede, storeVars
    <3>2. ids \in SUBSET (EventsOf(p) \ Listed(p))  BY <2>4, <2>5 DEF TickShape, Listed
    <3>3. "RESOLVED" \in EndStatus  BY DEF EndStatus
    <3>4. ids \subseteq ActiveEventsBySource(s)  OBVIOUS
    <3> HIDE DEF ids
    <3>5. e \in ids /\ rows'[e].status = "RESOLVED"  BY <1>1, <2>0, <2>2, <3>1, <3>2, <3>3, SweepEvidence
    <3>6. SourceOf[e] = s /\ PollerOf[SourceOf[e]] = p  BY <2>5, <3>4, <3>5 DEF ActiveEventsBySource, SourcesOf
    <3> QED  BY <2>4, <3>2, <3>5, <3>6 DEF Swept
  <2>7. CASE SweepDisappeared(p)
    <3>1. /\ TransitionEvents(SweptIds(p), SweptTo(p)) \/ rows' = rows
          /\ SweptIds(p) \in SUBSET (EventsOf(p) \ Listed(p)) /\ SweptTo(p) \in EndStatus
      BY <1>1, <2>7, SweepForm DEF storeVars
    <3>2. e \in SweptIds(p) /\ rows'[e].status = SweptTo(p)  BY <1>1, <2>0, <2>2, <3>1, SweepEvidence
    <3>3. e \in ActiveEventsBySource(s) /\ (rows'[e].status = "EXPIRED" => ShouldExpire(e, tick[p].at))
      BY <3>2 DEF SweptIds, SweptTo
    <3>4. SourceOf[e] = s /\ PollerOf[SourceOf[e]] = p  BY <2>5, <3>3 DEF ActiveEventsBySource, SourcesOf
    <3>5. stamped[e] <= rows[e].seen + Coalesce  BY <1>1 DEF IngestInv, StampsTracked, Active
    <3>6. /\ rows[e].seen \in Nat /\ stamped[e] \in Nat /\ tick[p].at \in Nat
          /\ ExpireAfter \in Nat /\ Coalesce \in Nat
      BY <2>0, IngestAssumption DEF Row, IngestTypes, TickRecord
    <3>7. ExpireAfter > 0 /\ tick[p].at > rows[e].seen + ExpireAfter => tick[p].at + Coalesce > stamped[e] + ExpireAfter
      BY <3>5, <3>6
    <3> QED  BY <2>4, <3>1, <3>2, <3>3, <3>4, <3>7 DEF Swept, ShouldExpire
  <2> QED  BY <2>3, <2>6, <2>7
<1> DEFINE Evidence ==
       \A e \in Event : LET p == PollerOf[SourceOf[e]] IN
          Active(e) /\ ~Active(e)' =>
              /\ SourceOf[e] \notin tick[p].errs \cup tick[p].suppress
              /\ e \notin Listed(p)
              /\ rows'[e].status = "EXPIRED" =>
                    \/ ExpiresAt[rows[e].content] > 0 /\ tick[p].at > ExpiresAt[rows[e].content]
                    \/ tick[p].at + Coalesce > stamped[e] + ExpireAfter
<1>2. IngestInv /\ [Next]_vars => [Evidence]_vars  BY <1>1
<1> QED  BY <1>2, IngestInvHolds, PTL DEF Spec, EndsOnEvidence

(* UpsertEvent: hash-excluded content stays with its revision; no poll without*)
(* it, no transition and no stamp erases an enhancement or telemetry.        *)
THEOREM ExtraTheorem == Spec => ExtraIsKept
<1>1. ASSUME IngestInv, [Next]_vars, NEW e \in Event, Known(e), rows'[e].rev = rows[e].rev, rows[e].extra # NoExtra
      PROVE  rows'[e].extra # NoExtra
  <2>0. rows[e] \in Row  BY <1>1, KnownRow DEF IngestInv, IngestTypes
  <2>1. CASE RowKept(e)  BY <1>1, <2>0, <2>1 DEF RowKept
  <2>2. CASE ~RowKept(e)
    <3>1. PICK p \in Poller : Supersede(p) \/ SweepDisappeared(p)  BY <1>1, <2>2, OnlySweepEnds
    <3>2. CASE Supersede(p)
      <4> DEFINE ids == ActiveEventsBySource(First(tick[p].left)) \cap tick[p].superseded
      <4>1. step[p] = "supersede" /\ tick[p].left # {} /\ TickShape(p)  BY <1>1, <3>2 DEF Supersede, IngestInv, PollerInv
      <4>2. TransitionEvents(ids, "RESOLVED") \/ rows' = rows  BY <3>2 DEF Supersede, storeVars
      <4>3. ids \in SUBSET (EventsOf(p) \ Listed(p))
        <5>1. ActiveEventsBySource(First(tick[p].left)) \subseteq EventsOf(p)  BY <1>1, <4>1, SweptSource
        <5> QED  BY <4>1, <5>1 DEF TickShape, Listed
      <4>4. "RESOLVED" \in EndStatus  BY DEF EndStatus
      <4> HIDE DEF ids
      <4> QED  BY <1>1, <2>0, <4>2, <4>3, <4>4, SweepEvidence
    <3>3. CASE SweepDisappeared(p)
      <4>1. /\ TransitionEvents(SweptIds(p), SweptTo(p)) \/ rows' = rows
            /\ SweptIds(p) \in SUBSET (EventsOf(p) \ Listed(p)) /\ SweptTo(p) \in EndStatus
        BY <1>1, <3>3, SweepForm DEF storeVars
      <4> QED  BY <1>1, <2>0, <4>1, SweepEvidence
    <3> QED  BY <3>1, <3>2, <3>3
  <2> QED  BY <2>1, <2>2
<1> DEFINE Kept == \A e \in Event : Known(e) /\ rows'[e].rev = rows[e].rev /\ rows[e].extra # NoExtra =>
                       rows'[e].extra # NoExtra
<1>2. IngestInv /\ [Next]_vars => [Kept]_vars  BY <1>1
<1> QED  BY <1>2, IngestInvHolds, PTL DEF Spec, ExtraIsKept
=============================================================================
