----------------------------- MODULE EventStore -----------------------------
(***************************************************************************)
(* The event tables of internal/store: one row per event, the append-only  *)
(* revision history, and the place directory events are attached to.       *)
(* Every write runs in one transaction under Store.mu, so each operation   *)
(* is one step; the ones that can fail leave everything as it was.         *)
(*                                                                         *)
(* A row's content stands for everything ContentHash covers except the     *)
(* status, its extra for what the hash leaves out and a poll may carry     *)
(* (enhancement and summary, mesh telemetry, burn observations).           *)
(***************************************************************************)
EXTENDS Naturals, FiniteSets

CONSTANTS Event,      \* event ids
          Content,    \* hashed contents
          Extra,      \* hash-excluded contents
          Place,      \* places that may be seeded
          Near,       \* the places each event's geometry attaches it to (caller presets,
                      \* which are always attached, are left out)
          NoExtra     \* a poll that carries no hash-excluded content

ASSUME EventStoreAssumption ==
    /\ Near \in [Event -> SUBSET Place]
    /\ NoExtra \notin Extra

VARIABLES rows,       \* events
          snaps,      \* the newest event_revisions row of each event
          dataCount,  \* COUNT(*) of event_revisions: DataVersion
          places      \* places

storeVars == <<rows, snaps, dataCount, places>>

LiveStatus == {"ACTIVE", "SCHEDULED"}
EndStatus  == {"RESOLVED", "EXPIRED"}
EventStatus == LiveStatus \cup EndStatus

\* What a poll says of one event.
Evs == [content : Content, status : LiveStatus, extra : Extra \cup {NoExtra}]

\* ContentHash, taken to be injective.
ContentHash(content, status) == <<content, status>>

NoRow  == [rev |-> 0]
NoSnap == [rev |-> 0]

Known(e)  == rows[e].rev > 0
Active(e) == Known(e) /\ rows[e].status \in LiveStatus

StoreInit ==
    /\ rows      = [e \in Event |-> NoRow]
    /\ snaps     = [e \in Event |-> NoSnap]
    /\ dataCount = 0
    /\ places    = {}

-----------------------------------------------------------------------------
(***************************************************************************)
(* UpsertEvent: a new row or a new revision when the hash is new, else the *)
(* hash-equal path, which may rewrite the blob in place.                   *)
(***************************************************************************)
\* matchPlaces: the places of the directory the event's geometry is near.
MatchPlaces(e) == Near[e] \cap places

\* NeedsUpdate: the row is unknown or its hash is not the event's.
NeedsUpdate(e, ev) == Known(e) => rows[e].hash # ContentHash(ev.content, ev.status)

Revised(e, ev, t) ==
    [rev |-> rows[e].rev + 1, status |-> ev.status, content |-> ev.content,
     hash |-> ContentHash(ev.content, ev.status), extra |-> ev.extra,
     att |-> MatchPlaces(e), seen |-> t,
     fresh |-> IF Known(e) THEN rows[e].fresh ELSE 0]

\* refreshEventPlaces: attachments follow the places, hash-excluded content is
\* replaced only by what the event carries, refreshes counts the rewrite.
Refreshed(e, ev) ==
    [rows[e] EXCEPT !.att = MatchPlaces(e),
                    !.extra = IF ev.extra = NoExtra THEN @ ELSE ev.extra,
                    !.fresh = @ + 1]

Rewrites(e, ev) ==
    /\ ~NeedsUpdate(e, ev)
    /\ rows[e].att # MatchPlaces(e) \/ ev.extra \notin {NoExtra, rows[e].extra}

InsertRevision(ids) ==
    /\ snaps' = [e \in Event |->
                    IF e \in ids THEN [rev |-> rows'[e].rev, status |-> rows'[e].status,
                                       content |-> rows'[e].content]
                    ELSE snaps[e]]
    /\ dataCount' = dataCount + Cardinality(ids)

UpsertEvent(e, ev, t) ==
    /\ rows' = [rows EXCEPT ![e] = IF NeedsUpdate(e, ev) THEN Revised(e, ev, t)
                                   ELSE IF Rewrites(e, ev) THEN Refreshed(e, ev)
                                   ELSE @]
    /\ InsertRevision(IF NeedsUpdate(e, ev) THEN {e} ELSE {})
    /\ UNCHANGED places

(***************************************************************************)
(* TransitionEvents, TouchSeen and the seeding of places.                  *)
(***************************************************************************)
Moved(ids, to) == {e \in ids : Known(e) /\ rows[e].status # to}

\* Mutant: the hash of the row is not recomputed.
TransitionEventsStale(ids, to) ==
    /\ rows' = [e \in Event |-> IF e \in Moved(ids, to)
                                THEN [rows[e] EXCEPT !.status = to, !.rev = @ + 1]
                                ELSE rows[e]]
    /\ InsertRevision(Moved(ids, to))
    /\ UNCHANGED places

TransitionEvents(ids, to) ==
    /\ rows' = [e \in Event |-> IF e \in Moved(ids, to)
                                THEN [rows[e] EXCEPT !.status = to, !.rev = @ + 1,
                                                     !.hash = ContentHash(rows[e].content, to)]
                                ELSE rows[e]]
    /\ InsertRevision(Moved(ids, to))
    /\ UNCHANGED places

\* One UPDATE: rows stamped before the cutoff t - coalesce are stamped t.
TouchSeen(ids, t, coalesce) ==
    /\ rows' = [e \in Event |-> IF e \in ids /\ Known(e) /\ rows[e].seen + coalesce < t
                                THEN [rows[e] EXCEPT !.seen = t] ELSE rows[e]]
    /\ UNCHANGED <<snaps, dataCount, places>>

\* UpsertPlace, for the places a boot seeds: none is ever removed.
SeedPlaces(new) ==
    /\ places' = places \cup new
    /\ UNCHANGED <<rows, snaps, dataCount>>

-----------------------------------------------------------------------------
RowTypeOK ==
    /\ \A e \in Event : Known(e) =>
          /\ rows[e].status \in EventStatus /\ rows[e].content \in Content
          /\ rows[e].extra \in Extra \cup {NoExtra}
          /\ rows[e].att \subseteq places
          /\ {rows[e].rev, rows[e].seen, rows[e].fresh} \subseteq Nat
    /\ dataCount \in Nat
    /\ places \subseteq Place

(* History and row agree: the newest snapshot is the row's revision with its *)
(* content and status, and the hash is that of the stored blob, through      *)
(* upserts, refreshes and lifecycle transitions (insertRevision).            *)
HistoryIsCurrent ==
    \A e \in Event : Known(e) =>
        /\ snaps[e] = [rev |-> rows[e].rev, status |-> rows[e].status, content |-> rows[e].content]
        /\ rows[e].hash = ContentHash(rows[e].content, rows[e].status)
=============================================================================
