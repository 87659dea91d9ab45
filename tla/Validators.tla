----------------------------- MODULE Validators -----------------------------
(***************************************************************************)
(* Conditional GETs of the read API (internal/gridapi/grpc.go) over the    *)
(* store: the weak ETag of a response is built from version counters that  *)
(* are read before the query, one after the other, while pollers write.    *)
(* A rewrite without a revision (UpsertEvent's hash-equal path, a mesh     *)
(* tick) commits first and bumps its in-process counter afterwards, so a   *)
(* request, or a crash, may fall between the two.                          *)
(*                                                                         *)
(* One client is enough: requests only read.  It keeps one answer and asks *)
(* the same again with its tag; who asks something else is another client. *)
(***************************************************************************)
EXTENDS EventStore, Functions

CONSTANTS Layer, Mesh,     \* layers, and the ones whose events carry activity clocks
          LayerOf,         \* [Event -> Layer]
          Query,           \* the requests of this instance
          Nil,
          MaxRev, MaxBoot  \* bounds of the instance

ASSUME ValidatorsAssumption ==
    /\ IsFiniteSet(Layer) /\ Mesh \subseteq Layer
    /\ LayerOf \in [Event -> Layer]
    /\ MaxRev \in Nat /\ MaxBoot \in Nat

\* The validated routes: two lists over layers, two over one event, the directory.
ASSUME QueryAssumption ==
    /\ Query # {}
    /\ \A q \in Query :
        \/ q.kind \in {"ListEvents", "ListHistory"} /\ q.layers \subseteq Layer
        \/ q.kind \in {"GetEvent", "GetEventHistory"} /\ q.id \in Event
        \/ q.kind = "ListPlaces"

VARIABLES refreshVersions,      \* [Layer -> Store.refreshVersions], of this process
          meshActivityVersion,  \* of this process
          owed,                 \* [Layer -> rewrites committed and not yet counted]
          meshOwed,
          activity,             \* mesh_activity: one node's clocks, as a counter
          placesVersion,        \* the per-process nonce
          req,                  \* the request being answered
          cached                \* the client's copy of an earlier answer

validatorVars == <<refreshVersions, meshActivityVersion, owed, meshOwed, activity,
                   placesVersion, req, cached>>
vars == <<storeVars, validatorVars>>

Idle == [step |-> "idle"]

Init ==
    /\ StoreInit
    /\ refreshVersions     = [l \in Layer |-> 0]
    /\ meshActivityVersion = 0
    /\ owed                = [l \in Layer |-> 0]
    /\ meshOwed            = 0
    /\ activity            = [e \in Event |-> 0]
    /\ placesVersion       = 0
    /\ req                 = Idle
    /\ cached              = Nil

-----------------------------------------------------------------------------
(***************************************************************************)
(* What a request is about, its validator and its answer.                  *)
(***************************************************************************)
IsMesh(e) == LayerOf[e] \in Mesh

\* layersIncludeMesh
IncludesMesh(q) == q.layers \cap Mesh # {}

Matches(e, q) ==
    /\ Known(e) /\ LayerOf[e] \in q.layers
    /\ q.place # Nil => q.place \in rows[e].att

Blob(e) == [rev |-> rows[e].rev, status |-> rows[e].status, content |-> rows[e].content,
            extra |-> rows[e].extra, att |-> rows[e].att]

\* What the query itself returns.  Revision snapshots are immutable: a number
\* stands for an event's history.
Result(q) ==
    CASE q.kind = "ListEvents" ->
            [e \in {e \in Event : Matches(e, q) /\ rows[e].status \in q.status} |-> Blob(e)]
      [] q.kind = "ListHistory"     -> [e \in {e \in Event : Matches(e, q)} |-> rows[e].rev]
      [] q.kind = "GetEvent"        -> IF Known(q.id) THEN Blob(q.id) ELSE Nil
      [] q.kind = "GetEventHistory" -> rows[q.id].rev
      [] q.kind = "ListPlaces"      -> places

\* overlayMeshActivity: the clocks stamped on the mesh events of a result.
Overlay(q, result) ==
    CASE q.kind = "ListEvents" -> [e \in {e \in DOMAIN result : IsMesh(e)} |-> activity[e]]
      [] q.kind = "GetEvent" /\ IsMesh(q.id) -> activity[q.id]
      [] OTHER -> 0

Body(q) == <<Result(q), Overlay(q, Result(q))>>

\* RefreshVersion(layers)
RefreshVersion(layers) == SumFunctionOnSet(refreshVersions, layers)

\* Mutant: the place filter does not fold in the refreshes.
RefreshPartUnplaced(q) == IF q.kind = "ListEvents" THEN RefreshVersion(q.layers) ELSE 0

DataPart(q) ==
    CASE q.kind \in {"ListEvents", "ListHistory"} -> dataCount
      [] q.kind = "GetEvent"        -> IF Known(q.id) THEN <<rows[q.id].rev, rows[q.id].fresh>> ELSE 0
      [] q.kind = "GetEventHistory" -> rows[q.id].rev
      [] q.kind = "ListPlaces"      -> 0

RefreshPart(q) ==
    IF q.kind = "ListEvents" \/ (q.kind = "ListHistory" /\ q.place # Nil)
    THEN RefreshVersion(q.layers) ELSE 0

MeshPart(q) ==
    CASE q.kind = "ListEvents" /\ IncludesMesh(q) -> meshActivityVersion
      [] q.kind = "GetEvent" /\ IsMesh(q.id)      -> activity[q.id]
      [] OTHER -> 0

TagOf(q) == [q |-> q, nonce |-> placesVersion, data |-> DataPart(q), refresh |-> RefreshPart(q),
             mesh |-> MeshPart(q)]

\* A write of one of the request's layers is committed and not yet counted.
Uncounted(q) ==
    \/ q.kind \in {"ListEvents", "ListHistory"} /\ \E l \in q.layers : owed[l] > 0
    \/ q.kind = "ListEvents" /\ IncludesMesh(q) /\ meshOwed > 0

-----------------------------------------------------------------------------
(***************************************************************************)
(* A request: the counters in the order the handler reads them, the guard, *)
(* the query, the overlay.                                                 *)
(***************************************************************************)
\* was is history: what the answer would have been when the first counter was
\* read.  The parts of the tag, and the result, are 0 until they are read.
Start ==
    /\ req = Idle
    /\ \E q \in Query :
         /\ cached # Nil => q = cached.tag.q
         /\ q.kind \in {"GetEvent", "GetEventHistory"} => Known(q.id)      \* else 404
         /\ req' = [step |-> "refresh", q |-> q,
                    tag |-> [q |-> q, nonce |-> placesVersion, data |-> DataPart(q), refresh |-> 0, mesh |-> 0],
                    result |-> 0, was |-> Body(q), uncounted |-> Uncounted(q)]
    /\ UNCHANGED <<storeVars, refreshVersions, meshActivityVersion, owed, meshOwed, activity,
                   placesVersion, cached>>

ReadRefresh ==
    /\ req.step = "refresh"
    /\ req' = [req EXCEPT !.step = "mesh", !.tag.refresh = RefreshPart(req.q)]
    /\ UNCHANGED <<storeVars, refreshVersions, meshActivityVersion, owed, meshOwed, activity,
                   placesVersion, cached>>

\* The tag with its last part.  GetEvent's activity read may fail: its tag then
\* says none, and its body will.
FullTag(failed) == [req.tag EXCEPT !.mesh = IF failed THEN 0 ELSE MeshPart(req.q)]

MayFail == req.q.kind = "GetEvent" /\ IsMesh(req.q.id)

\* etag.Guard: the client's tag is the answer's.
NotModified ==
    /\ req.step = "mesh" /\ cached # Nil
    /\ \E failed \in BOOLEAN : (failed => MayFail) /\ cached.tag = FullTag(failed)
    /\ req' = Idle
    /\ UNCHANGED <<storeVars, refreshVersions, meshActivityVersion, owed, meshOwed, activity,
                   placesVersion, cached>>

Guard ==
    /\ req.step = "mesh"
    /\ \E failed \in BOOLEAN :
         /\ failed => MayFail
         /\ cached # Nil => cached.tag # FullTag(failed)
         /\ req' = [req EXCEPT !.step = "query", !.tag = FullTag(failed)]
    /\ UNCHANGED <<storeVars, refreshVersions, meshActivityVersion, owed, meshOwed, activity,
                   placesVersion, cached>>

\* The query.  A list goes on to its overlay; GetEvent's was read with its tag.
Load ==
    /\ req.step = "query"
    /\ IF req.q.kind = "ListEvents"
       THEN /\ req' = [req EXCEPT !.step = "overlay", !.result = Result(req.q)]
            /\ UNCHANGED cached
       ELSE /\ cached' = [tag |-> req.tag,
                          body |-> <<Result(req.q), req.tag.mesh>>,
                          degraded |-> FALSE]
            /\ req' = Idle
    /\ UNCHANGED <<storeVars, refreshVersions, meshActivityVersion, owed, meshOwed, activity, placesVersion>>

\* A failed activity read serves the list without it.
Respond ==
    /\ req.step = "overlay"
    /\ \E failed \in BOOLEAN :
         LET full == Overlay(req.q, req.result)
         IN /\ failed => DOMAIN full # {}
            /\ cached' = [tag |-> req.tag, degraded |-> failed,
                          body |-> <<req.result, IF failed THEN [e \in DOMAIN full |-> 0] ELSE full>>]
    /\ req' = Idle
    /\ UNCHANGED <<storeVars, refreshVersions, meshActivityVersion, owed, meshOwed, activity, placesVersion>>

-----------------------------------------------------------------------------
(***************************************************************************)
(* The writers, and the process.                                           *)
(***************************************************************************)
Upsert ==
    /\ \E e \in Event, ev \in Evs :
         /\ (IF NeedsUpdate(e, ev) THEN rows[e].rev ELSE rows[e].fresh) < MaxRev
         /\ UpsertEvent(e, ev, 0)
         /\ owed' = [owed EXCEPT ![LayerOf[e]] = IF Rewrites(e, ev) THEN @ + 1 ELSE @]
    /\ UNCHANGED <<refreshVersions, meshActivityVersion, meshOwed, activity, placesVersion, req, cached>>

\* bumpRefreshVersion, after the commit.
BumpRefreshVersion ==
    /\ \E l \in Layer :
         /\ owed[l] > 0
         /\ owed' = [owed EXCEPT ![l] = @ - 1]
         /\ refreshVersions' = [refreshVersions EXCEPT ![l] = @ + 1]
    /\ UNCHANGED <<storeVars, meshActivityVersion, meshOwed, activity, placesVersion, req, cached>>

Transition ==
    /\ \E e \in Event, to \in EndStatus :
         /\ Active(e) /\ rows[e].rev < MaxRev
         /\ TransitionEvents({e}, to)
    /\ UNCHANGED validatorVars

\* RecordMeshTick: MAX merges the clocks, so they only move forward; the bump follows.
RecordMeshTick ==
    /\ \E e \in Event :
         /\ IsMesh(e) /\ activity[e] < MaxRev
         /\ activity' = [activity EXCEPT ![e] = @ + 1]
    /\ meshOwed' = meshOwed + 1
    /\ UNCHANGED <<storeVars, refreshVersions, meshActivityVersion, owed, placesVersion, req, cached>>

BumpMeshActivity ==
    /\ meshOwed > 0
    /\ meshOwed' = meshOwed - 1
    /\ meshActivityVersion' = meshActivityVersion + 1
    /\ UNCHANGED <<storeVars, refreshVersions, owed, activity, placesVersion, req, cached>>

\* Mutant: the nonce of the process is a fixed string.
RestartSameNonce ==
    /\ placesVersion < MaxBoot
    /\ \E new \in SUBSET Place : SeedPlaces(new)
    /\ refreshVersions'     = [l \in Layer |-> 0]
    /\ owed'                = [l \in Layer |-> 0]
    /\ meshActivityVersion' = 0
    /\ meshOwed'            = 0
    /\ req'                 = Idle
    /\ UNCHANGED <<activity, placesVersion, cached>>

\* Another process on the same database: counters at zero, a nonce never used before.
Restart ==
    /\ placesVersion < MaxBoot
    /\ placesVersion' = placesVersion + 1
    /\ \E new \in SUBSET Place : SeedPlaces(new)
    /\ refreshVersions'     = [l \in Layer |-> 0]
    /\ owed'                = [l \in Layer |-> 0]
    /\ meshActivityVersion' = 0
    /\ meshOwed'            = 0
    /\ req'                 = Idle
    /\ UNCHANGED <<activity, cached>>

Next ==
    \/ Start \/ ReadRefresh \/ NotModified \/ Guard \/ Load \/ Respond
    \/ Upsert \/ BumpRefreshVersion \/ Transition \/ RecordMeshTick \/ BumpMeshActivity
    \/ Restart

Spec == Init /\ [][Next]_vars

-----------------------------------------------------------------------------
(***************************************************************************)
(* Properties.                                                             *)
(***************************************************************************)
(* A copy whose tag is the one the server would give now is the answer it    *)
(* would give now, whichever write came between the counters and the query,  *)
(* and whatever crash lost a bump: except while a committed rewrite is still *)
(* to be counted (ListEvents, GetEvent, ListHistory, bumpRefreshVersion).    *)
TagMeansBody ==
    cached # Nil /\ ~cached.degraded =>
        LET q == cached.tag.q
        IN cached.tag = TagOf(q) /\ ~Uncounted(q) => cached.body = Body(q)

(* A 304 is true of the moment the request began, though its counters were   *)
(* read at different moments: then the client's copy was the answer, unless  *)
(* a rewrite was still to be counted.  A failed read of a node's clocks may  *)
(* confirm a copy without them (etag.Guard, GetEvent).                       *)
NotModifiedIsCurrent ==
    [][NotModified /\ ~req.uncounted /\ ~cached.degraded =>
          /\ cached.body[1] = req.was[1]
          /\ cached.body[2] = req.was[2] \/ (req.q.kind = "GetEvent" /\ cached.body[2] = 0)]_vars

=============================================================================
