-------------------------- MODULE ValidatorsProofs --------------------------
(***************************************************************************)
(* What a tag of the read API vouches for, for any set of layers, events   *)
(* and requests, whatever is written while the counters are read.          *)
(***************************************************************************)
EXTENDS Validators, FiniteSums

Row == [rev : Nat \ {0}, status : EventStatus, content : Content, hash : Content \X EventStatus,
        extra : Extra \cup {NoExtra}, att : SUBSET Place, seen : Nat, fresh : Nat]

ServerTypes ==
    /\ rows \in [Event -> {NoRow} \cup Row]
    /\ dataCount \in Nat
    /\ places \subseteq Place
    /\ refreshVersions \in [Layer -> Nat] /\ owed \in [Layer -> Nat]
    /\ meshActivityVersion \in Nat /\ meshOwed \in Nat
    /\ activity \in [Event -> Nat]
    /\ placesVersion \in Nat

-----------------------------------------------------------------------------
(***************************************************************************)
(* What a tag is measured against: the writes that are committed, counted  *)
(* or not.  Within a process none of the three ever falls.                 *)
(***************************************************************************)
FoldsRefreshes(q) == q.kind = "ListEvents" \/ (q.kind = "ListHistory" /\ q.place # Nil)

DataLevel(q) ==
    CASE q.kind \in {"ListEvents", "ListHistory"} -> dataCount
      [] q.kind = "GetEvent"        -> IF Known(q.id) THEN rows[q.id].rev + rows[q.id].fresh ELSE 0
      [] q.kind = "GetEventHistory" -> rows[q.id].rev
      [] q.kind = "ListPlaces"      -> 0

Rewritten == [l \in Layer |-> refreshVersions[l] + owed[l]]
RefreshLevel(q) == IF FoldsRefreshes(q) THEN SumFunctionOnSet(Rewritten, q.layers) ELSE 0

MeshLevel(q) ==
    CASE q.kind = "ListEvents" /\ IncludesMesh(q) -> meshActivityVersion + meshOwed
      [] q.kind = "GetEvent" /\ IsMesh(q.id)      -> activity[q.id]
      [] OTHER -> 0

\* A result of a list holds events of the layers that were asked for.
InLayers(q, result) ==
    q.kind = "ListEvents" => DOMAIN result \subseteq {e \in Event : LayerOf[e] \in q.layers}

\* One step of a process that goes on: nothing falls, and what does not rise
\* leaves the answer as it was.
Steady(q) ==
    /\ placesVersion' = placesVersion
    /\ DataLevel(q) <= DataLevel(q)' /\ RefreshLevel(q) <= RefreshLevel(q)' /\ MeshLevel(q) <= MeshLevel(q)'
    /\ RefreshPart(q) <= RefreshPart(q)' /\ MeshPart(q) <= MeshPart(q)'
    /\ DataLevel(q)' = DataLevel(q) /\ RefreshLevel(q)' = RefreshLevel(q) => Result(q)' = Result(q)
    /\ MeshLevel(q)' = MeshLevel(q) => \A r : InLayers(q, r) => Overlay(q, r)' = Overlay(q, r)

LEMMA QueryShape ==
    ASSUME NEW q \in Query
    PROVE  /\ q.kind \in {"ListEvents", "ListHistory", "GetEvent", "GetEventHistory", "ListPlaces"}
           /\ q.kind \in {"ListEvents", "ListHistory"} => q.layers \subseteq Layer /\ IsFiniteSet(q.layers)
           /\ q.kind \in {"GetEvent", "GetEventHistory"} => q.id \in Event
<1>1. \/ q.kind \in {"ListEvents", "ListHistory"} /\ q.layers \subseteq Layer
      \/ q.kind \in {"GetEvent", "GetEventHistory"} /\ q.id \in Event
      \/ q.kind = "ListPlaces"
  BY QueryAssumption
<1>2. q.kind \in {"ListEvents", "ListHistory"} => q.layers \subseteq Layer  BY <1>1
<1>3. q.kind \in {"ListEvents", "ListHistory"} => IsFiniteSet(q.layers)
  BY <1>2, ValidatorsAssumption, FS_Subset
<1> QED  BY <1>1, <1>2, <1>3

LEMMA RowShape ==
    ASSUME ServerTypes, NEW e \in Event
    PROVE  /\ rows[e].rev \in Nat
           /\ Known(e) <=> rows[e] \in Row
           /\ rows[e] \in Row => rows[e].fresh \in Nat /\ rows[e].rev \in Nat \ {0}
BY DEF ServerTypes, Known, Row, NoRow

\* A sum of counters, and of the rewrites behind them.
LEMMA RefreshLevels ==
    ASSUME ServerTypes, NEW q \in Query
    PROVE  /\ RefreshLevel(q) \in Nat /\ RefreshPart(q) \in Nat /\ RefreshPart(q) <= RefreshLevel(q)
           /\ ~Uncounted(q) => RefreshPart(q) = RefreshLevel(q)
<1>1. CASE ~FoldsRefreshes(q)
  BY <1>1 DEF FoldsRefreshes, RefreshLevel, RefreshPart
<1>2. CASE FoldsRefreshes(q)
  <2>1. q.layers \subseteq Layer /\ IsFiniteSet(q.layers) /\ q.kind \in {"ListEvents", "ListHistory"}
    BY <1>2, QueryShape DEF FoldsRefreshes
  <2>2. RefreshLevel(q) = SumFunctionOnSet(Rewritten, q.layers)
        /\ RefreshPart(q) = SumFunctionOnSet(refreshVersions, q.layers)
    BY <1>2 DEF FoldsRefreshes, RefreshLevel, RefreshPart, RefreshVersion
  <2>3. \A l \in q.layers : /\ refreshVersions[l] \in Nat /\ Rewritten[l] \in Nat
                            /\ refreshVersions[l] <= Rewritten[l]
    BY <2>1 DEF ServerTypes, Rewritten
  <2>4. SumFunctionOnSet(Rewritten, q.layers) \in Nat /\ SumFunctionOnSet(refreshVersions, q.layers) \in Nat
    BY <2>1, <2>3, SumType
  <2>5. SumFunctionOnSet(refreshVersions, q.layers) <= SumFunctionOnSet(Rewritten, q.layers)
    BY <2>1, <2>3, SumGrows
  <2>6. ASSUME ~Uncounted(q)
        PROVE  SumFunctionOnSet(Rewritten, q.layers) = SumFunctionOnSet(refreshVersions, q.layers)
    <3>1. \A l \in q.layers : ~(owed[l] > 0)  BY <2>1, <2>6 DEF Uncounted
    <3>2. \A l \in q.layers : refreshVersions[l] \in Nat /\ Rewritten[l] = refreshVersions[l]
      BY <2>1, <3>1 DEF ServerTypes, Rewritten
    <3> QED  BY <2>1, <3>2, SumSame
  <2> QED  BY <2>2, <2>4, <2>5, <2>6
<1> QED  BY <1>1, <1>2

LEMMA MeshLevels ==
    ASSUME ServerTypes, NEW q \in Query
    PROVE  /\ MeshLevel(q) \in Nat /\ MeshPart(q) \in Nat /\ MeshPart(q) <= MeshLevel(q)
           /\ ~Uncounted(q) => MeshPart(q) = MeshLevel(q)
           /\ q.kind # "ListEvents" => MeshPart(q) = MeshLevel(q) /\ \A r : Overlay(q, r) = MeshLevel(q)
<1> USE QueryShape DEF ServerTypes, MeshLevel, MeshPart, Overlay
<1>1. CASE q.kind = "ListEvents" /\ IncludesMesh(q)  BY <1>1 DEF Uncounted
<1>2. CASE q.kind = "GetEvent" /\ IsMesh(q.id)
  <2>1. q.id \in Event  BY <1>2
  <2> QED  BY <1>2, <2>1
<1>3. CASE ~(q.kind = "ListEvents" /\ IncludesMesh(q)) /\ ~(q.kind = "GetEvent" /\ IsMesh(q.id))  BY <1>3
<1> QED  BY <1>1, <1>2, <1>3

LEMMA DataLevels == ASSUME ServerTypes, NEW q \in Query PROVE DataLevel(q) \in Nat
<1>1. CASE q.kind \in {"ListEvents", "ListHistory"}  BY <1>1 DEF DataLevel, ServerTypes
<1>2. CASE q.kind = "GetEvent"
  <2>1. q.id \in Event  BY <1>2, QueryShape
  <2> QED  BY <1>2, <2>1, RowShape DEF DataLevel
<1>3. CASE q.kind = "GetEventHistory"
  <2>1. q.id \in Event  BY <1>3, QueryShape
  <2> QED  BY <1>3, <2>1, RowShape DEF DataLevel
<1>4. CASE q.kind = "ListPlaces"  BY <1>4 DEF DataLevel
<1> QED  BY <1>1, <1>2, <1>3, <1>4, QueryShape

-----------------------------------------------------------------------------
(***************************************************************************)
(* Every write of a process that goes on is steady.                        *)
(***************************************************************************)
\* Counters that stay or grow, with what they count.
LEMMA RefreshRises ==
    ASSUME ServerTypes, ServerTypes', NEW q \in Query,
           \A l \in Layer : refreshVersions[l] <= refreshVersions'[l],
           \A l \in Layer : Rewritten[l] <= Rewritten'[l]
    PROVE  /\ RefreshPart(q) <= RefreshPart(q)' /\ RefreshLevel(q) <= RefreshLevel(q)'
           /\ FoldsRefreshes(q) /\ RefreshLevel(q)' = RefreshLevel(q) =>
                 \A l \in q.layers : Rewritten'[l] = Rewritten[l]
<1>1. CASE ~FoldsRefreshes(q)
  BY <1>1 DEF FoldsRefreshes, RefreshLevel, RefreshPart
<1>2. CASE FoldsRefreshes(q)
  <2>1. q.layers \subseteq Layer /\ IsFiniteSet(q.layers)
    BY <1>2, QueryShape DEF FoldsRefreshes
  <2>2. /\ RefreshLevel(q) = SumFunctionOnSet(Rewritten, q.layers)
        /\ RefreshPart(q) = SumFunctionOnSet(refreshVersions, q.layers)
    BY <1>2 DEF FoldsRefreshes, RefreshLevel, RefreshPart, RefreshVersion
  <2>3. /\ RefreshLevel(q)' = SumFunctionOnSet(Rewritten', q.layers)
        /\ RefreshPart(q)' = SumFunctionOnSet(refreshVersions', q.layers)
    BY <1>2 DEF FoldsRefreshes, RefreshLevel, RefreshPart, RefreshVersion
  <2>4. \A l \in q.layers : /\ refreshVersions[l] \in Nat /\ Rewritten[l] \in Nat
                            /\ refreshVersions'[l] \in Nat /\ Rewritten'[l] \in Nat
    BY <2>1 DEF ServerTypes, Rewritten
  <2>5. \A l \in q.layers : refreshVersions[l] <= refreshVersions'[l] /\ Rewritten[l] <= Rewritten'[l]  BY <2>1
  <2>6. SumFunctionOnSet(refreshVersions, q.layers) <= SumFunctionOnSet(refreshVersions', q.layers)
    BY <2>1, <2>4, <2>5, SumGrows
  <2>7. /\ SumFunctionOnSet(Rewritten, q.layers) <= SumFunctionOnSet(Rewritten', q.layers)
        /\ SumFunctionOnSet(Rewritten, q.layers) = SumFunctionOnSet(Rewritten', q.layers)
              => \A l \in q.layers : Rewritten[l] = Rewritten'[l]
    BY <2>1, <2>4, <2>5, SumGrows
  <2> QED  BY <2>2, <2>3, <2>6, <2>7
<1> QED  BY <1>1, <1>2

LEMMA RefreshStays ==
    ASSUME UNCHANGED <<refreshVersions, owed>>, NEW q \in Query
    PROVE  RefreshPart(q)' = RefreshPart(q) /\ RefreshLevel(q)' = RefreshLevel(q)
BY DEF RefreshPart, RefreshVersion, RefreshLevel, Rewritten, FoldsRefreshes

LEMMA MeshStays ==
    ASSUME UNCHANGED <<meshActivityVersion, meshOwed, activity>>, NEW q \in Query
    PROVE  /\ MeshPart(q)' = MeshPart(q) /\ MeshLevel(q)' = MeshLevel(q)
           /\ \A r : Overlay(q, r)' = Overlay(q, r)
BY DEF MeshPart, MeshLevel, Overlay, IncludesMesh, IsMesh

LEMMA RowsStay ==
    ASSUME UNCHANGED <<rows, dataCount, places>>, NEW q \in Query
    PROVE  DataLevel(q)' = DataLevel(q) /\ Result(q)' = Result(q)
<1>1. DataLevel(q)' = DataLevel(q)  BY DEF DataLevel, Known
<1>2. Result(q)' = Result(q)  BY DEF Result, Matches, Blob, Known
<1> QED  BY <1>1, <1>2

\* The answer to a request depends on the rows it is about.
LEMMA ResultDepends ==
    ASSUME NEW q \in Query, places' = places,
           q.kind = "ListEvents" => \A e \in Event : LayerOf[e] \in q.layers => rows'[e] = rows[e],
           q.kind = "ListHistory" => \A e \in Event : LayerOf[e] \in q.layers =>
                /\ rows'[e].rev = rows[e].rev
                /\ q.place # Nil => rows'[e].att = rows[e].att,
           q.kind = "GetEvent" => rows'[q.id] = rows[q.id],
           q.kind = "GetEventHistory" => rows'[q.id].rev = rows[q.id].rev
    PROVE  Result(q)' = Result(q)
<1>1. CASE q.kind = "ListEvents"
  <2> DEFINE hit == {e \in Event : Matches(e, q) /\ rows[e].status \in q.status}
  <2>1. \A e \in Event : /\ (Matches(e, q) /\ rows[e].status \in q.status)' <=> (Matches(e, q) /\ rows[e].status \in q.status)
                         /\ Matches(e, q) => Blob(e)' = Blob(e)
    BY <1>1 DEF Matches, Known, Blob
  <2>2. hit' = hit /\ \A e \in hit : Blob(e)' = Blob(e)  BY <2>1
  <2>3. Result(q) = [e \in hit |-> Blob(e)]  BY <1>1 DEF Result
  <2>4. Result(q)' = [e \in hit' |-> Blob(e)']  BY <1>1 DEF Result
  <2> HIDE DEF hit
  <2> QED  BY <2>2, <2>3, <2>4
<1>2. CASE q.kind = "ListHistory"
  <2> DEFINE hit == {e \in Event : Matches(e, q)}
  <2>1. \A e \in Event : /\ Matches(e, q)' <=> Matches(e, q)
                         /\ Matches(e, q) => rows'[e].rev = rows[e].rev
    BY <1>2 DEF Matches, Known
  <2>2. hit' = hit /\ \A e \in hit : rows'[e].rev = rows[e].rev  BY <2>1
  <2>3. Result(q) = [e \in hit |-> rows[e].rev]  BY <1>2 DEF Result
  <2>4. Result(q)' = [e \in hit' |-> rows'[e].rev]  BY <1>2 DEF Result
  <2> HIDE DEF hit
  <2> QED  BY <2>2, <2>3, <2>4
<1>3. CASE q.kind = "GetEvent"  BY <1>3 DEF Result, Known, Blob
<1>4. CASE q.kind = "GetEventHistory"  BY <1>4 DEF Result
<1>5. CASE q.kind = "ListPlaces"  BY <1>5 DEF Result
<1> QED  BY <1>1, <1>2, <1>3, <1>4, <1>5, QueryShape

\* What one row may become: a revision, counted, or a rewrite, owed.
LEMMA UpsertRow ==
    ASSUME ServerTypes, NEW e \in Event, NEW ev \in Evs, UpsertEvent(e, ev, 0)
    PROVE  /\ rows' \in [Event -> {NoRow} \cup Row] /\ dataCount' \in Nat /\ places' = places
           /\ \A x \in Event \ {e} : rows'[x] = rows[x]
           /\ NeedsUpdate(e, ev) => /\ dataCount' = dataCount + 1 /\ rows'[e] \in Row
                                    /\ rows'[e].rev = rows[e].rev + 1
                                    /\ Known(e) => rows'[e].fresh = rows[e].fresh
           /\ Rewrites(e, ev) => /\ dataCount' = dataCount /\ rows'[e] \in Row /\ rows[e] \in Row
                                 /\ rows'[e].rev = rows[e].rev
                                 /\ rows'[e].fresh = rows[e].fresh + 1
           /\ ~NeedsUpdate(e, ev) /\ ~Rewrites(e, ev) => dataCount' = dataCount /\ rows' = rows
<1>0. MatchPlaces(e) \in SUBSET Place  BY DEF MatchPlaces, ServerTypes
<1>1. ev.content \in Content /\ ev.status \in EventStatus /\ ev.extra \in Extra \cup {NoExtra}
  BY DEF Evs, EventStatus
<1>2. rows \in [Event -> {NoRow} \cup Row] /\ dataCount \in Nat /\ places' = places  BY DEF ServerTypes, UpsertEvent
<1>3. CASE NeedsUpdate(e, ev)
  <2> DEFINE new == Revised(e, ev, 0)
  <2>1. rows' = [rows EXCEPT ![e] = new] /\ dataCount' = dataCount + Cardinality({e})
    BY <1>3 DEF UpsertEvent, InsertRevision
  <2>2. new \in Row /\ new.rev = rows[e].rev + 1 /\ (Known(e) => new.fresh = rows[e].fresh)
    <3>1. rows[e].rev + 1 \in Nat \ {0}  BY RowShape
    <3>2. (IF Known(e) THEN rows[e].fresh ELSE 0) \in Nat  BY RowShape
    <3>3. ContentHash(ev.content, ev.status) \in Content \X EventStatus  BY <1>1 DEF ContentHash
    <3>4. new \in Row  BY <1>0, <1>1, <3>1, <3>2, <3>3 DEF Revised, Row
    <3> QED  BY <3>4 DEF Revised
  <2> HIDE DEF new
  <2>3. rows' \in [Event -> {NoRow} \cup Row] /\ rows'[e] = new /\ \A x \in Event \ {e} : rows'[x] = rows[x]
    BY <1>2, <2>1, <2>2
  <2>4. dataCount' = dataCount + 1  BY <2>1, FS_Singleton
  <2>5. ~Rewrites(e, ev)  BY <1>3 DEF Rewrites
  <2> QED  BY <1>2, <1>3, <2>2, <2>3, <2>4, <2>5
<1>4. CASE ~NeedsUpdate(e, ev)
  <2>1. rows[e] \in Row  BY <1>4, RowShape DEF NeedsUpdate
  <2>2. dataCount' = dataCount
    <3>1. dataCount' = dataCount + Cardinality({})  BY <1>4 DEF UpsertEvent, InsertRevision
    <3> QED  BY <1>2, <3>1, FS_EmptySet
  <2>3. CASE Rewrites(e, ev)
    <3> DEFINE extra == IF ev.extra = NoExtra THEN rows[e].extra ELSE ev.extra
               fresh == rows[e].fresh + 1
               new == Refreshed(e, ev)
    <3>1. extra \in Extra \cup {NoExtra} /\ fresh \in Nat  BY <1>1, <2>1 DEF Row
    <3>2. new = [rows[e] EXCEPT !.att = MatchPlaces(e), !.extra = extra, !.fresh = fresh]  BY DEF Refreshed
    <3>3. rows' = [rows EXCEPT ![e] = new]  BY <1>4, <2>3 DEF UpsertEvent
    <3> HIDE DEF new, extra
    <3>4. new \in Row /\ new.rev = rows[e].rev /\ new.fresh = rows[e].fresh + 1
      BY <1>0, <2>1, <3>1, <3>2 DEF Row
    <3>5. rows' \in [Event -> {NoRow} \cup Row] /\ rows'[e] = new /\ \A x \in Event \ {e} : rows'[x] = rows[x]
      BY <1>2, <3>3, <3>4
    <3> QED  BY <1>2, <1>4, <2>1, <2>2, <2>3, <3>4, <3>5
  <2>4. CASE ~Rewrites(e, ev)
    <3>1. rows' = [rows EXCEPT ![e] = rows[e]]  BY <1>4, <2>4 DEF UpsertEvent
    <3>2. rows' = rows  BY <1>2, <3>1
    <3> QED  BY <1>2, <1>4, <2>2, <2>4, <3>2
  <2> QED  BY <2>3, <2>4
<1> QED  BY <1>3, <1>4

LEMMA UpsertSteady ==
    ASSUME ServerTypes, Upsert, NEW q \in Query PROVE ServerTypes' /\ Steady(q)
<1>1. PICK e \in Event, ev \in Evs :
         /\ UpsertEvent(e, ev, 0)
         /\ owed' = [owed EXCEPT ![LayerOf[e]] = IF Rewrites(e, ev) THEN @ + 1 ELSE @]
  BY DEF Upsert
<1>2. UNCHANGED <<refreshVersions, meshActivityVersion, meshOwed, activity, placesVersion, req, cached>>  BY DEF Upsert
<1> DEFINE l0 == LayerOf[e]
<1>3. l0 \in Layer  BY ValidatorsAssumption
<1>4. /\ owed' \in [Layer -> Nat]
      /\ \A l \in Layer : owed'[l] = IF l = l0 /\ Rewrites(e, ev) THEN owed[l] + 1 ELSE owed[l]
  <2>1. CASE Rewrites(e, ev)
    <3>1. owed' = [owed EXCEPT ![l0] = owed[l0] + 1]  BY <1>1, <2>1
    <3>2. owed[l0] + 1 \in Nat  BY <1>3 DEF ServerTypes
    <3> QED  BY <1>3, <2>1, <3>1, <3>2 DEF ServerTypes
  <2>2. CASE ~Rewrites(e, ev)
    <3>1. owed' = [owed EXCEPT ![l0] = owed[l0]]  BY <1>1, <2>2
    <3> QED  BY <1>3, <2>2, <3>1 DEF ServerTypes
  <2> QED  BY <2>1, <2>2
<1> HIDE DEF l0
<1>5. /\ rows' \in [Event -> {NoRow} \cup Row] /\ dataCount' \in Nat /\ places' = places
      /\ \A x \in Event \ {e} : rows'[x] = rows[x]
      /\ NeedsUpdate(e, ev) => /\ dataCount' = dataCount + 1 /\ rows'[e] \in Row
                               /\ rows'[e].rev = rows[e].rev + 1
                               /\ Known(e) => rows'[e].fresh = rows[e].fresh
      /\ Rewrites(e, ev) => /\ dataCount' = dataCount /\ rows'[e] \in Row /\ rows[e] \in Row
                            /\ rows'[e].rev = rows[e].rev
                            /\ rows'[e].fresh = rows[e].fresh + 1
      /\ ~NeedsUpdate(e, ev) /\ ~Rewrites(e, ev) => dataCount' = dataCount /\ rows' = rows
  BY <1>1, UpsertRow
<1>6. ServerTypes'  BY <1>2, <1>4, <1>5 DEF ServerTypes
<1>7. \A l \in Layer : Rewritten'[l] = IF l = l0 /\ Rewrites(e, ev) THEN Rewritten[l] + 1 ELSE Rewritten[l]
  BY <1>2, <1>4 DEF ServerTypes, Rewritten
<1>8. \A l \in Layer : refreshVersions[l] \in Nat /\ Rewritten[l] \in Nat  BY DEF ServerTypes, Rewritten
<1>9. /\ RefreshPart(q) <= RefreshPart(q)' /\ RefreshLevel(q) <= RefreshLevel(q)'
      /\ FoldsRefreshes(q) /\ RefreshLevel(q)' = RefreshLevel(q) => \A l \in q.layers : Rewritten'[l] = Rewritten[l]
  <2>1. \A l \in Layer : refreshVersions[l] <= refreshVersions'[l] /\ Rewritten[l] <= Rewritten'[l]
    BY <1>2, <1>7, <1>8
  <2> QED  BY <1>6, <2>1, RefreshRises
<1>10. /\ MeshPart(q)' = MeshPart(q) /\ MeshLevel(q)' = MeshLevel(q) /\ \A r : Overlay(q, r)' = Overlay(q, r)
  BY <1>2, MeshStays
<1>11. DataLevel(q) \in Nat /\ MeshLevel(q) \in Nat /\ MeshPart(q) \in Nat  BY DataLevels, MeshLevels
<1>12. DataLevel(q) <= DataLevel(q)'
       /\ (DataLevel(q)' = DataLevel(q) /\ RefreshLevel(q)' = RefreshLevel(q) => Result(q)' = Result(q))
  <2>1. CASE ~NeedsUpdate(e, ev) /\ ~Rewrites(e, ev)
    <3>1. DataLevel(q)' = DataLevel(q) /\ Result(q)' = Result(q)  BY <1>5, <2>1, RowsStay
    <3> QED  BY <1>11, <3>1
  <2>2. CASE NeedsUpdate(e, ev)
    <3>1. rows'[e] \in Row /\ rows'[e].rev = rows[e].rev + 1 /\ dataCount' = dataCount + 1
          /\ (Known(e) => rows'[e].fresh = rows[e].fresh) /\ dataCount \in Nat /\ rows[e].rev \in Nat
          /\ rows'[e].fresh \in Nat
      BY <1>5, <2>2, RowShape DEF ServerTypes, Row
    <3>2. CASE q.kind \in {"ListEvents", "ListHistory"}
      <4>1. DataLevel(q) = dataCount /\ DataLevel(q)' = dataCount'  BY <3>2 DEF DataLevel
      <4> QED  BY <3>1, <4>1
    <3>3. CASE q.kind = "GetEvent"
      <4>1. DataLevel(q) = (IF rows[q.id].rev > 0 THEN rows[q.id].rev + rows[q.id].fresh ELSE 0)
            /\ DataLevel(q)' = (IF rows'[q.id].rev > 0 THEN rows'[q.id].rev + rows'[q.id].fresh ELSE 0)
        BY <3>3 DEF DataLevel, Known
      <4>2. q.id \in Event  BY <3>3, QueryShape
      <4>3. CASE q.id = e
        <5>1. Known(e) => rows[e].fresh \in Nat  BY RowShape
        <5> QED  BY <3>1, <4>1, <4>3, <5>1 DEF Known
      <4>4. CASE q.id # e
        <5>1. rows'[q.id] = rows[q.id]  BY <1>5, <4>2, <4>4
        <5>2. Result(q)' = Result(q)  BY <1>5, <3>3, <5>1, ResultDepends
        <5> QED  BY <1>11, <4>1, <5>1, <5>2
      <4> QED  BY <4>3, <4>4
    <3>4. CASE q.kind = "GetEventHistory"
      <4>1. DataLevel(q) = rows[q.id].rev /\ DataLevel(q)' = rows'[q.id].rev  BY <3>4 DEF DataLevel
      <4>2. Result(q) = rows[q.id].rev /\ Result(q)' = rows'[q.id].rev  BY <3>4 DEF Result
      <4>3. q.id \in Event  BY <3>4, QueryShape
      <4>4. rows'[q.id] = rows[q.id] \/ q.id = e  BY <1>5, <4>3
      <4> QED  BY <1>11, <3>1, <4>1, <4>2, <4>4
    <3>5. CASE q.kind = "ListPlaces"  BY <1>5, <1>11, <3>5 DEF DataLevel, Result
    <3> QED  BY <3>2, <3>3, <3>4, <3>5, QueryShape
  <2>3. CASE Rewrites(e, ev)
    <3>1. /\ rows'[e] \in Row /\ rows[e] \in Row /\ rows'[e].rev = rows[e].rev /\ rows'[e].fresh = rows[e].fresh + 1
          /\ dataCount' = dataCount /\ rows[e].fresh \in Nat /\ rows[e].rev \in Nat \ {0}
      BY <1>5, <2>3, RowShape
    <3>2. CASE q.kind \in {"ListEvents", "ListHistory"}
      <4>1. DataLevel(q)' = DataLevel(q)  BY <3>1, <3>2 DEF DataLevel
      <4>2. ASSUME RefreshLevel(q)' = RefreshLevel(q), FoldsRefreshes(q), NEW x \in Event, LayerOf[x] \in q.layers
            PROVE  rows'[x] = rows[x]
        <5>1. Rewritten'[LayerOf[x]] = Rewritten[LayerOf[x]]  BY <1>9, <4>2
        <5>2. LayerOf[x] # l0
          BY <1>3, <1>7, <1>8, <2>3, <5>1
        <5> QED  BY <1>5, <5>2 DEF l0
      <4>3. ASSUME RefreshLevel(q)' = RefreshLevel(q) PROVE Result(q)' = Result(q)
        <5>1. CASE q.kind = "ListEvents"
          <6>1. FoldsRefreshes(q)  BY <5>1 DEF FoldsRefreshes
          <6> QED  BY <1>5, <4>2, <4>3, <5>1, <6>1, ResultDepends
        <5>2. CASE q.kind = "ListHistory"
          <6>1. \A x \in Event : rows'[x].rev = rows[x].rev  BY <1>5, <3>1
          <6>2. q.place # Nil => FoldsRefreshes(q)  BY <5>2 DEF FoldsRefreshes
          <6>3. \A x \in Event : LayerOf[x] \in q.layers /\ q.place # Nil => rows'[x].att = rows[x].att
            BY <4>2, <4>3, <6>2
          <6> QED  BY <1>5, <5>2, <6>1, <6>3, ResultDepends
        <5> QED  BY <3>2, <5>1, <5>2
      <4> QED  BY <1>11, <4>1, <4>3
    <3>3. CASE q.kind = "GetEvent"
      <4>1. DataLevel(q) = (IF rows[q.id].rev > 0 THEN rows[q.id].rev + rows[q.id].fresh ELSE 0)
            /\ DataLevel(q)' = (IF rows'[q.id].rev > 0 THEN rows'[q.id].rev + rows'[q.id].fresh ELSE 0)
        BY <3>3 DEF DataLevel, Known
      <4>2. q.id \in Event  BY <3>3, QueryShape
      <4>3. CASE q.id = e  BY <3>1, <4>1, <4>3
      <4>4. CASE q.id # e
        <5>1. rows'[q.id] = rows[q.id]  BY <1>5, <4>2, <4>4
        <5>2. Result(q)' = Result(q)  BY <1>5, <3>3, <5>1, ResultDepends
        <5> QED  BY <1>11, <4>1, <5>1, <5>2
      <4> QED  BY <4>3, <4>4
    <3>4. CASE q.kind = "GetEventHistory"
      <4>1. DataLevel(q) = rows[q.id].rev /\ DataLevel(q)' = rows'[q.id].rev  BY <3>4 DEF DataLevel
      <4>2. Result(q) = rows[q.id].rev /\ Result(q)' = rows'[q.id].rev  BY <3>4 DEF Result
      <4>3. q.id \in Event  BY <3>4, QueryShape
      <4>4. rows'[q.id].rev = rows[q.id].rev  BY <1>5, <3>1, <4>3
      <4> QED  BY <1>11, <4>1, <4>2, <4>4
    <3>5. CASE q.kind = "ListPlaces"  BY <1>5, <1>11, <3>5 DEF DataLevel, Result
    <3> QED  BY <3>2, <3>3, <3>4, <3>5, QueryShape
  <2> QED  BY <2>1, <2>2, <2>3
<1>13. Steady(q)  BY <1>2, <1>9, <1>10, <1>11, <1>12 DEF Steady
<1> QED  BY <1>6, <1>13

LEMMA TransitionSteady ==
    ASSUME ServerTypes, Transition, NEW q \in Query PROVE ServerTypes' /\ Steady(q)
<1>1. PICK e \in Event, to \in EndStatus : Active(e) /\ TransitionEvents({e}, to)  BY DEF Transition
<1>2. UNCHANGED <<refreshVersions, owed, meshActivityVersion, meshOwed, activity, placesVersion>>
  BY DEF Transition, validatorVars
<1>3. rows[e] \in Row /\ rows[e].status # to /\ to \in EventStatus /\ rows \in [Event -> {NoRow} \cup Row] /\ Known(e)
  BY <1>1, RowShape DEF Active, LiveStatus, EndStatus, EventStatus, ServerTypes
<1>4. Moved({e}, to) = {e}  BY <1>3 DEF Moved
<1> DEFINE hash == ContentHash(rows[e].content, to)
           rev == rows[e].rev + 1
           new == [rows[e] EXCEPT !.status = to, !.rev = rev, !.hash = hash]
<1>5. /\ rows' = [x \in Event |-> IF x \in {e} THEN [rows[x] EXCEPT !.status = to, !.rev = rows[x].rev + 1,
                                                                   !.hash = ContentHash(rows[x].content, to)]
                                  ELSE rows[x]]
      /\ dataCount' = dataCount + Cardinality({e}) /\ places' = places
  BY <1>1, <1>4 DEF TransitionEvents, InsertRevision
<1>p. places' = places  BY <1>5
<1>6. rows'[e] = new /\ \A x \in Event \ {e} : rows'[x] = rows[x]  BY <1>5
<1>7. hash \in Content \X EventStatus /\ rev \in Nat \ {0}  BY <1>3 DEF ContentHash, Row
<1>8. new \in Row /\ new.rev = rows[e].rev + 1 /\ new.fresh = rows[e].fresh
  <2> HIDE DEF hash
  <2> QED  BY <1>3, <1>7 DEF Row
<1> HIDE DEF new, hash
<1>9. rows' \in [Event -> {NoRow} \cup Row]
  <2>1. \A x \in Event : rows'[x] \in {NoRow} \cup Row  BY <1>3, <1>6, <1>8
  <2> QED  BY <1>5, <2>1
<1>10. dataCount' = dataCount + 1 /\ dataCount \in Nat  BY <1>5, FS_Singleton DEF ServerTypes
<1>11. ServerTypes'  BY <1>2, <1>p, <1>9, <1>10 DEF ServerTypes
<1>12. /\ MeshPart(q)' = MeshPart(q) /\ MeshLevel(q)' = MeshLevel(q) /\ (\A r : Overlay(q, r)' = Overlay(q, r))
       /\ RefreshPart(q)' = RefreshPart(q) /\ RefreshLevel(q)' = RefreshLevel(q)
  BY <1>2, MeshStays, RefreshStays
<1>13. /\ DataLevel(q) \in Nat /\ MeshLevel(q) \in Nat /\ MeshPart(q) \in Nat
       /\ RefreshLevel(q) \in Nat /\ RefreshPart(q) \in Nat
  BY DataLevels, MeshLevels, RefreshLevels
<1>14. DataLevel(q) <= DataLevel(q)' /\ (DataLevel(q)' = DataLevel(q) => Result(q)' = Result(q))
  <2>1. CASE q.kind \in {"ListEvents", "ListHistory"}
    <3>1. DataLevel(q) = dataCount /\ DataLevel(q)' = dataCount'  BY <2>1 DEF DataLevel
    <3> QED  BY <1>10, <3>1
  <2>2. CASE q.kind = "GetEvent"
    <3>1. DataLevel(q) = (IF rows[q.id].rev > 0 THEN rows[q.id].rev + rows[q.id].fresh ELSE 0)
          /\ DataLevel(q)' = (IF rows'[q.id].rev > 0 THEN rows'[q.id].rev + rows'[q.id].fresh ELSE 0)
      BY <2>2 DEF DataLevel, Known
    <3>2. q.id \in Event  BY <2>2, QueryShape
    <3>3. CASE q.id = e
      <4>1. rows[e].fresh \in Nat /\ rows[e].rev \in Nat \ {0}  BY <1>3, RowShape
      <4> QED  BY <1>6, <1>8, <3>1, <3>3, <4>1
    <3>4. CASE q.id # e
      <4>1. rows'[q.id] = rows[q.id]  BY <1>6, <3>2, <3>4
      <4>2. Result(q)' = Result(q)  BY <1>p, <2>2, <4>1, ResultDepends
      <4> QED  BY <1>13, <3>1, <4>1, <4>2
    <3> QED  BY <3>3, <3>4
  <2>3. CASE q.kind = "GetEventHistory"
    <3>1. DataLevel(q) = rows[q.id].rev /\ DataLevel(q)' = rows'[q.id].rev  BY <2>3 DEF DataLevel
    <3>2. Result(q) = rows[q.id].rev /\ Result(q)' = rows'[q.id].rev  BY <2>3 DEF Result
    <3>3. q.id \in Event /\ rows[q.id].rev \in Nat  BY <2>3, QueryShape, RowShape
    <3>4. rows'[q.id].rev = rows[q.id].rev \/ rows'[q.id].rev = rows[q.id].rev + 1  BY <1>6, <1>8, <3>3
    <3> QED  BY <3>1, <3>2, <3>3, <3>4
  <2>4. CASE q.kind = "ListPlaces"  BY <1>p, <2>4 DEF DataLevel, Result
  <2> QED  BY <2>1, <2>2, <2>3, <2>4, QueryShape
<1>15. Steady(q)  BY <1>2, <1>12, <1>13, <1>14 DEF Steady
<1> QED  BY <1>11, <1>15

LEMMA BumpRefreshSteady ==
    ASSUME ServerTypes, BumpRefreshVersion, NEW q \in Query PROVE ServerTypes' /\ Steady(q)
<1>1. PICK l0 \in Layer : /\ owed[l0] > 0
                          /\ owed' = [owed EXCEPT ![l0] = @ - 1]
                          /\ refreshVersions' = [refreshVersions EXCEPT ![l0] = @ + 1]
  BY DEF BumpRefreshVersion
<1>2. UNCHANGED <<rows, dataCount, places, meshActivityVersion, meshOwed, activity, placesVersion>>
  BY DEF BumpRefreshVersion, storeVars
<1>3. owed[l0] - 1 \in Nat /\ refreshVersions[l0] + 1 \in Nat /\ refreshVersions[l0] \in Nat /\ owed[l0] \in Nat
  BY <1>1 DEF ServerTypes
<1>4. owed' \in [Layer -> Nat] /\ refreshVersions' \in [Layer -> Nat]  BY <1>1, <1>3 DEF ServerTypes
<1>5. ServerTypes'  BY <1>2, <1>4 DEF ServerTypes
<1>6. \A l \in Layer : /\ refreshVersions[l] \in Nat /\ owed[l] \in Nat
                       /\ refreshVersions'[l] = IF l = l0 THEN refreshVersions[l] + 1 ELSE refreshVersions[l]
                       /\ owed'[l] = IF l = l0 THEN owed[l] - 1 ELSE owed[l]
  BY <1>1 DEF ServerTypes
<1>7. \A l \in Layer : refreshVersions[l] <= refreshVersions'[l] /\ Rewritten'[l] = Rewritten[l] /\ Rewritten[l] \in Nat
  BY <1>6 DEF Rewritten
<1>8. RefreshPart(q) <= RefreshPart(q)' /\ RefreshLevel(q) <= RefreshLevel(q)'
  <2>1. \A l \in Layer : Rewritten[l] <= Rewritten'[l]  BY <1>7
  <2> QED  BY <1>5, <1>7, <2>1, RefreshRises
<1>9. /\ MeshPart(q)' = MeshPart(q) /\ MeshLevel(q)' = MeshLevel(q) /\ (\A r : Overlay(q, r)' = Overlay(q, r))
      /\ DataLevel(q)' = DataLevel(q) /\ Result(q)' = Result(q)
  BY <1>2, MeshStays, RowsStay
<1>10. DataLevel(q) \in Nat /\ MeshLevel(q) \in Nat /\ MeshPart(q) \in Nat  BY DataLevels, MeshLevels
<1>11. Steady(q)  BY <1>2, <1>8, <1>9, <1>10 DEF Steady
<1> QED  BY <1>5, <1>11

LEMMA MeshTickSteady ==
    ASSUME ServerTypes, RecordMeshTick, NEW q \in Query PROVE ServerTypes' /\ Steady(q)
<1>1. PICK e \in Event : IsMesh(e) /\ activity' = [activity EXCEPT ![e] = @ + 1]  BY DEF RecordMeshTick
<1>2. UNCHANGED <<rows, dataCount, places, refreshVersions, owed, meshActivityVersion, placesVersion>>
      /\ meshOwed' = meshOwed + 1
  BY DEF RecordMeshTick, storeVars
<1>3. activity[e] + 1 \in Nat /\ meshOwed + 1 \in Nat /\ meshOwed \in Nat /\ meshActivityVersion \in Nat
      /\ \A x \in Event : activity[x] \in Nat
  BY DEF ServerTypes
<1>4. activity' \in [Event -> Nat] /\ \A x \in Event : activity'[x] = IF x = e THEN activity[x] + 1 ELSE activity[x]
  BY <1>1, <1>3 DEF ServerTypes
<1>5. ServerTypes'  BY <1>2, <1>3, <1>4 DEF ServerTypes
<1>6. /\ DataLevel(q)' = DataLevel(q) /\ Result(q)' = Result(q)
      /\ RefreshPart(q)' = RefreshPart(q) /\ RefreshLevel(q)' = RefreshLevel(q)
  BY <1>2, RefreshStays, RowsStay
<1>7. DataLevel(q) \in Nat /\ RefreshLevel(q) \in Nat /\ RefreshPart(q) \in Nat  BY DataLevels, RefreshLevels
<1>8. /\ MeshLevel(q) <= MeshLevel(q)' /\ MeshPart(q) <= MeshPart(q)'
      /\ MeshLevel(q)' = MeshLevel(q) => \A r : InLayers(q, r) => Overlay(q, r)' = Overlay(q, r)
  <2>1. CASE q.kind = "ListEvents" /\ IncludesMesh(q)
    <3>1. MeshLevel(q) = meshActivityVersion + meshOwed /\ MeshPart(q) = meshActivityVersion  BY <2>1 DEF MeshLevel, MeshPart
    <3>2. MeshLevel(q)' = meshActivityVersion' + meshOwed' /\ MeshPart(q)' = meshActivityVersion'
      BY <2>1 DEF MeshLevel, MeshPart, IncludesMesh
    <3> QED  BY <1>2, <1>3, <3>1, <3>2
  <2>2. CASE q.kind = "ListEvents" /\ ~IncludesMesh(q)
    <3>1. MeshLevel(q) = 0 /\ MeshPart(q) = 0 /\ MeshLevel(q)' = 0 /\ MeshPart(q)' = 0
      BY <2>2 DEF MeshLevel, MeshPart, IncludesMesh
    <3>2. ASSUME NEW r, InLayers(q, r) PROVE Overlay(q, r)' = Overlay(q, r)
      <4>1. {x \in DOMAIN r : IsMesh(x)} = {}  BY <2>2, <3>2 DEF InLayers, IncludesMesh, IsMesh
      <4>2. Overlay(q, r) = [x \in {x \in DOMAIN r : IsMesh(x)} |-> activity[x]]  BY <2>2 DEF Overlay
      <4>3. Overlay(q, r)' = [x \in {x \in DOMAIN r : IsMesh(x)} |-> activity'[x]]  BY <2>2 DEF Overlay, IsMesh
      <4> QED  BY <4>1, <4>2, <4>3
    <3> QED  BY <3>1, <3>2
  <2>3. CASE q.kind = "GetEvent" /\ IsMesh(q.id)
    <3>1. q.id \in Event  BY <2>3, QueryShape
    <3>2. MeshLevel(q) = activity[q.id] /\ MeshPart(q) = activity[q.id] /\ \A r : Overlay(q, r) = activity[q.id]
      BY <2>3 DEF MeshLevel, MeshPart, Overlay
    <3>3. MeshLevel(q)' = activity'[q.id] /\ MeshPart(q)' = activity'[q.id] /\ \A r : Overlay(q, r)' = activity'[q.id]
      BY <2>3 DEF MeshLevel, MeshPart, Overlay, IsMesh
    <3> QED  BY <1>3, <1>4, <3>1, <3>2, <3>3
  <2>4. CASE q.kind # "ListEvents" /\ ~(q.kind = "GetEvent" /\ IsMesh(q.id))
    <3>1. MeshLevel(q) = 0 /\ MeshPart(q) = 0 /\ \A r : Overlay(q, r) = 0  BY <2>4 DEF MeshLevel, MeshPart, Overlay
    <3>2. MeshLevel(q)' = 0 /\ MeshPart(q)' = 0 /\ \A r : Overlay(q, r)' = 0  BY <2>4 DEF MeshLevel, MeshPart, Overlay, IsMesh
    <3> QED  BY <3>1, <3>2
  <2> QED  BY <2>1, <2>2, <2>3, <2>4
<1>9. Steady(q)  BY <1>2, <1>6, <1>7, <1>8 DEF Steady
<1> QED  BY <1>5, <1>9

LEMMA BumpMeshSteady ==
    ASSUME ServerTypes, BumpMeshActivity, NEW q \in Query PROVE ServerTypes' /\ Steady(q)
<1>1. UNCHANGED <<rows, dataCount, places, refreshVersions, owed, activity, placesVersion>>
  BY DEF BumpMeshActivity, storeVars
<1>2. meshOwed > 0 /\ meshOwed' = meshOwed - 1 /\ meshActivityVersion' = meshActivityVersion + 1
      /\ meshOwed \in Nat /\ meshActivityVersion \in Nat
  BY DEF BumpMeshActivity, ServerTypes
<1>3. ServerTypes'  BY <1>1, <1>2 DEF ServerTypes
<1>4. /\ DataLevel(q)' = DataLevel(q) /\ Result(q)' = Result(q)
      /\ RefreshPart(q)' = RefreshPart(q) /\ RefreshLevel(q)' = RefreshLevel(q)
  BY <1>1, RefreshStays, RowsStay
<1>5. DataLevel(q) \in Nat /\ RefreshLevel(q) \in Nat /\ RefreshPart(q) \in Nat /\ MeshLevel(q) \in Nat /\ MeshPart(q) \in Nat
  BY DataLevels, RefreshLevels, MeshLevels
<1>6. \A r : Overlay(q, r)' = Overlay(q, r)  BY <1>1 DEF Overlay, IsMesh
<1>7. MeshLevel(q)' = MeshLevel(q) /\ MeshPart(q) <= MeshPart(q)'
  <2>1. CASE q.kind = "ListEvents" /\ IncludesMesh(q)
    <3>1. MeshLevel(q) = meshActivityVersion + meshOwed /\ MeshPart(q) = meshActivityVersion  BY <2>1 DEF MeshLevel, MeshPart
    <3>2. MeshLevel(q)' = meshActivityVersion' + meshOwed' /\ MeshPart(q)' = meshActivityVersion'
      BY <2>1 DEF MeshLevel, MeshPart, IncludesMesh
    <3> QED  BY <1>2, <3>1, <3>2
  <2>2. CASE ~(q.kind = "ListEvents" /\ IncludesMesh(q))
    <3>1. MeshLevel(q)' = MeshLevel(q) /\ MeshPart(q)' = MeshPart(q)
      BY <1>1, <2>2 DEF MeshLevel, MeshPart, IncludesMesh, IsMesh
    <3> QED  BY <1>5, <3>1
  <2> QED  BY <2>1, <2>2
<1>8. Steady(q)  BY <1>1, <1>4, <1>5, <1>6, <1>7 DEF Steady
<1> QED  BY <1>3, <1>8

\* The steps of a request write nothing.
serverVars == <<storeVars, refreshVersions, meshActivityVersion, owed, meshOwed, activity, placesVersion>>

LEMMA ReadSteady ==
    ASSUME ServerTypes, UNCHANGED serverVars, NEW q \in Query PROVE ServerTypes' /\ Steady(q)
<1>1. UNCHANGED <<rows, dataCount, places, refreshVersions, owed, meshActivityVersion, meshOwed, activity, placesVersion>>
  BY DEF serverVars, storeVars
<1>2. ServerTypes'  BY <1>1 DEF ServerTypes
<1>3. /\ DataLevel(q)' = DataLevel(q) /\ Result(q)' = Result(q)
      /\ RefreshPart(q)' = RefreshPart(q) /\ RefreshLevel(q)' = RefreshLevel(q)
      /\ MeshPart(q)' = MeshPart(q) /\ MeshLevel(q)' = MeshLevel(q) /\ (\A r : Overlay(q, r)' = Overlay(q, r))
  BY <1>1, RefreshStays, RowsStay, MeshStays
<1>4. DataLevel(q) \in Nat /\ RefreshLevel(q) \in Nat /\ RefreshPart(q) \in Nat /\ MeshLevel(q) \in Nat /\ MeshPart(q) \in Nat
  BY DataLevels, RefreshLevels, MeshLevels
<1> QED  BY <1>1, <1>2, <1>3, <1>4 DEF Steady

-----------------------------------------------------------------------------
(***************************************************************************)
(* The inductive invariant.  A tag is never ahead of what is committed; a  *)
(* tag that has not fallen behind either vouches for the answer stored     *)
(* with it, its rows by the first two counters, its clocks by the third.   *)
(***************************************************************************)
DataOf(q, t) == IF q.kind = "GetEvent" THEN t.data[1] + t.data[2] ELSE t.data

Tagged(q, t) ==
    /\ t = [q |-> q, nonce |-> t.nonce, data |-> t.data, refresh |-> t.refresh, mesh |-> t.mesh]
    /\ t.nonce \in Nat /\ t.refresh \in Nat /\ t.mesh \in Nat /\ DataOf(q, t) \in Nat
    /\ q.kind = "GetEvent" => t.data \in (Nat \ {0}) \X Nat
    /\ t.nonce <= placesVersion
    /\ t.nonce = placesVersion =>
          DataOf(q, t) <= DataLevel(q) /\ t.refresh <= RefreshLevel(q) /\ t.mesh <= MeshLevel(q)

Vouches(q, t, result) ==
    t.nonce = placesVersion /\ DataOf(q, t) = DataLevel(q) /\ t.refresh = RefreshLevel(q) => result = Result(q)

\* The client's copy.
CopyOK(q, c) ==
    /\ Tagged(q, c.tag)
    /\ c.body = <<c.body[1], c.body[2]>>
    /\ InLayers(q, c.body[1])
    /\ q.kind # "ListEvents" => c.body[2] = c.tag.mesh
    /\ Vouches(q, c.tag, c.body[1])
    /\ ~c.degraded /\ c.tag.nonce = placesVersion /\ c.tag.mesh = MeshLevel(q) =>
          c.body[2] = Overlay(q, c.body[1])

\* The fields of a request.
RequestRecord(q, r) ==
    [step : {r.step}, q : {q}, tag : {r.tag}, result : {r.result}, was : {r.was}, uncounted : {r.uncounted}]

\* The request being answered.
RequestOK(q, r) ==
    /\ r \in RequestRecord(q, r)
    /\ r.step \in {"refresh", "mesh", "query", "overlay"}
    /\ Tagged(q, r.tag) /\ r.tag.nonce = placesVersion
    /\ r.step = "overlay" => q.kind = "ListEvents" /\ InLayers(q, r.result) /\ Vouches(q, r.tag, r.result)

\* What the request would confirm: counters that have not passed the copy's
\* had not passed them when it began.
ConfirmOK(q, r, c) ==
    /\ c.tag.q = q
    /\ /\ r.step \in {"refresh", "mesh"} /\ ~r.uncounted
       /\ c.tag.nonce = placesVersion /\ DataOf(q, c.tag) = DataOf(q, r.tag)
       /\ (IF r.step = "refresh" THEN RefreshPart(q) ELSE r.tag.refresh) <= c.tag.refresh
       => /\ c.body[1] = r.was[1]
          /\ ~c.degraded /\ MeshPart(q) <= c.tag.mesh => c.body[2] = r.was[2]

TagInv ==
    /\ ServerTypes
    /\ \A c \in {cached} \ {Nil} : \E q \in Query : CopyOK(q, c)
    /\ \A r \in {req} \ {Idle} : \E q \in Query :
          RequestOK(q, r) /\ \A c \in {cached} \ {Nil} : ConfirmOK(q, r, c)

-----------------------------------------------------------------------------
(***************************************************************************)
(* Steady steps keep all three.                                            *)
(***************************************************************************)
LEMMA LevelTypes ==
    ASSUME ServerTypes, NEW q \in Query
    PROVE  /\ DataLevel(q) \in Nat /\ RefreshLevel(q) \in Nat /\ MeshLevel(q) \in Nat
           /\ RefreshPart(q) \in Nat /\ MeshPart(q) \in Nat /\ placesVersion \in Nat
BY DataLevels, RefreshLevels, MeshLevels DEF ServerTypes

\* The same, of the state after a step.
LEMMA LevelTypesAfter ==
    ASSUME NEW q \in Query
    PROVE  (ServerTypes => /\ DataLevel(q) \in Nat /\ RefreshLevel(q) \in Nat /\ MeshLevel(q) \in Nat
                           /\ RefreshPart(q) \in Nat /\ MeshPart(q) \in Nat)'
<1>1. ServerTypes => /\ DataLevel(q) \in Nat /\ RefreshLevel(q) \in Nat /\ MeshLevel(q) \in Nat
                     /\ RefreshPart(q) \in Nat /\ MeshPart(q) \in Nat
  BY LevelTypes
<1> QED  BY <1>1, PTL

LEMMA TaggedKept ==
    ASSUME ServerTypes, ServerTypes', NEW q \in Query, Steady(q), NEW t, Tagged(q, t)
    PROVE  /\ Tagged(q, t)'
           /\ t.nonce = placesVersion /\ DataOf(q, t) = DataLevel(q)' => DataLevel(q)' = DataLevel(q)
           /\ t.nonce = placesVersion /\ t.refresh = RefreshLevel(q)' => RefreshLevel(q)' = RefreshLevel(q)
           /\ t.nonce = placesVersion /\ t.mesh = MeshLevel(q)' => MeshLevel(q)' = MeshLevel(q)
<1>1. /\ DataLevel(q) \in Nat /\ RefreshLevel(q) \in Nat /\ MeshLevel(q) \in Nat
      /\ DataLevel(q)' \in Nat /\ RefreshLevel(q)' \in Nat /\ MeshLevel(q)' \in Nat
  BY LevelTypes, LevelTypesAfter
<1>2. /\ placesVersion' = placesVersion
      /\ DataLevel(q) <= DataLevel(q)' /\ RefreshLevel(q) <= RefreshLevel(q)' /\ MeshLevel(q) <= MeshLevel(q)'
  BY DEF Steady
<1>3. /\ t = [q |-> q, nonce |-> t.nonce, data |-> t.data, refresh |-> t.refresh, mesh |-> t.mesh]
      /\ t.nonce \in Nat /\ t.refresh \in Nat /\ t.mesh \in Nat /\ DataOf(q, t) \in Nat
      /\ q.kind = "GetEvent" => t.data \in (Nat \ {0}) \X Nat
      /\ t.nonce <= placesVersion
      /\ t.nonce = placesVersion =>
            DataOf(q, t) <= DataLevel(q) /\ t.refresh <= RefreshLevel(q) /\ t.mesh <= MeshLevel(q)
  BY DEF Tagged
<1>4. DataOf(q, t)' = DataOf(q, t)  BY DEF DataOf
<1>5. Tagged(q, t)'
  <2>1. t.nonce = placesVersion' =>
            DataOf(q, t) <= DataLevel(q)' /\ t.refresh <= RefreshLevel(q)' /\ t.mesh <= MeshLevel(q)'
    BY <1>1, <1>2, <1>3
  <2> QED  BY <1>2, <1>3, <1>4, <2>1 DEF Tagged
<1> QED  BY <1>1, <1>2, <1>3, <1>5

LEMMA VouchesKept ==
    ASSUME ServerTypes, ServerTypes', NEW q \in Query, Steady(q), NEW t, Tagged(q, t), NEW result, Vouches(q, t, result)
    PROVE  Vouches(q, t, result)'
<1>1. ASSUME t.nonce = placesVersion', DataOf(q, t) = DataLevel(q)', t.refresh = RefreshLevel(q)'
      PROVE  result = Result(q)'
  <2>1. t.nonce = placesVersion  BY <1>1 DEF Steady
  <2>2. DataLevel(q)' = DataLevel(q) /\ RefreshLevel(q)' = RefreshLevel(q)  BY <1>1, <2>1, TaggedKept
  <2>3. Result(q)' = Result(q)  BY <2>2 DEF Steady
  <2> QED  BY <1>1, <2>1, <2>2, <2>3 DEF Vouches
<1>2. DataOf(q, t)' = DataOf(q, t)  BY DEF DataOf
<1> QED  BY <1>1, <1>2 DEF Vouches

LEMMA CopyKept ==
    ASSUME ServerTypes, ServerTypes', NEW q \in Query, Steady(q), NEW c, CopyOK(q, c)
    PROVE  CopyOK(q, c)'
<1>1. Tagged(q, c.tag) /\ Vouches(q, c.tag, c.body[1]) /\ InLayers(q, c.body[1])  BY DEF CopyOK
<1>2. Tagged(q, c.tag)' /\ Vouches(q, c.tag, c.body[1])'  BY <1>1, TaggedKept, VouchesKept
<1>3. InLayers(q, c.body[1])'  BY <1>1 DEF InLayers
<1>4. ASSUME ~c.degraded, c.tag.nonce = placesVersion', c.tag.mesh = MeshLevel(q)'
      PROVE  c.body[2] = Overlay(q, c.body[1])'
  <2>1. c.tag.nonce = placesVersion  BY <1>4 DEF Steady
  <2>2. MeshLevel(q)' = MeshLevel(q)  BY <1>1, <1>4, <2>1, TaggedKept
  <2>3. Overlay(q, c.body[1])' = Overlay(q, c.body[1])  BY <1>1, <2>2 DEF Steady
  <2> QED  BY <1>4, <2>1, <2>2, <2>3 DEF CopyOK
<1>5. c.body = <<c.body[1], c.body[2]>> /\ (q.kind # "ListEvents" => c.body[2] = c.tag.mesh)  BY DEF CopyOK
<1> QED  BY <1>2, <1>3, <1>4, <1>5 DEF CopyOK

LEMMA RequestKept ==
    ASSUME ServerTypes, ServerTypes', NEW q \in Query, Steady(q), NEW r, RequestOK(q, r)
    PROVE  RequestOK(q, r)'
<1>1. Tagged(q, r.tag) /\ r.tag.nonce = placesVersion /\ placesVersion' = placesVersion  BY DEF RequestOK, Steady
<1>2. Tagged(q, r.tag)'  BY <1>1, TaggedKept
<1>3. r.step = "overlay" => Vouches(q, r.tag, r.result)'  BY <1>1, VouchesKept DEF RequestOK
<1>4. InLayers(q, r.result)' <=> InLayers(q, r.result)  BY DEF InLayers
<1> QED  BY <1>1, <1>2, <1>3, <1>4 DEF RequestOK

LEMMA ConfirmKept ==
    ASSUME ServerTypes, ServerTypes', NEW q \in Query, Steady(q), NEW r, RequestOK(q, r), NEW c, CopyOK(q, c),
           ConfirmOK(q, r, c)
    PROVE  ConfirmOK(q, r, c)'
<1>1. /\ RefreshPart(q) \in Nat /\ MeshPart(q) \in Nat /\ RefreshPart(q)' \in Nat /\ MeshPart(q)' \in Nat
  BY LevelTypes, LevelTypesAfter
<1>2. RefreshPart(q) <= RefreshPart(q)' /\ MeshPart(q) <= MeshPart(q)' /\ placesVersion' = placesVersion  BY DEF Steady
<1>3. c.tag.refresh \in Nat /\ c.tag.mesh \in Nat  BY DEF CopyOK, Tagged
<1>4. DataOf(q, c.tag)' = DataOf(q, c.tag) /\ DataOf(q, r.tag)' = DataOf(q, r.tag)  BY DEF DataOf
<1>5. MeshPart(q)' <= c.tag.mesh => MeshPart(q) <= c.tag.mesh  BY <1>1, <1>2, <1>3
<1>6. RefreshPart(q)' <= c.tag.refresh => RefreshPart(q) <= c.tag.refresh  BY <1>1, <1>2, <1>3
<1>7. (IF r.step = "refresh" THEN RefreshPart(q)' ELSE r.tag.refresh) <= c.tag.refresh
        => (IF r.step = "refresh" THEN RefreshPart(q) ELSE r.tag.refresh) <= c.tag.refresh
  BY <1>6
<1> QED  BY <1>2, <1>4, <1>5, <1>7 DEF ConfirmOK

\* A copy that an earlier process gave vouches for nothing.
LEMMA CopyOutlivesProcess ==
    ASSUME NEW q \in Query, NEW c, CopyOK(q, c), placesVersion \in Nat, placesVersion' = placesVersion + 1
    PROVE  CopyOK(q, c)'
<1>1. c.tag.nonce \in Nat /\ c.tag.nonce <= placesVersion  BY DEF CopyOK, Tagged
<1>2. c.tag.nonce # placesVersion' /\ c.tag.nonce <= placesVersion'  BY <1>1
<1>3. Tagged(q, c.tag)'
  <2>1. DataOf(q, c.tag)' = DataOf(q, c.tag)  BY DEF DataOf
  <2> QED  BY <1>2, <2>1 DEF CopyOK, Tagged
<1>4. Vouches(q, c.tag, c.body[1])'  BY <1>2 DEF Vouches
<1>5. InLayers(q, c.body[1])'  BY DEF CopyOK, InLayers
<1> QED  BY <1>2, <1>3, <1>4, <1>5 DEF CopyOK

-----------------------------------------------------------------------------
(***************************************************************************)
(* The steps of a request, judged where they are taken.                    *)
(***************************************************************************)
\* The data part of a tag taken now is at its level.
LEMMA DataPartLevel ==
    ASSUME ServerTypes, NEW q \in Query, q.kind = "GetEvent" => Known(q.id), NEW t, t.data = DataPart(q)
    PROVE  /\ DataOf(q, t) = DataLevel(q) /\ DataOf(q, t) \in Nat
           /\ q.kind = "GetEvent" => t.data \in (Nat \ {0}) \X Nat
<1>1. DataLevel(q) \in Nat  BY LevelTypes
<1>2. CASE q.kind = "GetEvent"
  <2>1. q.id \in Event /\ Known(q.id)  BY <1>2, QueryShape
  <2>2. rows[q.id].rev \in Nat \ {0} /\ rows[q.id].fresh \in Nat  BY <2>1, RowShape
  <2>3. t.data = <<rows[q.id].rev, rows[q.id].fresh>>  BY <1>2, <2>1 DEF DataPart
  <2>4. DataLevel(q) = rows[q.id].rev + rows[q.id].fresh  BY <1>2, <2>1 DEF DataLevel
  <2> QED  BY <1>1, <1>2, <2>2, <2>3, <2>4 DEF DataOf
<1>3. CASE q.kind # "GetEvent"
  <2>1. DataPart(q) = DataLevel(q)  BY <1>3, QueryShape DEF DataPart, DataLevel
  <2> QED  BY <1>1, <1>3, <2>1 DEF DataOf
<1> QED  BY <1>2, <1>3

\* The events a list returns are of its layers.
LEMMA ResultInLayers == ASSUME NEW q \in Query PROVE InLayers(q, Result(q))
<1>1. CASE q.kind = "ListEvents"
  <2>1. Result(q) = [e \in {e \in Event : Matches(e, q) /\ rows[e].status \in q.status} |-> Blob(e)]
    BY <1>1 DEF Result
  <2> QED  BY <2>1 DEF InLayers, Matches
<1>2. CASE q.kind # "ListEvents"  BY <1>2 DEF InLayers
<1> QED  BY <1>1, <1>2

LEMMA StartOK ==
    ASSUME ServerTypes, NEW q \in Query, q.kind = "GetEvent" => Known(q.id), NEW r,
           r = [step |-> "refresh", q |-> q,
                tag |-> [q |-> q, nonce |-> placesVersion, data |-> DataPart(q), refresh |-> 0, mesh |-> 0],
                result |-> 0, was |-> Body(q), uncounted |-> Uncounted(q)]
    PROVE  /\ RequestOK(q, r)
           /\ \A c : CopyOK(q, c) => ConfirmOK(q, r, c)
<1>1. /\ r.step = "refresh" /\ r.result = 0 /\ r.was = Body(q) /\ r.uncounted = Uncounted(q)
      /\ r.tag = [q |-> q, nonce |-> placesVersion, data |-> DataPart(q), refresh |-> 0, mesh |-> 0]
  OBVIOUS
<1>2. r.tag.nonce = placesVersion /\ r.tag.data = DataPart(q) /\ r.tag.refresh = 0 /\ r.tag.mesh = 0  BY <1>1
<1>3. /\ DataLevel(q) \in Nat /\ RefreshLevel(q) \in Nat /\ MeshLevel(q) \in Nat
      /\ RefreshPart(q) \in Nat /\ MeshPart(q) \in Nat /\ placesVersion \in Nat
  BY LevelTypes
<1>4. DataOf(q, r.tag) = DataLevel(q) /\ (q.kind = "GetEvent" => r.tag.data \in (Nat \ {0}) \X Nat)
  BY <1>2, DataPartLevel
<1>5. Tagged(q, r.tag)  BY <1>1, <1>2, <1>3, <1>4 DEF Tagged
<1>6. RequestOK(q, r)
  <2>1. r \in RequestRecord(q, r)  BY DEF RequestRecord
  <2> QED  BY <1>1, <1>2, <1>5, <2>1 DEF RequestOK
<1>7. ASSUME NEW c, CopyOK(q, c) PROVE ConfirmOK(q, r, c)
  <2>1. Tagged(q, c.tag) /\ Vouches(q, c.tag, c.body[1])  BY <1>7 DEF CopyOK
  <2>2. c.tag.q = q /\ c.tag.refresh \in Nat /\ c.tag.mesh \in Nat  BY <2>1 DEF Tagged
  <2>3. ASSUME ~r.uncounted, c.tag.nonce = placesVersion, DataOf(q, c.tag) = DataOf(q, r.tag),
               RefreshPart(q) <= c.tag.refresh
        PROVE  /\ c.body[1] = r.was[1]
               /\ ~c.degraded /\ MeshPart(q) <= c.tag.mesh => c.body[2] = r.was[2]
    <3>1. RefreshPart(q) = RefreshLevel(q) /\ MeshPart(q) = MeshLevel(q)
      BY <1>1, <2>3, RefreshLevels, MeshLevels
    <3>2. c.tag.refresh <= RefreshLevel(q) /\ c.tag.mesh <= MeshLevel(q)  BY <2>1, <2>3 DEF Tagged
    <3>3. c.tag.refresh = RefreshLevel(q)  BY <1>3, <2>2, <2>3, <3>1, <3>2
    <3>4. c.body[1] = Result(q)  BY <1>4, <2>1, <2>3, <3>3 DEF Vouches
    <3>5. r.was[1] = Result(q) /\ r.was[2] = Overlay(q, Result(q))  BY <1>1 DEF Body
    <3>6. ASSUME ~c.degraded, MeshPart(q) <= c.tag.mesh PROVE c.body[2] = r.was[2]
      <4>1. c.tag.mesh = MeshLevel(q)  BY <1>3, <2>2, <3>1, <3>2, <3>6
      <4>2. c.body[2] = Overlay(q, c.body[1])  BY <1>7, <2>3, <3>6, <4>1 DEF CopyOK
      <4> QED  BY <3>4, <3>5, <4>2
    <3> QED  BY <3>4, <3>5, <3>6
  <2> QED  BY <1>1, <2>2, <2>3 DEF ConfirmOK
<1> QED  BY <1>6, <1>7

LEMMA ReadRefreshOK ==
    ASSUME ServerTypes, NEW q \in Query, NEW r, RequestOK(q, r), r.step = "refresh", NEW s,
           s = [r EXCEPT !.step = "mesh", !.tag.refresh = RefreshPart(q)]
    PROVE  /\ RequestOK(q, s)
           /\ \A c : ConfirmOK(q, r, c) => ConfirmOK(q, s, c)
<1>1. /\ r \in RequestRecord(q, r)
      /\ Tagged(q, r.tag) /\ r.tag.nonce = placesVersion
  BY DEF RequestOK
<1>2. r.tag = [q |-> q, nonce |-> r.tag.nonce, data |-> r.tag.data, refresh |-> r.tag.refresh, mesh |-> r.tag.mesh]
  BY <1>1 DEF Tagged
<1> DEFINE u == [r.tag EXCEPT !.refresh = RefreshPart(q)]
<1>3. s.step = "mesh" /\ s.tag = u /\ s.was = r.was /\ s.uncounted = r.uncounted /\ s \in RequestRecord(q, s)
  BY <1>1 DEF RequestRecord
<1>4. u = [q |-> q, nonce |-> r.tag.nonce, data |-> r.tag.data, refresh |-> RefreshPart(q), mesh |-> r.tag.mesh]  BY <1>2
<1> HIDE DEF u
<1>5. /\ u.nonce = r.tag.nonce /\ u.data = r.tag.data /\ u.refresh = RefreshPart(q) /\ u.mesh = r.tag.mesh
      /\ u = [q |-> q, nonce |-> u.nonce, data |-> u.data, refresh |-> u.refresh, mesh |-> u.mesh]
  BY <1>4
<1>6. RefreshPart(q) \in Nat /\ RefreshPart(q) <= RefreshLevel(q)  BY RefreshLevels
<1>7. DataOf(q, u) = DataOf(q, r.tag)  BY <1>5 DEF DataOf
<1>8. Tagged(q, u)  BY <1>1, <1>5, <1>6, <1>7 DEF Tagged
<1>9. RequestOK(q, s)  BY <1>1, <1>3, <1>5, <1>8 DEF RequestOK
<1>10. ASSUME NEW c, ConfirmOK(q, r, c) PROVE ConfirmOK(q, s, c)
  BY <1>3, <1>5, <1>7, <1>10 DEF ConfirmOK
<1> QED  BY <1>9, <1>10

LEMMA GuardOK ==
    ASSUME ServerTypes, NEW q \in Query, NEW r, RequestOK(q, r), r.step = "mesh", NEW m \in {0, MeshPart(q)}, NEW s,
           s = [r EXCEPT !.step = "query", !.tag = [r.tag EXCEPT !.mesh = m]]
    PROVE  RequestOK(q, s) /\ s.step = "query"
<1>1. /\ r \in RequestRecord(q, r)
      /\ Tagged(q, r.tag) /\ r.tag.nonce = placesVersion
  BY DEF RequestOK
<1>2. r.tag = [q |-> q, nonce |-> r.tag.nonce, data |-> r.tag.data, refresh |-> r.tag.refresh, mesh |-> r.tag.mesh]
  BY <1>1 DEF Tagged
<1> DEFINE u == [r.tag EXCEPT !.mesh = m]
<1>3. s.step = "query" /\ s.tag = u /\ s \in RequestRecord(q, s)  BY <1>1 DEF RequestRecord
<1>4. u = [q |-> q, nonce |-> r.tag.nonce, data |-> r.tag.data, refresh |-> r.tag.refresh, mesh |-> m]  BY <1>2
<1> HIDE DEF u
<1>5. /\ u.nonce = r.tag.nonce /\ u.data = r.tag.data /\ u.refresh = r.tag.refresh /\ u.mesh = m
      /\ u = [q |-> q, nonce |-> u.nonce, data |-> u.data, refresh |-> u.refresh, mesh |-> u.mesh]
  BY <1>4
<1>6. m \in Nat /\ m <= MeshLevel(q)  BY MeshLevels
<1>7. DataOf(q, u) = DataOf(q, r.tag)  BY <1>5 DEF DataOf
<1>8. Tagged(q, u)  BY <1>1, <1>5, <1>6, <1>7 DEF Tagged
<1> QED  BY <1>1, <1>3, <1>5, <1>8 DEF RequestOK

LEMMA LoadListOK ==
    ASSUME NEW q \in Query, NEW r, RequestOK(q, r), r.step = "query", q.kind = "ListEvents", NEW s,
           s = [r EXCEPT !.step = "overlay", !.result = Result(q)]
    PROVE  RequestOK(q, s) /\ s.step = "overlay"
<1>1. /\ r \in RequestRecord(q, r)
      /\ Tagged(q, r.tag) /\ r.tag.nonce = placesVersion
  BY DEF RequestOK
<1>2. s.step = "overlay" /\ s.tag = r.tag /\ s.result = Result(q) /\ s \in RequestRecord(q, s)
  BY <1>1 DEF RequestRecord
<1>3. Vouches(q, s.tag, s.result) /\ InLayers(q, s.result)  BY <1>2, ResultInLayers DEF Vouches
<1> QED  BY <1>1, <1>2, <1>3 DEF RequestOK

LEMMA LoadOneOK ==
    ASSUME ServerTypes, NEW q \in Query, NEW r, RequestOK(q, r), r.step = "query", q.kind # "ListEvents", NEW c,
           c = [tag |-> r.tag, body |-> <<Result(q), r.tag.mesh>>, degraded |-> FALSE]
    PROVE  CopyOK(q, c)
<1>1. c.tag = r.tag /\ c.body = <<Result(q), r.tag.mesh>> /\ c.degraded = FALSE  OBVIOUS
<1>2. c.body[1] = Result(q) /\ c.body[2] = c.tag.mesh /\ c.body = <<c.body[1], c.body[2]>>  BY <1>1
<1>3. Tagged(q, c.tag)  BY <1>1 DEF RequestOK
<1>4. InLayers(q, c.body[1])  BY DEF InLayers
<1>5. Vouches(q, c.tag, c.body[1])  BY <1>2 DEF Vouches
<1>6. Overlay(q, c.body[1]) = MeshLevel(q)  BY MeshLevels
<1> QED  BY <1>2, <1>3, <1>4, <1>5, <1>6 DEF CopyOK

LEMMA RespondOK ==
    ASSUME NEW q \in Query, NEW r, RequestOK(q, r), r.step = "overlay", NEW failed \in BOOLEAN, NEW c,
           c = [tag |-> r.tag, degraded |-> failed,
                body |-> <<r.result, IF failed THEN [e \in DOMAIN Overlay(q, r.result) |-> 0] ELSE Overlay(q, r.result)>>]
    PROVE  CopyOK(q, c)
<1> DEFINE stamp == IF failed THEN [e \in DOMAIN Overlay(q, r.result) |-> 0] ELSE Overlay(q, r.result)
<1>1. c.tag = r.tag /\ c.body = <<r.result, stamp>> /\ c.degraded = failed  OBVIOUS
<1>2. ~failed => stamp = Overlay(q, r.result)  OBVIOUS
<1> HIDE DEF stamp
<1>3. c.body[1] = r.result /\ c.body[2] = stamp /\ c.body = <<c.body[1], c.body[2]>>  BY <1>1
<1>4. Tagged(q, r.tag) /\ q.kind = "ListEvents" /\ InLayers(q, r.result) /\ Vouches(q, r.tag, r.result)
  BY DEF RequestOK
<1> QED  BY <1>1, <1>2, <1>3, <1>4 DEF CopyOK

-----------------------------------------------------------------------------
(***************************************************************************)
(* The theorems.                                                           *)
(***************************************************************************)
Writes == Upsert \/ BumpRefreshVersion \/ Transition \/ RecordMeshTick \/ BumpMeshActivity
Reads  == Start \/ ReadRefresh \/ NotModified \/ Guard \/ Load \/ Respond

LEMMA InitTagInv == Init => TagInv
<1> SUFFICES ASSUME Init PROVE TagInv  OBVIOUS
<1>1. ServerTypes
  <2>1. rows \in [Event -> {NoRow} \cup Row] /\ dataCount \in Nat /\ places \subseteq Place  BY DEF Init, StoreInit
  <2>2. refreshVersions \in [Layer -> Nat] /\ owed \in [Layer -> Nat] /\ activity \in [Event -> Nat]  BY DEF Init
  <2>3. meshActivityVersion \in Nat /\ meshOwed \in Nat /\ placesVersion \in Nat  BY DEF Init
  <2> QED  BY <2>1, <2>2, <2>3 DEF ServerTypes
<1>2. cached = Nil /\ req = Idle  BY DEF Init
<1> QED  BY <1>1, <1>2 DEF TagInv

\* What is left alone stays good.
LEMMA SteadyKeeps ==
    ASSUME TagInv, ServerTypes', \A q \in Query : Steady(q)
    PROVE  /\ \A c \in {cached} \ {Nil} : \E q \in Query : CopyOK(q, c)'
           /\ \A r \in {req} \ {Idle} : \E q \in Query :
                 RequestOK(q, r)' /\ \A c \in {cached} \ {Nil} : ConfirmOK(q, r, c)'
<1>1. ServerTypes  BY DEF TagInv
<1>2. ASSUME NEW c \in {cached} \ {Nil} PROVE \E q \in Query : CopyOK(q, c)'
  <2>1. PICK q \in Query : CopyOK(q, c)  BY DEF TagInv
  <2>2. CopyOK(q, c)'  BY <1>1, <2>1, CopyKept
  <2> QED  BY <2>2
<1>3. ASSUME NEW r \in {req} \ {Idle}
      PROVE  \E q \in Query : RequestOK(q, r)' /\ \A c \in {cached} \ {Nil} : ConfirmOK(q, r, c)'
  <2>1. PICK q \in Query : RequestOK(q, r) /\ \A c \in {cached} \ {Nil} : ConfirmOK(q, r, c)  BY DEF TagInv
  <2>2. RequestOK(q, r)'  BY <1>1, <2>1, RequestKept
  <2>3. ASSUME NEW c \in {cached} \ {Nil} PROVE ConfirmOK(q, r, c)'
    <3>1. PICK p \in Query : CopyOK(p, c)  BY DEF TagInv
    <3>2. c.tag.q = p  BY <3>1 DEF CopyOK, Tagged
    <3>3. ConfirmOK(q, r, c) /\ p = q  BY <2>1, <3>2 DEF ConfirmOK
    <3> QED  BY <1>1, <2>1, <3>1, <3>3, ConfirmKept
  <2> QED  BY <2>2, <2>3
<1> QED  BY <1>2, <1>3

LEMMA WritesKeepTagInv == ASSUME TagInv, Writes PROVE TagInv'
<1>1. ServerTypes  BY DEF TagInv
<1>2. ASSUME NEW q \in Query PROVE ServerTypes' /\ Steady(q)
  BY <1>1, UpsertSteady, BumpRefreshSteady, TransitionSteady, MeshTickSteady, BumpMeshSteady DEF Writes
<1>3. req' = req /\ cached' = cached
  BY DEF Writes, Upsert, BumpRefreshVersion, Transition, RecordMeshTick, BumpMeshActivity, validatorVars
<1>4. ServerTypes' /\ \A q \in Query : Steady(q)  BY <1>2, QueryAssumption
<1>5. /\ \A c \in {cached} \ {Nil} : \E q \in Query : CopyOK(q, c)'
      /\ \A r \in {req} \ {Idle} : \E q \in Query :
            RequestOK(q, r)' /\ \A c \in {cached} \ {Nil} : ConfirmOK(q, r, c)'
  BY <1>4, SteadyKeeps
<1> QED  BY <1>3, <1>4, <1>5 DEF TagInv

LEMMA RestartKeepsTagInv == ASSUME TagInv, Restart PROVE TagInv'
<1>1. ServerTypes  BY DEF TagInv
<1>2. PICK new \in SUBSET Place : SeedPlaces(new)  BY DEF Restart
<1>3. /\ rows' = rows /\ dataCount' = dataCount /\ places' \subseteq Place
  BY <1>1, <1>2 DEF SeedPlaces, ServerTypes
<1>4. /\ refreshVersions' \in [Layer -> Nat] /\ owed' \in [Layer -> Nat] /\ activity' = activity
      /\ meshActivityVersion' \in Nat /\ meshOwed' \in Nat
  BY DEF Restart
<1>5. placesVersion \in Nat /\ placesVersion' = placesVersion + 1 /\ req' = Idle /\ cached' = cached
  BY <1>1 DEF Restart, ServerTypes
<1>6. ServerTypes'  BY <1>1, <1>3, <1>4, <1>5 DEF ServerTypes
<1>7. ASSUME NEW c \in {cached} \ {Nil} PROVE \E q \in Query : CopyOK(q, c)'
  <2>1. PICK q \in Query : CopyOK(q, c)  BY DEF TagInv
  <2>2. CopyOK(q, c)'  BY <1>5, <2>1, CopyOutlivesProcess
  <2> QED  BY <2>2
<1> QED  BY <1>5, <1>6, <1>7 DEF TagInv

LEMMA ReadsKeepTagInv == ASSUME TagInv, Reads PROVE TagInv'
<1>1. ServerTypes  BY DEF TagInv
<1>2. UNCHANGED serverVars
  BY DEF Reads, Start, ReadRefresh, NotModified, Guard, Load, Respond, serverVars
<1>3. ServerTypes' /\ \A q \in Query : Steady(q)  BY <1>1, <1>2, ReadSteady, QueryAssumption
<1>4. /\ \A c \in {cached} \ {Nil} : \E q \in Query : CopyOK(q, c)'
      /\ \A r \in {req} \ {Idle} : \E q \in Query :
            RequestOK(q, r)' /\ \A c \in {cached} \ {Nil} : ConfirmOK(q, r, c)'
  BY <1>3, SteadyKeeps
<1>5. \A r : r = Idle => r.step = "idle"  BY DEF Idle
\* The request a step of it is about, and its query.
<1>6. ASSUME req.step # "idle"
      PROVE  \E q \in Query : /\ RequestOK(q, req) /\ req.q = q
                              /\ \A c \in {cached} \ {Nil} : CopyOK(q, c) /\ ConfirmOK(q, req, c)
  <2>1. req \in {req} \ {Idle}  BY <1>5, <1>6
  <2>2. PICK q \in Query : RequestOK(q, req) /\ \A c \in {cached} \ {Nil} : ConfirmOK(q, req, c)  BY <2>1 DEF TagInv
  <2>3. req.q = q  BY <2>2 DEF RequestOK, RequestRecord
  <2>4. ASSUME NEW c \in {cached} \ {Nil} PROVE CopyOK(q, c)
    <3>1. PICK p \in Query : CopyOK(p, c)  BY DEF TagInv
    <3>2. c.tag.q = p  BY <3>1 DEF CopyOK, Tagged
    <3>3. c.tag.q = q  BY <2>2 DEF ConfirmOK
    <3> QED  BY <3>1, <3>2, <3>3
  <2> QED  BY <2>2, <2>3, <2>4
\* A new request, good where it stands, is good after the step.
<1>7. ASSUME NEW q \in Query, NEW s, RequestOK(q, s), \A c \in {cached} \ {Nil} : CopyOK(q, c) /\ ConfirmOK(q, s, c),
             req' = s, cached' = cached
      PROVE  TagInv'
  <2>1. RequestOK(q, s)'  BY <1>1, <1>3, <1>7, RequestKept
  <2>2. ASSUME NEW c \in {cached} \ {Nil} PROVE ConfirmOK(q, s, c)'  BY <1>1, <1>3, <1>7, ConfirmKept
  <2>3. \A r \in {req'} \ {Idle} : RequestOK(q, r)' /\ \A c \in {cached'} \ {Nil} : ConfirmOK(q, r, c)'
    BY <1>7, <2>1, <2>2
  <2> QED  BY <1>3, <1>4, <1>7, <2>3 DEF TagInv
\* So is a new copy.
<1>8. ASSUME NEW q \in Query, NEW c, CopyOK(q, c), req' = Idle, cached' = c PROVE TagInv'
  <2>1. CopyOK(q, c)'  BY <1>1, <1>3, <1>8, CopyKept
  <2> QED  BY <1>3, <1>8, <2>1 DEF TagInv
<1>9. CASE Start
  <2>1. PICK q \in Query :
          /\ cached # Nil => q = cached.tag.q
          /\ q.kind \in {"GetEvent", "GetEventHistory"} => Known(q.id)
          /\ req' = [step |-> "refresh", q |-> q,
                     tag |-> [q |-> q, nonce |-> placesVersion, data |-> DataPart(q), refresh |-> 0, mesh |-> 0],
                     result |-> 0, was |-> Body(q), uncounted |-> Uncounted(q)]
    BY <1>9, Zenon DEF Start
  <2>2. cached' = cached  BY <1>9 DEF Start
  <2>3. PICK s : s = req'  OBVIOUS
  <2>4. RequestOK(q, s) /\ \A c : CopyOK(q, c) => ConfirmOK(q, s, c)  BY <1>1, <2>1, <2>3, StartOK
  <2>5. ASSUME NEW c \in {cached} \ {Nil} PROVE CopyOK(q, c)
    <3>1. PICK p \in Query : CopyOK(p, c)  BY DEF TagInv
    <3>2. c.tag.q = p  BY <3>1 DEF CopyOK, Tagged
    <3>3. c.tag.q = q  BY <2>1
    <3> QED  BY <3>1, <3>2, <3>3
  <2> QED  BY <1>7, <2>2, <2>3, <2>4, <2>5
<1>10. CASE ReadRefresh
  <2>1. req.step = "refresh" /\ cached' = cached /\ req' = [req EXCEPT !.step = "mesh", !.tag.refresh = RefreshPart(req.q)]
    BY <1>10 DEF ReadRefresh
  <2>2. PICK q \in Query : /\ RequestOK(q, req) /\ req.q = q
                           /\ \A c \in {cached} \ {Nil} : CopyOK(q, c) /\ ConfirmOK(q, req, c)
    BY <1>6, <2>1
  <2>3. PICK s : s = req'  OBVIOUS
  <2>4. s = [req EXCEPT !.step = "mesh", !.tag.refresh = RefreshPart(q)]  BY <2>1, <2>2, <2>3
  <2>5. RequestOK(q, s) /\ \A c : ConfirmOK(q, req, c) => ConfirmOK(q, s, c)  BY <1>1, <2>1, <2>2, <2>4, ReadRefreshOK
  <2> QED  BY <1>7, <2>1, <2>2, <2>3, <2>5
<1>11. CASE NotModified
  <2>1. req' = Idle /\ cached' = cached  BY <1>11 DEF NotModified
  <2> QED  BY <1>3, <1>4, <2>1 DEF TagInv
<1>12. CASE Guard
  <2>1. req.step = "mesh" /\ cached' = cached  BY <1>12 DEF Guard
  <2>2. PICK failed \in BOOLEAN : req' = [req EXCEPT !.step = "query", !.tag = FullTag(failed)]
    BY <1>12 DEF Guard
  <2>3. PICK q \in Query : /\ RequestOK(q, req) /\ req.q = q
                           /\ \A c \in {cached} \ {Nil} : CopyOK(q, c) /\ ConfirmOK(q, req, c)
    BY <1>6, <2>1
  <2>4. PICK s : s = req'  OBVIOUS
  <2>5. PICK m \in {0, MeshPart(q)} : m = IF failed THEN 0 ELSE MeshPart(q)  OBVIOUS
  <2>6. s = [req EXCEPT !.step = "query", !.tag = [req.tag EXCEPT !.mesh = m]]
    BY <2>2, <2>3, <2>4, <2>5 DEF FullTag
  <2>7. RequestOK(q, s) /\ s.step = "query"  BY <1>1, <2>1, <2>3, <2>6, GuardOK
  <2>8. ASSUME NEW c \in {cached} \ {Nil} PROVE CopyOK(q, c) /\ ConfirmOK(q, s, c)
    <3>1. CopyOK(q, c) /\ c.tag.q = q  BY <2>3 DEF ConfirmOK
    <3> QED  BY <2>7, <3>1 DEF ConfirmOK
  <2> QED  BY <1>7, <2>1, <2>4, <2>7, <2>8
<1>13. CASE Load
  <2>1. req.step = "query"  BY <1>13 DEF Load
  <2>2. PICK q \in Query : /\ RequestOK(q, req) /\ req.q = q
                           /\ \A c \in {cached} \ {Nil} : CopyOK(q, c) /\ ConfirmOK(q, req, c)
    BY <1>6, <2>1
  <2>3. CASE q.kind = "ListEvents"
    <3>1. PICK s : s = req'  OBVIOUS
    <3>2. s = [req EXCEPT !.step = "overlay", !.result = Result(q)] /\ cached' = cached
      BY <1>13, <2>2, <2>3, <3>1 DEF Load
    <3>3. RequestOK(q, s) /\ s.step = "overlay"  BY <2>1, <2>2, <2>3, <3>2, LoadListOK
    <3>4. ASSUME NEW c \in {cached} \ {Nil} PROVE CopyOK(q, c) /\ ConfirmOK(q, s, c)
      <4>1. CopyOK(q, c) /\ c.tag.q = q  BY <2>2 DEF ConfirmOK
      <4> QED  BY <3>3, <4>1 DEF ConfirmOK
    <3> QED  BY <1>7, <3>1, <3>2, <3>3, <3>4
  <2>4. CASE q.kind # "ListEvents"
    <3>1. PICK c : c = cached'  OBVIOUS
    <3>2. c = [tag |-> req.tag, body |-> <<Result(q), req.tag.mesh>>, degraded |-> FALSE] /\ req' = Idle
      BY <1>13, <2>2, <2>4, <3>1 DEF Load
    <3>3. CopyOK(q, c)  BY <1>1, <2>1, <2>2, <2>4, <3>2, LoadOneOK
    <3> QED  BY <1>8, <3>1, <3>2, <3>3
  <2> QED  BY <2>3, <2>4
<1>14. CASE Respond
  <2>1. req.step = "overlay" /\ req' = Idle  BY <1>14 DEF Respond
  <2>2. PICK q \in Query : RequestOK(q, req) /\ req.q = q  BY <1>6, <2>1
  <2>3. PICK failed \in BOOLEAN :
          cached' = [tag |-> req.tag, degraded |-> failed,
                     body |-> <<req.result, IF failed THEN [e \in DOMAIN Overlay(req.q, req.result) |-> 0]
                                            ELSE Overlay(req.q, req.result)>>]
    BY <1>14, Zenon DEF Respond
  <2>4. PICK c : c = cached'  OBVIOUS
  <2>5. c = [tag |-> req.tag, degraded |-> failed,
             body |-> <<req.result, IF failed THEN [e \in DOMAIN Overlay(q, req.result) |-> 0] ELSE Overlay(q, req.result)>>]
    BY <2>2, <2>3, <2>4, Zenon
  <2>6. CopyOK(q, c)  BY <2>1, <2>2, <2>5, RespondOK
  <2> QED  BY <1>8, <2>1, <2>4, <2>6
<1> QED  BY <1>9, <1>10, <1>11, <1>12, <1>13, <1>14 DEF Reads

\* Every behaviour of the API keeps its tags honest.
LEMMA TagInvariance == Spec => []TagInv
<1>1. ASSUME TagInv, [Next]_vars PROVE TagInv'
  <2>1. CASE UNCHANGED vars
    <3>1. UNCHANGED serverVars /\ req' = req /\ cached' = cached
      BY <2>1 DEF vars, storeVars, validatorVars, serverVars
    <3>0. ServerTypes /\ TagInv  BY <1>1 DEF TagInv
    <3>2. ServerTypes' /\ \A q \in Query : Steady(q)  BY <3>0, <3>1, ReadSteady, QueryAssumption
    <3>3. /\ \A c \in {cached} \ {Nil} : \E q \in Query : CopyOK(q, c)'
          /\ \A r \in {req} \ {Idle} : \E q \in Query :
                RequestOK(q, r)' /\ \A c \in {cached} \ {Nil} : ConfirmOK(q, r, c)'
      BY <3>0, <3>2, SteadyKeeps
    <3> QED  BY <3>1, <3>2, <3>3 DEF TagInv
  <2>2. CASE Next
    <3>1. Reads \/ Writes \/ Restart  BY <2>2 DEF Next, Reads, Writes
    <3> QED  BY <1>1, <3>1, ReadsKeepTagInv, WritesKeepTagInv, RestartKeepsTagInv
  <2> QED  BY <1>1, <2>1, <2>2
<1> QED  BY <1>1, InitTagInv, PTL DEF Spec

\* A copy whose tag is the one the server would give now is the answer it would
\* give now, unless a committed rewrite is still to be counted (ListEvents,
\* GetEvent, ListHistory, bumpRefreshVersion), whatever was written while the
\* counters were read and however often the process restarted.
THEOREM TagTheorem == Spec => []TagMeansBody
<1>1. TagInv => TagMeansBody
  <2> SUFFICES ASSUME TagInv, cached # Nil, ~cached.degraded,
                      cached.tag = TagOf(cached.tag.q), ~Uncounted(cached.tag.q)
               PROVE  cached.body = Body(cached.tag.q)
    BY DEF TagMeansBody
  <2>1. PICK q \in Query : CopyOK(q, cached)  BY DEF TagInv
  <2>2. ServerTypes  BY DEF TagInv
  <2>3. Tagged(q, cached.tag) /\ Vouches(q, cached.tag, cached.body[1])  BY <2>1 DEF CopyOK
  <2>4. cached.tag.q = q  BY <2>3 DEF Tagged
  <2>5. /\ cached.tag.nonce = placesVersion /\ cached.tag.data = DataPart(q)
        /\ cached.tag.refresh = RefreshPart(q) /\ cached.tag.mesh = MeshPart(q)
    <3>1. cached.tag = TagOf(q)  BY <2>4
    <3> QED  BY <3>1 DEF TagOf
  <2>6. cached.tag.refresh = RefreshLevel(q) /\ cached.tag.mesh = MeshLevel(q)
    BY <2>2, <2>4, <2>5, RefreshLevels, MeshLevels
  <2>7. q.kind = "GetEvent" => Known(q.id)
    <3> SUFFICES ASSUME q.kind = "GetEvent" PROVE Known(q.id)  OBVIOUS
    <3>1. cached.tag.data \in (Nat \ {0}) \X Nat /\ DataOf(q, cached.tag) <= DataLevel(q)  BY <2>3, <2>5 DEF Tagged
    <3>2. DataOf(q, cached.tag) = cached.tag.data[1] + cached.tag.data[2]  BY DEF DataOf
    <3>3. DataLevel(q) \in Nat /\ DataLevel(q) # 0  BY <2>2, <3>1, <3>2, LevelTypes
    <3> QED  BY <3>3 DEF DataLevel
  <2>8. DataOf(q, cached.tag) = DataLevel(q)  BY <2>2, <2>5, <2>7, DataPartLevel
  <2>9. cached.body[1] = Result(q)  BY <2>3, <2>5, <2>6, <2>8 DEF Vouches
  <2>10. cached.body[2] = Overlay(q, cached.body[1])  BY <2>1, <2>5, <2>6 DEF CopyOK
  <2>11. cached.body = <<cached.body[1], cached.body[2]>>  BY <2>1 DEF CopyOK
  <2> QED  BY <2>4, <2>9, <2>10, <2>11 DEF Body
<1> QED  BY <1>1, TagInvariance, PTL

\* A 304 is true of the moment the request began, though its counters are read
\* one after the other while others write (etag.Guard, the handlers of grpc.go).
THEOREM NotModifiedTheorem == Spec => NotModifiedIsCurrent
<1>1. ASSUME TagInv, NotModified, ~req.uncounted, ~cached.degraded
      PROVE  /\ cached.body[1] = req.was[1]
             /\ cached.body[2] = req.was[2] \/ (req.q.kind = "GetEvent" /\ cached.body[2] = 0)
  <2>1. req.step = "mesh" /\ cached # Nil  BY <1>1 DEF NotModified
  <2>2. PICK failed \in BOOLEAN : (failed => MayFail) /\ cached.tag = FullTag(failed)  BY <1>1 DEF NotModified
  <2>3. req \in {req} \ {Idle}  BY <2>1 DEF Idle
  <2>4. PICK q \in Query : RequestOK(q, req) /\ ConfirmOK(q, req, cached)  BY <1>1, <2>1, <2>3 DEF TagInv
  <2>5. PICK p \in Query : CopyOK(p, cached)  BY <1>1, <2>1 DEF TagInv
  <2>6. p = q
    <3>1. cached.tag.q = p  BY <2>5 DEF CopyOK, Tagged
    <3>2. cached.tag.q = q  BY <2>4 DEF ConfirmOK
    <3> QED  BY <3>1, <3>2
  <2>7. req.q = q /\ Tagged(q, req.tag) /\ req.tag.nonce = placesVersion  BY <2>4 DEF RequestOK, RequestRecord
  <2>8. req.tag = [q |-> q, nonce |-> req.tag.nonce, data |-> req.tag.data, refresh |-> req.tag.refresh, mesh |-> req.tag.mesh]
    BY <2>7 DEF Tagged
  <2> DEFINE m == IF failed THEN 0 ELSE MeshPart(q)
  <2>9. cached.tag = [req.tag EXCEPT !.mesh = m]  BY <2>2, <2>7 DEF FullTag
  <2> HIDE DEF m
  <2>10. /\ cached.tag.nonce = placesVersion /\ cached.tag.data = req.tag.data
         /\ cached.tag.refresh = req.tag.refresh /\ cached.tag.mesh = m
    BY <2>7, <2>8, <2>9
  <2>11. DataOf(q, cached.tag) = DataOf(q, req.tag)  BY <2>10 DEF DataOf
  <2>12. req.tag.refresh \in Nat /\ MeshPart(q) \in Nat  BY <1>1, <2>7, LevelTypes DEF Tagged, TagInv
  <2>13. req.tag.refresh <= cached.tag.refresh  BY <2>10, <2>12
  <2>14. /\ cached.body[1] = req.was[1]
         /\ ~cached.degraded /\ MeshPart(q) <= cached.tag.mesh => cached.body[2] = req.was[2]
    BY <1>1, <2>1, <2>4, <2>10, <2>11, <2>13 DEF ConfirmOK
  <2>15. CASE ~failed
    <3>1. MeshPart(q) <= cached.tag.mesh  BY <2>10, <2>12, <2>15 DEF m
    <3> QED  BY <1>1, <2>14, <3>1
  <2>16. CASE failed
    <3>1. q.kind = "GetEvent" /\ cached.tag.mesh = 0  BY <2>2, <2>7, <2>10, <2>16 DEF MayFail, m
    <3>2. cached.body[2] = cached.tag.mesh  BY <2>5, <2>6, <3>1 DEF CopyOK
    <3> QED  BY <2>7, <2>14, <3>1, <3>2
  <2> QED  BY <2>15, <2>16
<1>2. TagInv => (NotModified /\ ~req.uncounted /\ ~cached.degraded =>
          /\ cached.body[1] = req.was[1]
          /\ cached.body[2] = req.was[2] \/ (req.q.kind = "GetEvent" /\ cached.body[2] = 0))
  BY <1>1
<1> QED  BY <1>2, TagInvariance, PTL DEF NotModifiedIsCurrent
=============================================================================
