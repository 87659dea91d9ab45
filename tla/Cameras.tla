------------------------------ MODULE Cameras ------------------------------
(***************************************************************************)
(* The camera directory, services/cameras.go: one goroutine fetches every   *)
(* district, one after the other, then takes the lock, merges what it got   *)
(* and rebuilds the snapshot that requests are served.                      *)
(***************************************************************************)
EXTENDS Integers, FiniteSets, FiniteSetsExt

CONSTANTS District,    \* roads.caltransFeeds.cwwp2.cameras.districts
          CameraRow,   \* the rows of the portal: [id, district, placed, image]
          RefreshWait, \* refreshInterval
          RetryWait,   \* cameraRetryDelay, at most RefreshWait
          Never,       \* the zero time
          CamPlace,    \* places a request may name
          CamFar,      \* [id -> [CamPlace \cup {"coverage"} -> distance]]
          NearMeters,  \* cameras.nearMeters
          MaxCamNow    \* search bound on the clock

ASSUME CamerasAssumption == Never \in Nat

VARIABLES camNow,      \* the wall clock
          camService,  \* rows the portal flags in service
          camFetch,    \* results of the Refresh in progress, or idle
          camDue,      \* when Run's timer fires
          camDistrict, \* byDist: [cams, fetchedAt, err]
          camSnap,     \* snap: [cams, status, lastUpdate]
          camAnswer    \* the latest answer of ListCameras

camVars == <<camNow, camService, camFetch, camDue, camDistrict, camSnap, camAnswer>>

CamIdle == [pc |-> "idle"]

\* servableCameras: in service, placed, with an image.
ServableCameras(d) == {c \in CameraRow : c.district = d /\ c \in camService /\ c.placed /\ c.image}

\* The newest fetch instead of the oldest.
BuildSnapshotNewest(state) ==
    LET served == {d \in District : state[d].fetchedAt # Never}
        degraded == \E d \in District : state[d].err \/ state[d].fetchedAt = Never
    IN  [cams |-> {c.id : c \in UNION {state[d].cams : d \in served}},
         status |-> IF served = {} THEN "UNAVAILABLE" ELSE IF degraded THEN "STALE" ELSE "OK",
         lastUpdate |-> IF served = {} \/ ~degraded THEN Never
                        ELSE Max({state[d].fetchedAt : d \in served})]

\* buildSnapshot over per-district state: one entry per id, the status of the
\* whole, the oldest fetch that is served unless all is well.
BuildSnapshot(state) ==
    LET served == {d \in District : state[d].fetchedAt # Never}
        degraded == \E d \in District : state[d].err \/ state[d].fetchedAt = Never
    IN  [cams |-> {c.id : c \in UNION {state[d].cams : d \in served}},
         status |-> IF served = {} THEN "UNAVAILABLE" ELSE IF degraded THEN "STALE" ELSE "OK",
         lastUpdate |-> IF served = {} \/ ~degraded THEN Never
                        ELSE Min({state[d].fetchedAt : d \in served})]

\* Run: the first refresh at once, the next when the timer fires.
StartCameraRefresh ==
    /\ camFetch = CamIdle /\ camNow >= camDue
    /\ camFetch' = [pc |-> "fetching", got |-> [d \in {} |-> {}], failed |-> {}]
    /\ UNCHANGED <<camNow, camService, camDue, camDistrict, camSnap, camAnswer>>

\* Refresh's fetch of one district.
FetchDistrict(d, ok) ==
    /\ camFetch.pc = "fetching"
    /\ d \notin DOMAIN camFetch.got \cup camFetch.failed
    /\ camFetch' = IF ok
                   THEN [camFetch EXCEPT !.got = [e \in DOMAIN @ \cup {d} |->
                             IF e = d THEN ServableCameras(d) ELSE @[e]]]
                   ELSE [camFetch EXCEPT !.failed = @ \cup {d}]
    /\ UNCHANGED <<camNow, camService, camDue, camDistrict, camSnap, camAnswer>>

\* Refresh's merge: a failed district keeps its list and its time.
MergeDistrict(old, d) ==
    IF d \in camFetch.failed THEN [old EXCEPT !.err = TRUE]
    ELSE [cams |-> camFetch.got[d], fetchedAt |-> camNow, err |-> FALSE]

MergeCameras ==
    /\ camFetch.pc = "fetching"
    /\ DOMAIN camFetch.got \cup camFetch.failed = District
    /\ camDistrict' = [d \in District |-> MergeDistrict(camDistrict[d], d)]
    /\ camSnap' = BuildSnapshot(camDistrict')
    /\ camDue' = camNow + (IF camFetch.failed # {} THEN RetryWait ELSE RefreshWait)
    /\ camFetch' = CamIdle
    /\ UNCHANGED <<camNow, camService, camAnswer>>

\* camerasNear: within the radius of the coverage area AND of the place.
CamerasNear(ids, p) ==
    {i \in ids : CamFar[i]["coverage"] <= NearMeters /\ CamFar[i][p] <= NearMeters}

\* ListCameras and the camera map layer: the snapshot of this moment.
ListCameras(p) ==
    /\ camAnswer' = [place |-> p, cams |-> CamerasNear(camSnap.cams, p), status |-> camSnap.status]
    /\ UNCHANGED <<camNow, camService, camFetch, camDue, camDistrict, camSnap>>

\* Caltrans takes a camera out of service, or puts it back.
ToggleCamera(c) ==
    /\ camService' = IF c \in camService THEN camService \ {c} ELSE camService \cup {c}
    /\ UNCHANGED <<camNow, camFetch, camDue, camDistrict, camSnap, camAnswer>>

CamTick ==
    /\ camNow < MaxCamNow
    /\ camNow' = camNow + 1
    /\ camAnswer' = CamIdle
    /\ UNCHANGED <<camService, camFetch, camDue, camDistrict, camSnap>>

NoDistrict == [cams |-> {}, fetchedAt |-> Never, err |-> FALSE]

CamInit ==
    /\ camNow = 1
    /\ camService \in SUBSET CameraRow
    /\ camFetch = CamIdle
    /\ camDue = 1
    /\ camDistrict = [d \in District |-> NoDistrict]
    /\ camSnap = BuildSnapshot([d \in District |-> NoDistrict])
    /\ camAnswer = CamIdle

CamNext ==
    \/ StartCameraRefresh \/ MergeCameras \/ CamTick
    \/ \E d \in District, ok \in BOOLEAN : FetchDistrict(d, ok)
    \/ \E c \in CameraRow : ToggleCamera(c)
    \/ \E p \in CamPlace : ListCameras(p)

CamerasSpec == CamInit /\ [][CamNext]_camVars

(***************************************************************************)
(* Properties                                                              *)
(***************************************************************************)
\* Cameras(): the status tells how far the list can be trusted.  OK: the list
\* of every district is from its latest attempt.  STALE: nothing served is
\* older than lastUpdate.  UNAVAILABLE: nothing is served at all.
CameraStatusHonest ==
    /\ camSnap.status = "OK" => \A d \in District : camDistrict[d].fetchedAt # Never /\ ~camDistrict[d].err
    /\ camSnap.status = "STALE" =>
           \A d \in District : camDistrict[d].fetchedAt # Never => camSnap.lastUpdate <= camDistrict[d].fetchedAt
    /\ camSnap.status = "UNAVAILABLE" => camSnap.cams = {}
============================================================================
