---------------------------- MODULE FeedsProofs -----------------------------
(***************************************************************************)
(* Proofs about the parts of the two services that the feeds share, for    *)
(* every value of their constants: the gate that admits their requests,    *)
(* the relay's release of its database, the poll loop of the scheduler,    *)
(* the opening of the store by releases that follow one another, the rules *)
(* by which a place is judged, the pages and the health its summary is     *)
(* read from, the map of the mesh's links, the directory that places are   *)
(* matched by, and the feeds of outages, lane closures, burn days, weather *)
(* alerts and earthquakes.                                                 *)
(***************************************************************************)
EXTENDS Gate, RelayProcess, PollLoop, StoreOpen, GridReads, PlaceDirectory, ArcGisLayers, LaneClosures, BurnLines,
        WeatherAlerts, FiniteSetTheorems, TLAPS

(***************************************************************************)
(* The admission gate, for any requests: the idle channel is closed exactly*)
(* while nobody is inside and is never closed twice, and a drain that      *)
(* reports nothing remaining left nobody behind.                           *)
(***************************************************************************)
\* The counter is the number of requests inside.
CounterCounts == inFlight = Cardinality(Inside)

\* The idle channel follows the counter.
IdleTracksCounter ==
    /\ idle \in shut <=> inFlight = 0
    /\ ~doubled

(***************************************************************************)
(* From its first step on the drain runs behind a closed gate, so the      *)
(* counts it takes only fall, and the channel it waits on is the last one  *)
(* there will ever be.                                                     *)
(***************************************************************************)
DrainBehindClosedGate ==
    /\ drain.pc # "idle" => closed
    /\ drain.pc \in {"grace", "wait"} => drain.ch = idle
    /\ drain.pc \in {"counted", "grace", "cancel", "cancelling", "wait", "done"} =>
          inFlight <= drain.inFlight
    /\ drain.pc \in {"cancelling", "wait"} =>
          inFlight <= drain.cancelled /\ drain.cancelled <= drain.inFlight
    /\ drain.pc \notin {"cancelling", "wait", "done"} => drain.cancelled = 0
    /\ drain.pc # "done" => drain.remaining = 0
    /\ drain.pc = "done" =>
          /\ drain.remaining = 0 => inFlight = 0
          /\ drain.remaining <= drain.cancelled
          /\ drain.cancelled <= drain.inFlight

GateInv ==
    /\ GateTypeOK
    /\ CounterCounts
    /\ IdleTracksCounter
    /\ DrainBehindClosedGate

-----------------------------------------------------------------------------
\* The requests inside are finitely many.
LEMMA InsideFinite ==
    /\ IsFiniteSet(Inside)
    /\ Cardinality(Inside) \in Nat
    /\ Cardinality(Inside) = 0 <=> Inside = {}
<1>1. Inside \subseteq Requests
    BY DEF Inside
<1>2. IsFiniteSet(Inside)
    BY <1>1, FS_Subset, GateAssumption
<1> QED BY <1>2, FS_CardinalityType, FS_EmptySet

\* A new gate satisfies the invariant.
LEMMA GateInitInv == GateInit => GateInv
<1> SUFFICES ASSUME GateInit PROVE GateInv
    OBVIOUS
<1>1. Inside = {}
    BY DEF GateInit, Inside
<1>2. CounterCounts
    BY <1>1, FS_EmptySet DEF GateInit, CounterCounts
<1>3. GateTypeOK
    <2>1. shut \subseteq 0..idle
        BY DEF GateInit
    <2>2. drain \in [pc : {"idle"}, ch : Nat, inFlight : Nat, cancelled : Nat,
                     remaining : Nat]
        BY DEF GateInit, NoDrain
    <2> QED BY <2>1, <2>2 DEF GateInit, GateTypeOK
<1> QED BY <1>2, <1>3
        DEF GateInit, GateInv, IdleTracksCounter, DrainBehindClosedGate, NoDrain

\* Admission moves one request inside and starts a channel for a busy gate.
LEMMA AdmitInv ==
    ASSUME GateInv, NEW r \in Requests, Admit(r)
    PROVE  GateInv'
<1>1. GateTypeOK'
    BY DEF GateInv, GateTypeOK, Admit
<1>2. Inside' = Inside \cup {r} /\ r \notin Inside
    BY DEF GateInv, GateTypeOK, Admit, Inside
<1>3. CounterCounts'
    <2>1. Cardinality(Inside \cup {r}) = Cardinality(Inside) + 1
        BY <1>2, InsideFinite, FS_AddElement
    <2> QED BY <2>1, <1>2 DEF GateInv, CounterCounts, Admit
<1>4. IdleTracksCounter'
    BY DEF GateInv, GateTypeOK, IdleTracksCounter, Admit
<1>5. DrainBehindClosedGate'
    BY DEF GateInv, GateTypeOK, DrainBehindClosedGate, Admit
<1> QED BY <1>1, <1>3, <1>4, <1>5 DEF GateInv

\* The last request to leave closes the channel.
LEMMA DoneInv ==
    ASSUME GateInv, NEW r \in Requests, Done(r)
    PROVE  GateInv'
<1>1. Inside' = Inside \ {r} /\ r \in Inside
    BY DEF GateInv, GateTypeOK, Done, Inside
<1>2. inFlight \in Nat /\ inFlight >= 1 /\ Cardinality(Inside \ {r}) = inFlight - 1
    <2>1. Cardinality(Inside \ {r}) = Cardinality(Inside) - 1
        BY <1>1, InsideFinite, FS_RemoveElement
    <2>2. Cardinality(Inside) # 0
        BY <1>1, InsideFinite
    <2> QED BY <2>1, <2>2, InsideFinite DEF GateInv, CounterCounts
<1>3. CounterCounts'
    BY <1>1, <1>2 DEF CounterCounts, Done
<1>4. GateTypeOK'
    <2>1. shut' \subseteq 0..idle' /\ doubled' \in BOOLEAN
        BY DEF GateInv, GateTypeOK, Done
    <2> QED BY <2>1, <1>2 DEF GateInv, GateTypeOK, Done
<1>5. IdleTracksCounter'
    BY <1>2 DEF GateInv, GateTypeOK, IdleTracksCounter, Done
<1>6. DrainBehindClosedGate'
    BY <1>2 DEF GateInv, GateTypeOK, DrainBehindClosedGate, Done
<1> QED BY <1>3, <1>4, <1>5, <1>6 DEF GateInv

\* Steps of a request that change neither the gate nor who is inside.
LEMMA RequestFrame ==
    ASSUME GateInv, NEW r \in Requests, Refuse(r) \/ Attach(r) \/ Tell(r)
    PROVE  GateInv'
<1>1. GateTypeOK'
    BY DEF GateInv, GateTypeOK, Refuse, Attach, Tell, gate
<1>2. Inside' = Inside
    BY DEF GateInv, GateTypeOK, Refuse, Attach, Tell, Inside
<1>3. UNCHANGED <<closed, inFlight, idle, shut, doubled, drain>>
    BY DEF Refuse, Attach, Tell, gate
<1> QED BY <1>1, <1>2, <1>3
        DEF GateInv, CounterCounts, IdleTracksCounter, DrainBehindClosedGate

\* The drain's own steps, and Close.
LEMMA DrainInv ==
    ASSUME GateInv, Close \/ Drain
    PROVE  GateInv'
<1>1. /\ UNCHANGED <<inFlight, idle, shut, doubled, req>>
      /\ Inside' = Inside
    BY DEF Close, Drain, DrainStart, DrainCounts, DrainTakesChannel, DrainIdle,
           DrainGraceEnds, DrainCountsLeft, DrainCancels, DrainWaits, gate, Inside
<1>2. GateTypeOK'
    BY DEF GateInv, GateTypeOK, Close, Drain, DrainStart, DrainCounts, DrainTakesChannel,
           DrainIdle, DrainGraceEnds, DrainCountsLeft, DrainCancels, DrainWaits, gate
<1>3. CounterCounts' /\ IdleTracksCounter'
    BY <1>1 DEF GateInv, CounterCounts, IdleTracksCounter
<1>4. DrainBehindClosedGate'
    <2>1. CASE Close
        BY <2>1 DEF GateInv, GateTypeOK, DrainBehindClosedGate, Close
    <2>2. CASE DrainStart
        BY <2>2 DEF GateInv, GateTypeOK, DrainBehindClosedGate, DrainStart
    <2>3. CASE DrainCounts
        BY <2>3 DEF GateInv, GateTypeOK, DrainBehindClosedGate, DrainCounts, gate
    <2>4. CASE DrainTakesChannel
        BY <2>4 DEF GateInv, GateTypeOK, DrainBehindClosedGate, DrainTakesChannel, gate
    <2>5. CASE DrainIdle
        BY <2>5 DEF GateInv, GateTypeOK, DrainBehindClosedGate, IdleTracksCounter,
                    DrainIdle, gate
    <2>6. CASE DrainGraceEnds
        BY <2>6 DEF GateInv, GateTypeOK, DrainBehindClosedGate, DrainGraceEnds, gate
    <2>7. CASE DrainCountsLeft
        BY <2>7 DEF GateInv, GateTypeOK, DrainBehindClosedGate, DrainCountsLeft, gate
    <2>8. CASE DrainCancels
        BY <2>8 DEF GateInv, GateTypeOK, DrainBehindClosedGate, DrainCancels, gate
    <2>9. CASE DrainWaits
        BY <2>9 DEF GateInv, GateTypeOK, DrainBehindClosedGate, DrainWaits, gate
    <2> QED BY <2>1, <2>2, <2>3, <2>4, <2>5, <2>6, <2>7, <2>8, <2>9 DEF Drain
<1> QED BY <1>2, <1>3, <1>4 DEF GateInv

\* Every behaviour of the gate keeps the invariant.
LEMMA GateAlways == GateSpec => []GateInv
<1>1. GateInv /\ UNCHANGED gateVars => GateInv'
    BY DEF GateInv, GateTypeOK, CounterCounts, Inside, IdleTracksCounter,
           DrainBehindClosedGate, gateVars
<1>2. GateInv /\ [GateNext]_gateVars => GateInv'
    BY <1>1, AdmitInv, DoneInv, RequestFrame, DrainInv DEF GateNext, Request
<1> QED BY <1>2, GateInitInv, PTL DEF GateSpec

\* Every variable of the gate, its requests and its drain keeps its type.
THEOREM GateTypes == GateSpec => []GateTypeOK
<1>1. GateInv => GateTypeOK
    BY DEF GateInv
<1> QED BY <1>1, GateAlways, PTL

(***************************************************************************)
(* The idle channel is closed exactly while nobody is inside, and done     *)
(* never closes a closed channel.                                          *)
(***************************************************************************)
THEOREM IdleIsExact == GateSpec => []IdleMeansNobody
<1>1. GateInv => IdleMeansNobody
    BY InsideFinite DEF GateInv, CounterCounts, IdleTracksCounter, IdleMeansNobody
<1> QED BY <1>1, GateAlways, PTL

(***************************************************************************)
(* What Drain reports is so: with nothing remaining nobody is inside, then *)
(* or later, and its counts only fall.                                     *)
(***************************************************************************)
THEOREM DrainReportsHonestly == GateSpec => []DrainIsHonest
<1>1. GateInv => DrainIsHonest
    BY InsideFinite DEF GateInv, CounterCounts, DrainBehindClosedGate, DrainIsHonest
<1> QED BY <1>1, GateAlways, PTL

-----------------------------------------------------------------------------
(***************************************************************************)
(* The mesh relay releases relay.db in the right order, for any number of  *)
(* activations, whichever of its steps fail and however often it is retried.*)
(***************************************************************************)
Activation == 1..MaxActivations
Flag == {"poller", "gate", "sessions", "drained", "store"}

QuiesceStep == {"", "poller", "gate", "sessions", "drained", "store"}
RelayWorld ==
    [state : {"STANDBY", "ACTIVATING", "ACTIVE", "QUIESCING", "QUIESCED"}, held : BOOLEAN,
     n : 0..MaxActivations, step : {"", "open", "relay", "serve", "listen"},
     quiesce : QuiesceStep, releasing : BOOLEAN, has : SUBSET {"store", "relay", "poller"}, quiesced : SUBSET Flag]

RelayTypes == part = "relay" /\ world \in RelayWorld /\ live \in [Use -> SUBSET Activation]

\* Nothing of the activation is left but its server and what the drain gave up on.
Gone(m) == m \notin live["store"] \cup live["gate"] \cup live["poller"] \cup live["session"] \cup (live["request"] \ live["stuck"])

\* Every activation but the last is over; those to come have not begun.
PastIsGone == \A m \in Activation : m # world.n => Gone(m)

\* The controller's report.
HeldFollowsState ==
    /\ world.held <=> world.state \notin {"STANDBY", "QUIESCED"}
    /\ ~world.held => Gone(world.n) /\ world.step = "" /\ world.quiesce = ""
    /\ world.step # "" => world.quiesce = "" /\ world.n \in Activation /\ world.quiesced = {} /\ world.state = "ACTIVATING"
    /\ world.quiesce # "" => world.state \in {"ACTIVATING", "QUIESCING"}
    /\ world.state = "ACTIVATING" => (world.step # "" \/ world.quiesce # "") /\ world.n \in Activation
    /\ world.state \in {"ACTIVE", "QUIESCING"} => world.n \in Activation

\* A step of Quiesce is marked done after those before it.
FlagsInOrder ==
    LET q == world.quiesced IN
    /\ "gate" \in q => "poller" \in q
    /\ "sessions" \in q => "gate" \in q
    /\ "drained" \in q => "sessions" \in q
    /\ "store" \in q => "drained" \in q
    /\ world.quiesce = "gate" => "poller" \in q
    /\ world.quiesce = "sessions" => "gate" \in q
    /\ world.quiesce = "drained" => "sessions" \in q
    /\ world.quiesce = "store" => "drained" \in q

\* What the fields and flags of relayApp say of what is open.
FieldsTell ==
    LET q == world.quiesced
        n == world.n
    IN
    /\ "relay" \in world.has => "store" \in world.has
    /\ "poller" \in world.has => "relay" \in world.has
    /\ n \in live["store"] <=> "store" \in world.has /\ "store" \notin q
    /\ n \in live["gate"] => "relay" \in world.has /\ "gate" \notin q
    /\ n \in live["poller"] => "poller" \in world.has /\ "poller" \notin q
    /\ n \in live["session"] => "relay" \in world.has /\ "sessions" \notin q
    /\ n \in live["request"] \ live["stuck"] => "relay" \in world.has /\ "drained" \notin q
    /\ world.step = "open" => world.has = {}
    /\ world.step # "" /\ world.step # "open" => "store" \in world.has
    /\ world.step \in {"serve", "listen"} => "relay" \in world.has

RelayInv == RelayTypes /\ PastIsGone /\ HeldFollowsState /\ FlagsInOrder /\ FieldsTell

\* The invariant gives the property: a closed store has no users left.
LEMMA RelayInvSuffices == RelayInv => RelayReleaseIsTrue
<1> SUFFICES ASSUME RelayInv PROVE RelayReleaseIsTrue  OBVIOUS
<1> USE DEF RelayInv
<1>1. ASSUME NEW m \in Activation, m \notin live["store"]
      PROVE  m \notin live["poller"] \cup live["session"] \cup (live["request"] \ live["stuck"])
  <2>1. CASE m # world.n  BY <2>1 DEF PastIsGone, Gone
  <2>2. CASE m = world.n  BY <1>1, <2>2 DEF FieldsTell, FlagsInOrder, RelayTypes, Flag
  <2> QED  BY <2>1, <2>2
<1>2. ASSUME ~world.held PROVE live["store"] = {} /\ live["gate"] = {}
  <2>1. Gone(world.n)  BY <1>2 DEF HeldFollowsState
  <2>2. live["store"] \subseteq Activation /\ live["gate"] \subseteq Activation  BY DEF RelayTypes, Use
  <2> QED  BY <2>1, <2>2 DEF PastIsGone, Gone
<1> QED  BY <1>1, <1>2 DEF RelayReleaseIsTrue, Activation

LEMMA RelayInitInv == part = "relay" /\ RelayInit => RelayInv
<1> SUFFICES ASSUME part = "relay", RelayInit PROVE RelayInv  OBVIOUS
<1>1. world = [state |-> "STANDBY", held |-> FALSE, n |-> 0, step |-> "", quiesce |-> "", releasing |-> FALSE,
               has |-> {}, quiesced |-> {}] /\ live = [u \in Use |-> {}]
  BY DEF RelayInit
<1>2. 0 \in 0..MaxActivations  BY MaxActivationsAssumption
<1>3. world \in RelayWorld  BY <1>1, <1>2 DEF RelayWorld, QuiesceStep, Flag
<1>4. RelayTypes  BY <1>1, <1>3 DEF RelayTypes
<1>5. world.state = "STANDBY" /\ ~world.held /\ world.step = "" /\ world.quiesce = "" /\ world.has = {} /\ world.quiesced = {}
  BY <1>1
<1>6. \A u \in Use : live[u] = {}  BY <1>1
<1>7. \A m : Gone(m)  BY <1>6 DEF Gone, Use
<1>8. PastIsGone /\ HeldFollowsState  BY <1>5, <1>7 DEF PastIsGone, HeldFollowsState
<1>9. FlagsInOrder  BY <1>5 DEF FlagsInOrder
<1>10. FieldsTell  BY <1>5, <1>6 DEF FieldsTell, Use
<1> QED  BY <1>4, <1>8, <1>9, <1>10 DEF RelayInv

\* What a step of Quiesce that passes, and one that fails, does to the fields.
LEMMA PassedFields ==
    ASSUME world \in RelayWorld, NEW f \in Flag, NEW next \in QuiesceStep, Passed(f, next)
    PROVE  /\ world' \in RelayWorld
           /\ world'.state = world.state /\ world'.held = world.held /\ world'.n = world.n
           /\ world'.step = world.step /\ world'.has = world.has
           /\ world'.quiesced = world.quiesced \cup {f} /\ world'.quiesce = next
           /\ part' = part
BY DEF Passed, Moves, RelayWorld

LEMMA FailedFields ==
    ASSUME world \in RelayWorld, QuiesceFails
    PROVE  /\ world' \in RelayWorld
           /\ world'.state = "QUIESCING" /\ world'.held = TRUE /\ world'.n = world.n
           /\ world'.step = world.step /\ world'.has = world.has
           /\ world'.quiesced = world.quiesced /\ world'.quiesce = ""
           /\ part' = part /\ live' = live
BY DEF QuiesceFails, StillHeld, Moves, RelayWorld, QuiesceStep

\* A failed Quiesce keeps the invariant wherever it fails.
LEMMA RelayFailure == RelayInv /\ world.quiesce # "" /\ QuiesceFails => RelayInv'
<1> SUFFICES ASSUME RelayInv, world.quiesce # "", QuiesceFails PROVE RelayInv'  OBVIOUS
<1>1. world \in RelayWorld  BY DEF RelayInv, RelayTypes
<1> HIDE DEF QuiesceFails
<1> USE FailedFields, <1>1
<1>2. RelayTypes'  BY DEF RelayInv, RelayTypes
<1>3. PastIsGone'  BY DEF RelayInv, PastIsGone, Gone
<1>4. HeldFollowsState'  BY DEF RelayInv, HeldFollowsState
<1>5. FlagsInOrder'  BY DEF RelayInv, FlagsInOrder
<1>6. FieldsTell'  BY DEF RelayInv, FieldsTell
<1> QED  BY <1>2, <1>3, <1>4, <1>5, <1>6 DEF RelayInv

\* A step of Quiesce that passes keeps it: it ends the users its flag speaks of
\* and opens nothing, though the drain may leave a request behind.
LEMMA RelayPasses ==
    ASSUME RelayInv, NEW f \in {"poller", "gate", "sessions", "drained"}, NEW next \in QuiesceStep,
           world.quiesce = f, Passed(f, next),
           f = "poller" => next = "gate", f = "gate" => next = "sessions",
           f = "sessions" => next = "drained", f = "drained" => next = "store",
           live' \in [Use -> SUBSET Activation],
           \A u \in Use \ {"stuck"} : live'[u] \subseteq live[u],
           live["stuck"] \subseteq live'["stuck"], live'["store"] = live["store"],
           f = "poller" => world.n \notin live'["poller"],
           f = "gate" => world.n \notin live'["gate"],
           f = "sessions" => world.n \notin live'["session"],
           f = "drained" => world.n \notin live'["request"] \ live'["stuck"]
    PROVE  RelayInv'
<1>1. world \in RelayWorld /\ f \in Flag /\ world.quiesce # ""  BY DEF RelayInv, RelayTypes, Flag
<1>2. /\ world' \in RelayWorld
      /\ world'.state = world.state /\ world'.held = world.held /\ world'.n = world.n
      /\ world'.step = world.step /\ world'.has = world.has
      /\ world'.quiesced = world.quiesced \cup {f} /\ world'.quiesce = next
      /\ part' = part
  BY <1>1, PassedFields
<1>3. \A m : Gone(m) => Gone(m)'  BY <1>2 DEF Gone, Use
<1>4. RelayTypes'  BY <1>2 DEF RelayInv, RelayTypes
<1>5. PastIsGone'  BY <1>2, <1>3 DEF RelayInv, PastIsGone
<1>6. HeldFollowsState'  BY <1>1, <1>2 DEF RelayInv, HeldFollowsState
<1>7. FlagsInOrder'  BY <1>2 DEF RelayInv, FlagsInOrder
<1>8. FieldsTell'
  <2>1. world.step = ""  BY <1>1 DEF RelayInv, HeldFollowsState
  <2>2. "store" \in world'.quiesced <=> "store" \in world.quiesced  BY <1>2
  <2> QED  BY <1>2, <2>1, <2>2 DEF RelayInv, FieldsTell, Use
<1> QED  BY <1>4, <1>5, <1>6, <1>7, <1>8 DEF RelayInv

LEMMA StopPollerStep == RelayInv /\ StopPoller => RelayInv'
<1> SUFFICES ASSUME RelayInv, StopPoller PROVE RelayInv'  OBVIOUS
<1>1. world.quiesce = "poller"  BY DEF StopPoller
<1>2. CASE QuiesceFails  BY <1>1, <1>2, RelayFailure
<1>3. CASE Passed("poller", "gate") /\ UNCHANGED live /\ ~(Open("poller") /\ ~Skips("poller", "poller"))
  <2>1. world.n \notin live["poller"]  BY <1>3 DEF Open, Skips, RelayInv, FieldsTell
  <2>2. live \in [Use -> SUBSET Activation]  BY DEF RelayInv, RelayTypes
  <2> QED  BY <1>1, <1>3, <2>1, <2>2, RelayPasses DEF QuiesceStep
<1> QED  BY <1>2, <1>3 DEF StopPoller

LEMMA CloseGateStep == RelayInv /\ CloseGate => RelayInv'
<1> SUFFICES ASSUME RelayInv, CloseGate PROVE RelayInv'  OBVIOUS
<1>1. world.quiesce = "gate" /\ Passed("gate", "sessions")  BY DEF CloseGate
<1>2. live \in [Use -> SUBSET Activation]  BY DEF RelayInv, RelayTypes
<1>3. CASE UNCHANGED live /\ Skips("relay", "gate")
  <2>1. world.n \notin live["gate"]  BY <1>3 DEF Skips, RelayInv, FieldsTell
  <2> QED  BY <1>1, <1>2, <1>3, <2>1, RelayPasses DEF QuiesceStep
<1>4. CASE Ends("gate")
  <2>1. /\ live' \in [Use -> SUBSET Activation]
        /\ live'["gate"] = live["gate"] \ {world.n}
        /\ \A u \in Use \ {"gate"} : live'[u] = live[u]
    BY <1>2, <1>4 DEF Ends, Use
  <2> QED  BY <1>1, <2>1, RelayPasses DEF QuiesceStep, Use
<1> QED  BY <1>3, <1>4 DEF CloseGate

LEMMA StopRelayStep == RelayInv /\ StopRelay => RelayInv'
<1> SUFFICES ASSUME RelayInv, StopRelay PROVE RelayInv'  OBVIOUS
<1>1. world.quiesce = "sessions"  BY DEF StopRelay
<1>2. live \in [Use -> SUBSET Activation]  BY DEF RelayInv, RelayTypes
<1>3. CASE QuiesceFails  BY <1>1, <1>3, RelayFailure
<1>4. CASE Passed("sessions", "drained") /\ UNCHANGED live /\ Skips("relay", "sessions")
  <2>1. world.n \notin live["session"]  BY <1>4 DEF Skips, RelayInv, FieldsTell
  <2> QED  BY <1>1, <1>2, <1>4, <2>1, RelayPasses DEF QuiesceStep
<1>5. CASE Passed("sessions", "drained") /\ Ends("session")
  <2>1. /\ live' \in [Use -> SUBSET Activation]
        /\ live'["session"] = live["session"] \ {world.n}
        /\ \A u \in Use \ {"session"} : live'[u] = live[u]
    BY <1>2, <1>5 DEF Ends, Use
  <2> QED  BY <1>1, <1>5, <2>1, RelayPasses DEF QuiesceStep, Use
<1> QED  BY <1>3, <1>4, <1>5 DEF StopRelay

LEMMA DrainRelayStep == RelayInv /\ DrainRelay => RelayInv'
<1> SUFFICES ASSUME RelayInv, DrainRelay PROVE RelayInv'  OBVIOUS
<1>1. world.quiesce = "drained" /\ Passed("drained", "store")  BY DEF DrainRelay
<1>2. live \in [Use -> SUBSET Activation]  BY DEF RelayInv, RelayTypes
<1>3. CASE UNCHANGED live /\ ~(~Skips("relay", "drained") /\ Open("request"))
  <2>1. world.n \notin live["request"] \ live["stuck"]  BY <1>3 DEF Skips, Open, RelayInv, FieldsTell
  <2> QED  BY <1>1, <1>2, <1>3, <2>1, RelayPasses DEF QuiesceStep
<1>4. CASE Opens("stuck")
  <2>0. world.n \in Activation  BY <1>1 DEF RelayInv, HeldFollowsState
  <2>1. /\ live' \in [Use -> SUBSET Activation]
        /\ live'["stuck"] = live["stuck"] \cup {world.n}
        /\ \A u \in Use \ {"stuck"} : live'[u] = live[u]
    BY <1>2, <1>4, <2>0 DEF Opens, Use
  <2> QED  BY <1>1, <2>1, RelayPasses DEF QuiesceStep, Use
<1> QED  BY <1>3, <1>4 DEF DrainRelay

\* The database is closed last, and only then is it reported free.
LEMMA CloseStoreStep == RelayInv /\ CloseStore => RelayInv'
<1> SUFFICES ASSUME RelayInv, CloseStore PROVE RelayInv'  OBVIOUS
<1>1. world.quiesce = "store" /\ world.quiesce # ""  BY DEF CloseStore
<1>2. live \in [Use -> SUBSET Activation] /\ world \in RelayWorld /\ part = "relay"  BY DEF RelayInv, RelayTypes
<1>3. CASE QuiesceFails  BY <1>1, <1>3, RelayFailure
<1>4. ASSUME ~QuiesceFails PROVE RelayInv'
  <2> DEFINE final == IF world.releasing THEN "STANDBY" ELSE "QUIESCED"
  <2>1. /\ world' = [world EXCEPT !.quiesced = @ \cup {"store"}, !.quiesce = "", !.releasing = FALSE, !.held = FALSE,
                                  !.state = final]
        /\ part' = part
    BY <1>4 DEF CloseStore, Moves
  <2>2. final \in {"STANDBY", "QUIESCED"}  OBVIOUS
  <2> HIDE DEF final
  <2>3. world' \in RelayWorld  BY <1>2, <2>1, <2>2 DEF RelayWorld, QuiesceStep, Flag
  <2>4. /\ world'.n = world.n /\ world'.step = world.step /\ world'.has = world.has /\ world'.quiesce = ""
        /\ world'.quiesced = world.quiesced \cup {"store"} /\ world'.state = final
    BY <1>2, <2>1 DEF RelayWorld
  <2>5. ~world'.held  BY <1>2, <2>1 DEF RelayWorld
  <2>6. /\ live' \in [Use -> SUBSET Activation]
        /\ world.n \notin live'["store"] /\ live'["store"] \subseteq live["store"]
        /\ \A u \in Use \ {"store"} : live'[u] = live[u]
    <3>1. CASE UNCHANGED live /\ Skips("store", "store")
      BY <1>2, <3>1 DEF Skips, RelayInv, FieldsTell, Use
    <3>2. CASE Ends("store")  BY <1>2, <3>2 DEF Ends, Use
    <3> QED  BY <1>4, <3>1, <3>2 DEF CloseStore
  <2>7. world.step = ""  BY <1>1 DEF RelayInv, HeldFollowsState
  <2>8. /\ world.n \notin live["gate"] /\ world.n \notin live["poller"] /\ world.n \notin live["session"]
        /\ world.n \notin live["request"] \ live["stuck"] /\ "drained" \in world.quiesced
    BY <1>1 DEF RelayInv, FlagsInOrder, FieldsTell
  <2>9. \A m : Gone(m) => Gone(m)'  BY <2>6 DEF Gone, Use
  <2>10. Gone(world.n)'  BY <2>4, <2>6, <2>8 DEF Gone, Use
  <2>11. RelayTypes'  BY <1>2, <2>1, <2>3, <2>6 DEF RelayTypes
  <2>12. PastIsGone'  BY <2>4, <2>9 DEF RelayInv, PastIsGone
  <2>13. HeldFollowsState'  BY <2>2, <2>4, <2>5, <2>7, <2>10 DEF HeldFollowsState
  <2>14. FlagsInOrder'  BY <1>1, <2>4, <2>8 DEF RelayInv, FlagsInOrder
  <2>15. FieldsTell'  BY <2>4, <2>6, <2>7, <2>8 DEF RelayInv, FieldsTell, Use
  <2> QED  BY <2>11, <2>12, <2>13, <2>14, <2>15 DEF RelayInv
<1> QED  BY <1>3, <1>4

\* A new activation begins on a database nobody of this process has open.
LEMMA ActivateStep == RelayInv /\ ActivateBegins => RelayInv'
<1> SUFFICES ASSUME RelayInv, ActivateBegins PROVE RelayInv'  OBVIOUS
<1>1. world \in RelayWorld /\ world.n \in 0..MaxActivations /\ part = "relay" /\ live \in [Use -> SUBSET Activation]
  BY DEF RelayInv, RelayTypes, RelayWorld
<1>2. world.state = "STANDBY" /\ world.n < MaxActivations  BY DEF ActivateBegins
<1>3. world.n + 1 \in Activation /\ world.n + 1 \in 0..MaxActivations /\ world.n + 1 # world.n
  BY <1>1, <1>2, MaxActivationsAssumption DEF Activation
<1> DEFINE next == world.n + 1
<1>4. world' = [world EXCEPT !.state = "ACTIVATING", !.held = TRUE, !.n = next, !.step = "open", !.has = {}, !.quiesced = {}]
      /\ part' = part /\ live' = live
  BY DEF ActivateBegins, Moves
<1>5. next \in Activation /\ next \in 0..MaxActivations /\ next # world.n  BY <1>3
<1> HIDE DEF next
<1>6. world' \in RelayWorld  BY <1>1, <1>4, <1>5 DEF RelayWorld
<1>7. /\ world'.state = "ACTIVATING" /\ world'.n = next /\ world'.step = "open" /\ world'.has = {}
      /\ world'.quiesced = {} /\ world'.quiesce = world.quiesce
  BY <1>1, <1>4 DEF RelayWorld
<1>8. world'.held  BY <1>1, <1>4 DEF RelayWorld
<1>9. ~world.held /\ Gone(world.n) /\ world.quiesce = ""  BY <1>2 DEF RelayInv, HeldFollowsState
<1>10. \A m \in Activation : Gone(m)  BY <1>9 DEF RelayInv, PastIsGone
<1>11. RelayTypes'  BY <1>1, <1>4, <1>6 DEF RelayTypes
<1>12. PastIsGone'  BY <1>4, <1>10 DEF PastIsGone, Gone
<1>13. HeldFollowsState'  BY <1>5, <1>7, <1>8, <1>9 DEF HeldFollowsState
<1>14. FlagsInOrder'  BY <1>7, <1>9 DEF FlagsInOrder
<1>15. FieldsTell'  BY <1>4, <1>5, <1>7, <1>10 DEF FieldsTell, Gone
<1> QED  BY <1>11, <1>12, <1>13, <1>14, <1>15 DEF RelayInv

LEMMA StartTelemetryStep == RelayInv /\ StartTelemetry => RelayInv'
<1> SUFFICES ASSUME RelayInv, StartTelemetry PROVE RelayInv'  OBVIOUS
<1>1. live \in [Use -> SUBSET Activation] /\ world \in RelayWorld /\ part = "relay"  BY DEF RelayInv, RelayTypes
<1>2. PICK opened \in BOOLEAN :
        /\ world' = [world EXCEPT !.step = "", !.state = "ACTIVE", !.has = IF opened THEN @ \cup {"poller"} ELSE @]
        /\ live' = IF opened THEN [live EXCEPT !["poller"] = @ \cup {world.n}] ELSE live
        /\ part' = part
  <2>1. CASE Opens("poller") /\ Moves([world EXCEPT !.step = "", !.state = "ACTIVE", !.has = @ \cup {"poller"}])
    <3> WITNESS TRUE \in BOOLEAN
    <3> QED  BY <2>1 DEF Opens, Moves
  <2>2. CASE UNCHANGED live /\ Moves([world EXCEPT !.step = "", !.state = "ACTIVE"])
    <3> WITNESS FALSE \in BOOLEAN
    <3>1. [world EXCEPT !.step = "", !.state = "ACTIVE", !.has = @] = [world EXCEPT !.step = "", !.state = "ACTIVE"]
      BY <1>1 DEF RelayWorld
    <3> QED  BY <2>2, <3>1 DEF Moves
  <2> QED  BY <2>1, <2>2 DEF StartTelemetry
<1> DEFINE has == IF opened THEN world.has \cup {"poller"} ELSE world.has
<1>3. /\ world.step = "listen" /\ world.n \in Activation /\ world.quiesced = {} /\ world.quiesce = ""
      /\ world.held /\ "store" \in world.has /\ "relay" \in world.has
  BY DEF StartTelemetry, RelayInv, HeldFollowsState, FieldsTell
<1>4. world' = [world EXCEPT !.step = "", !.state = "ACTIVE", !.has = has]  BY <1>2
<1>5. /\ has \in SUBSET {"store", "relay", "poller"} /\ "store" \in has /\ "relay" \in has
      /\ opened => "poller" \in has
      /\ "poller" \in world.has => "poller" \in has
  BY <1>1, <1>3 DEF RelayWorld
<1>6. /\ live' \in [Use -> SUBSET Activation]
      /\ live'["poller"] \subseteq live["poller"] \cup {world.n}
      /\ world.n \in live'["poller"] => opened \/ world.n \in live["poller"]
      /\ \A u \in Use \ {"poller"} : live'[u] = live[u]
  <2>1. CASE opened  BY <1>1, <1>2, <1>3, <2>1 DEF Use
  <2>2. CASE ~opened  BY <1>1, <1>2, <2>2
  <2> QED  BY <2>1, <2>2
<1> HIDE DEF has
<1>7. world' \in RelayWorld  BY <1>1, <1>4, <1>5 DEF RelayWorld
<1>8. /\ world'.state = "ACTIVE" /\ world'.n = world.n /\ world'.step = "" /\ world'.has = has
      /\ world'.quiesced = {} /\ world'.quiesce = ""
  BY <1>1, <1>3, <1>4 DEF RelayWorld
<1>9. world'.held  BY <1>1, <1>3, <1>4 DEF RelayWorld
<1>10. RelayTypes'  BY <1>1, <1>2, <1>6, <1>7 DEF RelayTypes
<1>11. PastIsGone'  BY <1>6, <1>8 DEF RelayInv, PastIsGone, Gone, Use
<1>12. HeldFollowsState'  BY <1>3, <1>8, <1>9 DEF HeldFollowsState
<1>13. FlagsInOrder'  BY <1>8 DEF FlagsInOrder
<1>14. FieldsTell'  BY <1>3, <1>5, <1>6, <1>8 DEF RelayInv, FieldsTell, Use
<1> QED  BY <1>10, <1>11, <1>12, <1>13, <1>14 DEF RelayInv

LEMMA LeavesStep ==
    ASSUME RelayInv, NEW m \in Activation, NEW u \in {"session", "request"}, Leaves(m, u)
    PROVE  RelayInv'
<1>1. live \in [Use -> SUBSET Activation]  BY DEF RelayInv, RelayTypes
<1>2. /\ UNCHANGED <<part, world>> /\ live' \in [Use -> SUBSET Activation]
      /\ \A v \in Use \ {"session", "request", "stuck"} : live'[v] = live[v]
      /\ live'["session"] \subseteq live["session"]
      /\ live'["request"] \ live'["stuck"] \subseteq live["request"] \ live["stuck"]
  <2>1. CASE u = "session"
    <3>1. live' = [live EXCEPT !["session"] = @ \ {m}, !["stuck"] = @]  BY <2>1 DEF Leaves, Beside
    <3> QED  BY <1>1, <3>1 DEF Leaves, Beside, Use
  <2>2. CASE u = "request"
    <3>1. live' = [live EXCEPT !["request"] = @ \ {m}, !["stuck"] = @ \ {m}]  BY <2>2 DEF Leaves, Beside
    <3> QED  BY <1>1, <3>1 DEF Leaves, Beside, Use
  <2> QED  BY <2>1, <2>2
<1>3. \A k : Gone(k) => Gone(k)'  BY <1>2 DEF Gone, Use
<1>4. RelayTypes'  BY <1>2 DEF RelayInv, RelayTypes
<1>5. PastIsGone'  BY <1>2, <1>3 DEF RelayInv, PastIsGone
<1>6. HeldFollowsState'  BY <1>2, <1>3 DEF RelayInv, HeldFollowsState
<1>7. FlagsInOrder'  BY <1>2 DEF RelayInv, FlagsInOrder
<1>8. FieldsTell'  BY <1>2 DEF RelayInv, FieldsTell, Use
<1> QED  BY <1>4, <1>5, <1>6, <1>7, <1>8 DEF RelayInv

\* Each step keeps it.
LEMMA RelayStep == RelayInv /\ [RelayNext]_feedVars => RelayInv'
<1> SUFFICES ASSUME RelayInv, [RelayNext]_feedVars PROVE RelayInv'  OBVIOUS
<1>1. CASE ActivateBegins  BY <1>1, ActivateStep
<1>2. CASE OpenStore
  <2> USE DEF RelayInv, RelayTypes, RelayWorld, QuiesceStep, Use, Activation, Flag
  <2> USE <1>2 DEF OpenStore, Moves, Opens
  <2>1. RelayTypes'  BY DEF HeldFollowsState
  <2>2. PastIsGone'  BY DEF PastIsGone, Gone, HeldFollowsState, FieldsTell, FlagsInOrder
  <2>3. HeldFollowsState'  BY DEF Gone, HeldFollowsState, FieldsTell, FlagsInOrder
  <2>4. FlagsInOrder'  BY DEF HeldFollowsState, FlagsInOrder
  <2>5. FieldsTell'  BY DEF PastIsGone, Gone, HeldFollowsState, FlagsInOrder, FieldsTell
  <2> QED  BY <2>1, <2>2, <2>3, <2>4, <2>5
<1>3. CASE NewRelay
  <2> USE DEF RelayInv, RelayTypes, RelayWorld, QuiesceStep, Use, Activation, Flag
  <2> USE <1>3 DEF NewRelay, Moves, Opens
  <2>1. RelayTypes'  BY DEF HeldFollowsState
  <2>2. PastIsGone'  BY DEF PastIsGone, Gone, HeldFollowsState, FieldsTell, FlagsInOrder
  <2>3. HeldFollowsState'  BY DEF Gone, HeldFollowsState, FieldsTell, FlagsInOrder
  <2>4. FlagsInOrder'  BY DEF HeldFollowsState, FlagsInOrder
  <2>5. FieldsTell'  BY DEF PastIsGone, Gone, HeldFollowsState, FlagsInOrder, FieldsTell
  <2> QED  BY <2>1, <2>2, <2>3, <2>4, <2>5
<1>4. CASE StartServer
  <2> USE DEF RelayInv, RelayTypes, RelayWorld, QuiesceStep, Use, Activation, Flag
  <2> USE <1>4 DEF StartServer, Moves, Opens
  <2>1. RelayTypes'  BY DEF HeldFollowsState
  <2>2. PastIsGone'  BY DEF PastIsGone, Gone, HeldFollowsState, FieldsTell, FlagsInOrder
  <2>3. HeldFollowsState'  BY DEF Gone, HeldFollowsState, FieldsTell, FlagsInOrder
  <2>4. FlagsInOrder'  BY DEF HeldFollowsState, FlagsInOrder
  <2>5. FieldsTell'  BY DEF PastIsGone, Gone, HeldFollowsState, FlagsInOrder, FieldsTell
  <2> QED  BY <2>1, <2>2, <2>3, <2>4, <2>5
<1>5. CASE StartTelemetry  BY <1>5, StartTelemetryStep
<1>6. CASE ActivationFails
  BY <1>6 DEF RelayInv, RelayTypes, RelayWorld, QuiesceStep, Use, Activation, Flag, ActivationFails, Moves, PastIsGone, Gone, HeldFollowsState, FlagsInOrder, FieldsTell
<1>7. CASE QuiesceBegins
  BY <1>7 DEF RelayInv, RelayTypes, RelayWorld, QuiesceStep, Use, Activation, Flag, QuiesceBegins, Moves, PastIsGone, Gone, HeldFollowsState, FlagsInOrder, FieldsTell
<1>8. CASE StopPoller  BY <1>8, StopPollerStep
<1>9. CASE CloseGate  BY <1>9, CloseGateStep
<1>10. CASE StopRelay  BY <1>10, StopRelayStep
<1>11. CASE DrainRelay  BY <1>11, DrainRelayStep
<1>12. CASE CloseStore  BY <1>12, CloseStoreStep
<1>13. CASE TelemetryEnds
  BY <1>13 DEF RelayInv, RelayTypes, RelayWorld, QuiesceStep, Use, Activation, Flag, TelemetryEnds, Open, Beside, PastIsGone, Gone, HeldFollowsState, FlagsInOrder, FieldsTell
<1>14. ASSUME NEW m \in Activation, ServerEnds(m) PROVE RelayInv'
  BY <1>14 DEF RelayInv, RelayTypes, RelayWorld, QuiesceStep, Use, Activation, Flag, ServerEnds, Beside, PastIsGone, Gone, HeldFollowsState, FlagsInOrder, FieldsTell
<1>15. ASSUME NEW m \in Activation, NEW u \in {"session", "request"}, Enters(m, u) PROVE RelayInv'
  BY <1>15 DEF RelayInv, RelayTypes, RelayWorld, QuiesceStep, Use, Activation, Flag, Enters, Beside, PastIsGone, Gone, HeldFollowsState, FlagsInOrder, FieldsTell
<1>16. ASSUME NEW m \in Activation, NEW u \in {"session", "request"}, Leaves(m, u) PROVE RelayInv'
  BY <1>16, LeavesStep
<1>17. CASE UNCHANGED feedVars
  <2>1. world' = world /\ live' = live /\ part' = part  BY <1>17 DEF feedVars
  <2>2. RelayTypes' /\ HeldFollowsState'
    BY <2>1 DEF RelayInv, RelayTypes, RelayWorld, HeldFollowsState, Gone
  <2>3. PastIsGone' /\ FlagsInOrder' /\ FieldsTell'
    BY <2>1 DEF RelayInv, PastIsGone, Gone, FlagsInOrder, FieldsTell
  <2> QED  BY <2>2, <2>3 DEF RelayInv
<1>18. CASE \E m \in Activation : ServerEnds(m) \/ \E u \in {"session", "request"} : Enters(m, u) \/ Leaves(m, u)
  <2>1. PICK m \in Activation : ServerEnds(m) \/ \E u \in {"session", "request"} : Enters(m, u) \/ Leaves(m, u)
    BY <1>18
  <2> QED  BY <2>1, <1>14, <1>15, <1>16
<1>19. CASE RelayNext
  <2>1. \/ ActivateBegins \/ OpenStore \/ NewRelay \/ StartServer \/ StartTelemetry \/ ActivationFails
        \/ QuiesceBegins \/ StopPoller \/ CloseGate \/ StopRelay \/ DrainRelay \/ CloseStore
        \/ TelemetryEnds
        \/ \E m \in Activation : ServerEnds(m) \/ \E u \in {"session", "request"} : Enters(m, u) \/ Leaves(m, u)
    BY <1>19 DEF RelayNext, Activation
  <2> HIDE DEF RelayInv
  <2> QED
    BY ONLY <2>1, <1>1, <1>2, <1>3, <1>4, <1>5, <1>6, <1>7, <1>8, <1>9, <1>10, <1>11, <1>12, <1>13, <1>18, Zenon
<1> QED  BY <1>17, <1>19

\* relay.db outlives all its users, and a relay that reports the database free
\* holds no handle of it and admits nobody, for any number of activations.
THEOREM RelayReleaseTheorem == RelaySpec => []RelayReleaseIsTrue
<1>1. RelaySpec => RelayInv  BY RelayInitInv DEF RelaySpec
<1>2. RelayInv /\ [RelayNext]_feedVars => RelayInv'  BY RelayStep
<1>3. RelayInv => RelayReleaseIsTrue  BY RelayInvSuffices
<1> QED  BY <1>1, <1>2, <1>3, PTL DEF RelaySpec

-----------------------------------------------------------------------------
(***************************************************************************)
(* The poll loop.  A wake-up that is lost would have to be lost while a tick*)
(* that has read the table is still at work: TickIsFresh is about that tick.*)
(***************************************************************************)
LoopStates == {"jitter", "idle", "ticking", "gone"}
LoopStats == [has : BOOLEAN, age : Nat, refreshed : BOOLEAN, excused : BOOLEAN]
LoopWorld ==
    [phase : {"off", "running", "stopping", "cancelled", "closed"}, maintains : BOOLEAN,
     work : [Goroutines -> LoopStates] \cup {[g \in {} |-> "gone"]}, wake : BOOLEAN, pushing : BOOLEAN,
     staged : Nat, holds : Nat, tickFailed : BOOLEAN, boots : Nat, refreshIn : Nat, stats : LoopStats]

LoopTypes ==
    /\ part = "loop"
    /\ world \in LoopWorld
    /\ Up => world.work \in [Goroutines -> LoopStates]

\* A tick under way read the last reading, or a wake-up will have it read again.
TickIsFresh ==
    Work("poller") = "ticking" /\ ~world.pushing => world.holds = world.staged \/ world.wake

\* Stop waits for every goroutine Start counted, and Start runs no other.
StopWaited ==
    /\ Up /\ ~world.maintains => world.work["maintenance"] = "gone"
    /\ world.phase = "closed" => \A g \in Goroutines : world.work[g] = "gone"

\* While no ANALYZE runs, the next is due before the bound is reached; one that
\* follows another in the same process is due within the interval.
StatsInTime ==
    LET s == world.stats IN
    s.has /\ ~s.excused =>
        /\ s.age <= Bound
        /\ s.refreshed \/ ~Up => s.age <= StatsRefreshInterval
        /\ Up /\ world.work["stats"] # "ticking"
             => s.age + world.refreshIn <= IF s.refreshed THEN StatsRefreshInterval ELSE Bound
\* The timer is set again before the ANALYZE runs.
TimerIsReset ==
    Up /\ world.work["stats"] = "ticking" => world.refreshIn = StatsRefreshInterval

LoopInv ==
    /\ LoopTypes
    /\ TickIsFresh
    /\ WakeIsNotLost
    /\ StopWaited
    /\ StatsInTime
    /\ TimerIsReset

LEMMA LoopInitInv == part = "loop" /\ LoopInit => LoopInv
BY DEF LoopInit, LoopInv, LoopTypes, TickIsFresh, WakeIsNotLost, StopWaited, StatsInTime, TimerIsReset, LoopWorld, LoopStats, Up, Work

LEMMA LoopStep == LoopInv /\ [LoopNext]_feedVars => LoopInv'
<1> SUFFICES ASSUME LoopInv, [LoopNext]_feedVars PROVE LoopInv'  OBVIOUS
<1> USE DEF LoopInv, LoopTypes, Set, Goroutines
<1>0. world \in LoopWorld /\ part = "loop"  OBVIOUS
<1>1. ASSUME NEW ok \in BOOLEAN, NEW maintains \in BOOLEAN, Boot(ok, maintains) PROVE LoopInv'
  <2> DEFINE kept == HasStatistics(world.stats)
             stats == IF kept THEN world.stats ELSE Analyzed(world.stats, ok)
             work == [g \in Goroutines |->
                             IF g = "poller" THEN "jitter" ELSE IF g = "stats" \/ maintains THEN "idle" ELSE "gone"]
  <2>1. world' = [world EXCEPT !.phase = "running", !.boots = @ + 1, !.maintains = maintains,
                 !.wake = FALSE, !.tickFailed = FALSE, !.refreshIn = FirstRefresh(kept),
                 !.stats = [stats EXCEPT !.refreshed = ~kept], !.work = work]
    BY <1>1 DEF Boot
  <2>2. work \in [Goroutines -> LoopStates]  BY DEF LoopStates
  <2>3. stats \in LoopStats  BY <1>0 DEF LoopWorld, LoopStats, Analyzed, HasStatistics
  <2>4. FirstRefresh(kept) \in Nat  BY LoopIntervalsAssumption DEF FirstRefresh
  <2>a. [stats EXCEPT !.refreshed = ~kept] \in LoopStats  BY <2>3 DEF LoopStats
  <2> HIDE DEF stats, work, kept
  <2>b. world.boots + 1 \in Nat  BY <1>0 DEF LoopWorld
  <2>5. world' \in LoopWorld  BY <1>0, <2>1, <2>2, <2>a, <2>b, <2>4 DEF LoopWorld
  <2>6. world'.phase = "running" /\ world'.work = work /\ world'.maintains = maintains /\ world'.refreshIn = FirstRefresh(kept)
        /\ world'.stats = [stats EXCEPT !.refreshed = ~kept]
    BY <1>0, <2>1 DEF LoopWorld
  <2> USE DEF stats, work, kept
  <2>7. LoopTypes'  BY <1>1, <2>2, <2>5, <2>6 DEF Boot, Up
  <2>8. TickIsFresh' /\ WakeIsNotLost' /\ StopWaited' /\ TimerIsReset'
     BY <2>6 DEF TimerIsReset, TickIsFresh, WakeIsNotLost, StopWaited, Up, Work
  <2>9. StatsInTime'
     <3>1. CASE kept
       <4>1. world'.stats = [world.stats EXCEPT !.refreshed = FALSE] /\ world'.refreshIn = BootStatsRefreshDelay
         BY <2>6, <3>1 DEF FirstRefresh
       <4>2. /\ world'.stats.has = world.stats.has /\ world'.stats.age = world.stats.age
             /\ world'.stats.refreshed = FALSE /\ world'.stats.excused = world.stats.excused /\ world.stats.age \in Nat
         BY <1>0, <4>1 DEF LoopWorld, LoopStats
       <4>3. ~Up  BY <1>1 DEF Boot, Up
       <4> QED  BY <4>1, <4>2, <4>3, LoopIntervalsAssumption DEF StatsInTime, Bound
     <3>2. CASE ~kept
       <4>1. world'.stats = [Analyzed(world.stats, ok) EXCEPT !.refreshed = TRUE] /\ world'.refreshIn = StatsRefreshInterval
         BY <2>6, <3>2 DEF FirstRefresh
       <4>2. CASE ok
         <5>1. world'.stats.age = 0  BY <4>1, <4>2 DEF Analyzed
         <5>2. world'.stats.refreshed  BY <4>1, <4>2 DEF Analyzed
         <5> QED  BY <4>1, <5>1, <5>2, LoopIntervalsAssumption DEF StatsInTime, Bound
       <4>3. CASE ~ok
         <5>1. world'.stats.has = FALSE  BY <1>0, <4>1, <4>3, <3>2 DEF Analyzed, HasStatistics, LoopWorld, LoopStats
         <5> QED  BY <5>1 DEF StatsInTime
       <4> QED  BY <4>2, <4>3
     <3> QED  BY <3>1, <3>2
  <2> QED  BY <2>7, <2>8, <2>9
<1>2. ASSUME PutReading PROVE LoopInv'
  <2>1. world' = [world EXCEPT !.staged = @ + 1, !.pushing = TRUE] /\ part' = part  BY <1>2 DEF PutReading
  <2>a. world.staged + 1 \in Nat  BY <1>0 DEF LoopWorld
  <2>2. world' \in LoopWorld  BY <1>0, <2>1, <2>a DEF LoopWorld
  <2>3. /\ world'.pushing = TRUE /\ world'.phase = world.phase /\ world'.work = world.work /\ world'.maintains = world.maintains
        /\ world'.stats = world.stats /\ world'.refreshIn = world.refreshIn
    BY <1>0, <2>1 DEF LoopWorld
  <2> QED  BY <2>1, <2>2, <2>3 DEF TickIsFresh, WakeIsNotLost, StopWaited, StatsInTime, TimerIsReset, Up, Work
<1>3. ASSUME WakeBurn PROVE LoopInv'
  <2>1. world' = [world EXCEPT !.pushing = FALSE, !.wake = TRUE] /\ part' = part  BY <1>3 DEF WakeBurn, Signalled
  <2>2. world' \in LoopWorld  BY <1>0, <2>1 DEF LoopWorld
  <2>3. /\ world'.wake = TRUE /\ world'.phase = world.phase /\ world'.work = world.work /\ world'.maintains = world.maintains
        /\ world'.stats = world.stats /\ world'.refreshIn = world.refreshIn
    BY <1>0, <2>1 DEF LoopWorld
  <2> QED  BY <2>1, <2>2, <2>3 DEF TickIsFresh, WakeIsNotLost, StopWaited, StatsInTime, TimerIsReset, Up, Work
<1>4. ASSUME NEW woken \in BOOLEAN, BeginTick(woken) PROVE LoopInv'
  <2>1. world' = [world EXCEPT !.work["poller"] = "ticking", !.holds = world.staged, !.wake = IF woken THEN FALSE ELSE @] /\ part' = part  BY <1>4 DEF BeginTick
  <2>0. Up /\ world.work \in [Goroutines -> LoopStates] /\ world.work["poller"] \in {"jitter", "idle"}  BY <1>4 DEF BeginTick, Work
  <2>2. world' \in LoopWorld  BY <1>0, <2>0, <2>1 DEF LoopWorld, LoopStates
  <2>3. /\ world'.holds = world.staged /\ world'.staged = world.staged /\ world'.phase = world.phase
        /\ world'.work = [world.work EXCEPT !["poller"] = "ticking"] /\ world'.maintains = world.maintains
        /\ world'.stats = world.stats /\ world'.refreshIn = world.refreshIn
    BY <1>0, <2>1 DEF LoopWorld
  <2>4. /\ world'.work \in [Goroutines -> LoopStates] /\ world'.work["poller"] = "ticking"
        /\ world'.work["stats"] = world.work["stats"] /\ world'.work["maintenance"] = world.work["maintenance"]
    BY <2>0, <2>3 DEF LoopStates
  <2>5. world.phase # "closed"  BY <2>0 DEF StopWaited
  <2> QED  BY <2>0, <2>1, <2>2, <2>3, <2>4, <2>5 DEF TickIsFresh, WakeIsNotLost, StopWaited, StatsInTime, TimerIsReset, Up, Work
<1>5. ASSUME NEW ok \in BOOLEAN, EndTick(ok) PROVE LoopInv'
  <2>1. world' = [world EXCEPT !.work["poller"] = "idle", !.tickFailed = ~ok] /\ part' = part /\ live' = IF ok THEN {world.holds} ELSE live
     BY <1>5 DEF EndTick
  <2>0. Up /\ world.work \in [Goroutines -> LoopStates] /\ world.work["poller"] = "ticking"  BY <1>5 DEF EndTick, Work
  <2>2. world' \in LoopWorld  BY <1>0, <2>0, <2>1 DEF LoopWorld, LoopStates
  <2>3. /\ world'.staged = world.staged /\ world'.phase = world.phase /\ world'.pushing = world.pushing /\ world'.wake = world.wake
        /\ world'.tickFailed = ~ok
        /\ world'.work = [world.work EXCEPT !["poller"] = "idle"] /\ world'.maintains = world.maintains
        /\ world'.stats = world.stats /\ world'.refreshIn = world.refreshIn
    BY <1>0, <2>1 DEF LoopWorld
  <2>4. /\ world'.work \in [Goroutines -> LoopStates] /\ world'.work["poller"] = "idle"
        /\ world'.work["stats"] = world.work["stats"] /\ world'.work["maintenance"] = world.work["maintenance"]
    BY <2>0, <2>3 DEF LoopStates
  <2>5. world.phase # "closed"  BY <2>0 DEF StopWaited
  <2>6. WakeIsNotLost'
    <3>1. ASSUME ok, ~world.pushing PROVE live' = {world'.staged} \/ world'.wake
      BY <2>0, <2>1, <2>3, <3>1 DEF TickIsFresh, Work
    <3> QED  BY <2>3, <3>1 DEF WakeIsNotLost
  <2> QED  BY <2>0, <2>1, <2>2, <2>3, <2>4, <2>5, <2>6 DEF TickIsFresh, StopWaited, StatsInTime, TimerIsReset, Up, Work
<1>6. ASSUME BeginRefresh PROVE LoopInv'
  <2>1. world' = [world EXCEPT !.work["stats"] = "ticking", !.refreshIn = StatsRefreshInterval] /\ part' = part /\ live' = live
     BY <1>6 DEF BeginRefresh
  <2>0. Up /\ world.work \in [Goroutines -> LoopStates] /\ world.work["stats"] = "idle"  BY <1>6 DEF BeginRefresh, Work
  <2>2. world' \in LoopWorld  BY <1>0, <2>0, <2>1, LoopIntervalsAssumption DEF LoopWorld, LoopStates
  <2>3. /\ world'.staged = world.staged /\ world'.phase = world.phase /\ world'.pushing = world.pushing /\ world'.wake = world.wake
        /\ world'.tickFailed = world.tickFailed /\ world'.holds = world.holds
        /\ world'.work = [world.work EXCEPT !["stats"] = "ticking"] /\ world'.maintains = world.maintains
        /\ world'.stats = world.stats
    BY <1>0, <2>1 DEF LoopWorld
  <2>4. /\ world'.work \in [Goroutines -> LoopStates] /\ world'.work["poller"] = world.work["poller"]
        /\ world'.work["stats"] = "ticking" /\ world'.work["maintenance"] = world.work["maintenance"]
    BY <2>0, <2>3 DEF LoopStates
  <2>5. world.phase # "closed"  BY <2>0 DEF StopWaited
  <2> QED  BY <2>0, <2>1, <2>2, <2>3, <2>4, <2>5 DEF TickIsFresh, WakeIsNotLost, StopWaited, StatsInTime, TimerIsReset, Up, Work
<1>7. ASSUME NEW ok \in BOOLEAN, EndRefresh(ok) PROVE LoopInv'
  <2>1. world' = [world EXCEPT !.work["stats"] = "idle", !.stats = Analyzed(@, ok)] /\ part' = part /\ live' = live
     BY <1>7 DEF EndRefresh
  <2>0. Up /\ world.work \in [Goroutines -> LoopStates] /\ world.work["stats"] = "ticking"  BY <1>7 DEF EndRefresh, Work
  <2>a. Analyzed(world.stats, ok) \in LoopStats  BY <1>0 DEF LoopWorld, LoopStats, Analyzed
  <2>2. world' \in LoopWorld  BY <1>0, <2>0, <2>1, <2>a DEF LoopWorld, LoopStates
  <2>3. /\ world'.staged = world.staged /\ world'.phase = world.phase /\ world'.pushing = world.pushing /\ world'.wake = world.wake
        /\ world'.tickFailed = world.tickFailed /\ world'.holds = world.holds
        /\ world'.work = [world.work EXCEPT !["stats"] = "idle"] /\ world'.maintains = world.maintains
        /\ world'.stats = Analyzed(world.stats, ok)
    BY <1>0, <2>1 DEF LoopWorld
  <2>4. /\ world'.work \in [Goroutines -> LoopStates] /\ world'.work["poller"] = world.work["poller"]
        /\ world'.work["stats"] = "idle" /\ world'.work["maintenance"] = world.work["maintenance"]
    BY <2>0, <2>3 DEF LoopStates
  <2>5. world.phase # "closed"  BY <2>0 DEF StopWaited
  <2>6. StatsInTime'
    <3>1. CASE ok
      <4>1. world'.stats.age = 0 /\ world'.stats.refreshed  BY <2>3, <3>1 DEF Analyzed
      <4>2. world'.refreshIn = StatsRefreshInterval
        BY <1>0, <2>0, <2>1, LoopIntervalsAssumption DEF LoopWorld, TimerIsReset
      <4> QED  BY <4>1, <4>2, LoopIntervalsAssumption DEF StatsInTime, Bound
    <3>2. CASE ~ok
      <4>1. world'.stats.excused  BY <1>0, <2>3, <3>2 DEF Analyzed, LoopWorld, LoopStats
      <4> QED  BY <4>1 DEF StatsInTime
    <3> QED  BY <3>1, <3>2
  <2> QED  BY <2>0, <2>1, <2>2, <2>3, <2>4, <2>5, <2>6 DEF TickIsFresh, WakeIsNotLost, StopWaited, TimerIsReset, Up, Work
<1>8. ASSUME NEW to \in {"ticking", "idle"}, Work("maintenance") \in {"idle", "ticking"},
             Set([world EXCEPT !.work["maintenance"] = to])
      PROVE  LoopInv'
  <2>1. world' = [world EXCEPT !.work["maintenance"] = to] /\ part' = part /\ live' = live  BY <1>8
  <2>0. Up /\ world.work \in [Goroutines -> LoopStates] /\ world.work["maintenance"] # "gone"  BY <1>8 DEF Work
  <2>2. world' \in LoopWorld  BY <1>0, <2>0, <2>1 DEF LoopWorld, LoopStates
  <2>3. /\ world'.staged = world.staged /\ world'.phase = world.phase /\ world'.pushing = world.pushing /\ world'.wake = world.wake
        /\ world'.tickFailed = world.tickFailed /\ world'.holds = world.holds /\ world'.refreshIn = world.refreshIn
        /\ world'.work = [world.work EXCEPT !["maintenance"] = to] /\ world'.maintains = world.maintains
        /\ world'.stats = world.stats
    BY <1>0, <2>1 DEF LoopWorld
  <2>4. /\ world'.work \in [Goroutines -> LoopStates] /\ world'.work["poller"] = world.work["poller"]
        /\ world'.work["stats"] = world.work["stats"]
    BY <2>0, <2>3 DEF LoopStates
  <2>5. world.phase # "closed" /\ world.maintains  BY <1>0, <2>0 DEF StopWaited, LoopWorld
  <2> QED  BY <2>0, <2>1, <2>2, <2>3, <2>4, <2>5 DEF TickIsFresh, WakeIsNotLost, StopWaited, StatsInTime, TimerIsReset, Up, Work
<1>9. ASSUME LoopClock PROVE LoopInv'
  <2>0. /\ world' = [world EXCEPT !.stats.age = @ + 1, !.refreshIn = @ - 1] /\ part' = part /\ live' = live
        /\ world.phase = "running" /\ world.refreshIn > 0 /\ Up /\ world.work["stats"] # "ticking"
    BY <1>9 DEF LoopClock, Work, Up
  <2> DEFINE age == world.stats.age + 1
             left == world.refreshIn - 1
  <2>1. age \in Nat /\ left \in Nat /\ age + left = world.stats.age + world.refreshIn
    BY <1>0, <2>0 DEF LoopWorld, LoopStats
  <2>2. world' = [world EXCEPT !.stats = [world.stats EXCEPT !.age = age], !.refreshIn = left]  BY <1>0, <2>0 DEF LoopWorld, LoopStats
  <2> HIDE DEF age, left
  <2>3. [world.stats EXCEPT !.age = age] \in LoopStats  BY <1>0, <2>1 DEF LoopWorld, LoopStats
  <2>4. world' \in LoopWorld  BY <1>0, <2>1, <2>2, <2>3 DEF LoopWorld
  <2>5. /\ world'.staged = world.staged /\ world'.phase = world.phase /\ world'.pushing = world.pushing /\ world'.wake = world.wake
        /\ world'.tickFailed = world.tickFailed /\ world'.holds = world.holds /\ world'.refreshIn = left
        /\ world'.work = world.work /\ world'.maintains = world.maintains
        /\ world'.stats = [world.stats EXCEPT !.age = age]
    BY <1>0, <2>2 DEF LoopWorld
  <2>6. /\ world'.stats.has = world.stats.has /\ world'.stats.excused = world.stats.excused
        /\ world'.stats.refreshed = world.stats.refreshed /\ world'.stats.age = age
    BY <1>0, <2>5 DEF LoopWorld, LoopStats
  <2>7. StatsInTime'
    <3> SUFFICES ASSUME world.stats.has, ~world.stats.excused
                 PROVE  /\ age <= Bound /\ (world.stats.refreshed => age <= StatsRefreshInterval)
                        /\ age + left <= IF world.stats.refreshed THEN StatsRefreshInterval ELSE Bound
      BY <2>0, <2>5, <2>6 DEF StatsInTime, Up
    <3>1. age + left <= IF world.stats.refreshed THEN StatsRefreshInterval ELSE Bound
      BY <2>0, <2>1 DEF StatsInTime
    <3> QED  BY <2>1, <3>1, LoopIntervalsAssumption DEF Bound
  <2> QED  BY <2>0, <2>4, <2>5, <2>6, <2>7 DEF TickIsFresh, WakeIsNotLost, StopWaited, TimerIsReset, Up, Work
<1>10. ASSUME NEW to \in {"stopping", "cancelled", "closed"}, Set([world EXCEPT !.phase = to]), world.phase \notin {"off", "closed"},
              to = "closed" => \A g \in Goroutines : world.work[g] = "gone"
       PROVE  LoopInv'
  <2>1. world' = [world EXCEPT !.phase = to] /\ part' = part /\ live' = live  BY <1>10
  <2>2. world' \in LoopWorld  BY <1>0, <2>1 DEF LoopWorld
  <2>3. /\ world'.staged = world.staged /\ world'.phase = to /\ world'.pushing = world.pushing /\ world'.wake = world.wake
        /\ world'.tickFailed = world.tickFailed /\ world'.holds = world.holds /\ world'.refreshIn = world.refreshIn
        /\ world'.work = world.work /\ world'.maintains = world.maintains
        /\ world'.stats = world.stats
    BY <1>0, <2>1 DEF LoopWorld
  <2> QED  BY <1>10, <2>1, <2>2, <2>3 DEF TickIsFresh, WakeIsNotLost, StopWaited, StatsInTime, TimerIsReset, Up, Work
<1>11. ASSUME NEW g \in Goroutines, LoopExits(g) PROVE LoopInv'
  <2>1. world' = [world EXCEPT !.work[g] = "gone"] /\ part' = part /\ live' = live  BY <1>11 DEF LoopExits
  <2>0. Up /\ world.work \in [Goroutines -> LoopStates] /\ world.work[g] # "ticking"  BY <1>11 DEF Work, LoopExits
  <2>2. world' \in LoopWorld  BY <1>0, <2>0, <2>1 DEF LoopWorld, LoopStates
  <2>3. /\ world'.staged = world.staged /\ world'.phase = world.phase /\ world'.pushing = world.pushing /\ world'.wake = world.wake
        /\ world'.tickFailed = world.tickFailed /\ world'.holds = world.holds /\ world'.refreshIn = world.refreshIn
        /\ world'.work = [world.work EXCEPT ![g] = "gone"] /\ world'.maintains = world.maintains
        /\ world'.stats = world.stats
    BY <1>0, <2>1 DEF LoopWorld
  <2>4. /\ world'.work \in [Goroutines -> LoopStates]
        /\ \A h \in Goroutines : world'.work[h] = world.work[h] \/ (h = g /\ world'.work[h] = "gone")
    BY <2>0, <2>3 DEF LoopStates
  <2> QED  BY <2>0, <2>1, <2>2, <2>3, <2>4 DEF TickIsFresh, WakeIsNotLost, StopWaited, StatsInTime, TimerIsReset, Up, Work
<1>12. ASSUME ProcessEnds PROVE LoopInv'
  <2> DEFINE excused == world.stats.excused \/ ~world.stats.refreshed
  <2>1. /\ world' = [world EXCEPT !.phase = "off", !.work = [g \in {} |-> "gone"], !.pushing = FALSE, !.wake = FALSE,
                         !.tickFailed = FALSE, !.refreshIn = 0, !.holds = 0,
                         !.stats = [world.stats EXCEPT !.excused = excused]]
        /\ part' = part /\ Up
    BY <1>0, <1>12 DEF ProcessEnds, LoopWorld, LoopStats
  <2>2. [world.stats EXCEPT !.excused = excused] \in LoopStats  BY <1>0 DEF LoopWorld, LoopStats
  <2>3. world' \in LoopWorld  BY <1>0, <2>1, <2>2 DEF LoopWorld
  <2>4. world'.phase = "off" /\ world'.stats = [world.stats EXCEPT !.excused = excused]  BY <1>0, <2>1 DEF LoopWorld
  <2>5. /\ world'.stats.has = world.stats.has /\ world'.stats.age = world.stats.age
        /\ world'.stats.excused <=> world.stats.excused \/ ~world.stats.refreshed
    BY <1>0, <2>4 DEF LoopWorld, LoopStats
  <2> QED  BY <2>1, <2>3, <2>4, <2>5 DEF TickIsFresh, WakeIsNotLost, StopWaited, StatsInTime, TimerIsReset, Up, Work
<1>13. ASSUME UNCHANGED feedVars PROVE LoopInv'
  BY <1>13 DEF feedVars, TickIsFresh, WakeIsNotLost, StopWaited, StatsInTime, TimerIsReset, Up, Work
<1>14. CASE BeginMaintenance \/ EndMaintenance  BY <1>8, <1>14 DEF BeginMaintenance, EndMaintenance
<1>15. CASE BeginStop \/ CancelWork  BY <1>10, <1>15 DEF BeginStop, CancelWork
<1>16. CASE StopReturns
  <2>1. \A g \in Goroutines : world.work[g] = "gone"
    BY <1>0, <1>16 DEF StopReturns, Counted, Work, Up, StopWaited, LoopWorld
  <2> QED  BY <1>10, <1>16, <2>1 DEF StopReturns
<1> QED
  BY <1>1, <1>2, <1>3, <1>4, <1>5, <1>6, <1>7, <1>9, <1>11, <1>12, <1>13, <1>14, <1>15, <1>16 DEF LoopNext

LEMMA LoopInvHolds == LoopSpec => []LoopInv
<1>1. part = "loop" /\ LoopInit => LoopInv  BY LoopInitInv
<1>2. LoopInv /\ [LoopNext]_feedVars => LoopInv'  BY LoopStep
<1> QED  BY <1>1, <1>2, PTL DEF LoopSpec

(* NewWake, Scheduler.run, ingestBurn: for any number of pushes, boots and   *)
(* failing ticks, an accepted reading is shown, or a tick is still to come, or*)
(* the last one failed.                                                      *)
THEOREM WakeTheorem == LoopSpec => []WakeIsNotLost
<1>1. LoopInv => WakeIsNotLost  BY DEF LoopInv
<1> QED  BY <1>1, LoopInvHolds, PTL

(* Scheduler.Stop: nothing of the scheduler is at work when the store is     *)
(* closed, with or without the maintenance loop.                             *)
THEOREM StopTheorem == LoopSpec => []StopIsFinal
<1>1. LoopInv => StopIsFinal  BY DEF LoopInv, StopWaited, StopIsFinal
<1> QED  BY <1>1, LoopInvHolds, PTL

(* runStatsRefresh, StatsRefreshFirstAfter: for any intervals and however often*)
(* a deploy restarts the process, the statistics never grow older than the   *)
(* bound.                                                                    *)
THEOREM StatsTheorem == LoopSpec => []StatsKeepUp
<1>1. LoopInv => StatsKeepUp  BY DEF LoopInv, StatsInTime, StatsKeepUp
<1> QED  BY <1>1, LoopInvHolds, PTL

-----------------------------------------------------------------------------
(***************************************************************************)
(* The opening of the store.  Migrations are recorded in the transaction that*)
(* applies them and the lock keeps two openings apart, so the schema is always*)
(* a prefix of the list of migrations.                                     *)
(***************************************************************************)
Releases == DOMAIN Release
KnownSource == UNION {Release[r].sources \cup Release[r].reporters : r \in Releases}
OpenRow == [kind : {"REPORTER", "FEED"}, health : {"never", "OK", "failed"}]
OpenRows == UNION {[S -> OpenRow] : S \in SUBSET KnownSource}
OpenDb == [applied : SUBSET Nat, recorded : SUBSET Nat,
           journal : {"DELETE"} \cup {Release[r].journal : r \in Releases}, rows : OpenRows]
OpenProc == [at : {"off", "prepared", "locked", "migrating", "opened", "seeded", "serving"}, failed : BOOLEAN]
OpenWorld ==
    [lock : Releases \cup {NoProcess}, walWorks : BOOLEAN, launches : Nat, db : OpenDb, proc : [Releases -> OpenProc]]

OpenTypes == part = "open" /\ world \in OpenWorld /\ \A e \in live : e.source \in KnownSource

\* The migrations run in their order, and each with its record.
SchemaAt(c) ==
    /\ world.db.recorded = 1 .. c /\ world.db.applied = 1 .. c
    /\ \A r \in Releases : At(r) \in {"opened", "seeded", "serving"} => Release[r].schema <= c
SchemaInOrder == \E c \in Nat : SchemaAt(c)

\* A process that has the database open holds the lock.
LockHeld == \A r \in Releases : At(r) \notin {"off", "prepared"} => world.lock = r

\* What the boot seeded is there until the database is closed.
SeedsKept ==
    \A r \in Releases : At(r) \in {"seeded", "serving"} =>
        \A s \in GridSourceSeeds(r) :
            s \in DOMAIN world.db.rows /\ (HasColumn(r) => world.db.rows[s].kind = Kind(r, s))

OpenInv == OpenTypes /\ SchemaInOrder /\ LockHeld /\ SeedsKept /\ RowOutlivesEvents

LEMMA CurrentIsLast == ASSUME NEW db, NEW c \in Nat, db.recorded = 1 .. c PROVE Current(db) = c
<1>1. CASE c = 0  BY <1>1 DEF Current
<1>2. CASE c # 0
  <2>1. c \in 1 .. c /\ \A u \in 1 .. c : u <= c  BY <1>2
  <2>2. \A v \in 1 .. c : (\A u \in 1 .. c : u <= v) => v = c  BY <2>1
  <2> QED  BY <2>1, <2>2 DEF Current
<1> QED  BY <1>1, <1>2

LEMMA EmptyRows == <<>> \in OpenRows /\ DOMAIN <<>> = {}
<1>1. <<>> \in [{} -> OpenRow]  OBVIOUS
<1> QED  BY <1>1 DEF OpenRows

LEMMA OpenInitInv == part = "open" /\ OpenInit => OpenInv
<1> SUFFICES ASSUME part = "open", OpenInit PROVE OpenInv  OBVIOUS
<1>1. PICK wal \in BOOLEAN :
         world = [lock |-> NoProcess, walWorks |-> wal, launches |-> 0,
                  db |-> [applied |-> {}, recorded |-> {}, journal |-> "DELETE", rows |-> <<>>],
                  proc |-> [r \in DOMAIN Release |-> Off]]
  BY DEF OpenInit
<1>2. live = {}  BY DEF OpenInit
<1>3. world \in OpenWorld  BY <1>1, EmptyRows DEF OpenWorld, OpenDb, OpenProc, Off, Releases
<1>4. \A r \in Releases : At(r) = "off"  BY <1>1 DEF At, Off, Releases
<1>5. SchemaAt(0)  BY <1>1, <1>4 DEF SchemaAt
<1> QED  BY <1>2, <1>3, <1>4, <1>5 DEF OpenInv, OpenTypes, SchemaInOrder, LockHeld, SeedsKept, RowOutlivesEvents

LEMMA StepFields ==
    ASSUME NEW r \in Releases, NEW at \in {"off", "prepared", "locked", "migrating", "opened", "seeded", "serving"},
           NEW w \in OpenWorld, Step(r, at, w), part = "open"
    PROVE  /\ world' \in OpenWorld /\ part' = "open"
           /\ world'.lock = w.lock /\ world'.db = w.db
           /\ world'.proc[r].at = at
           /\ \A q \in Releases \ {r} : world'.proc[q] = w.proc[q]
           /\ w.db \in OpenDb /\ w.db.rows \in OpenRows
<1>1. world' = [w EXCEPT !.proc = [w.proc EXCEPT ![r] = [w.proc[r] EXCEPT !.at = at]]] /\ part' = part
  BY DEF Step, OpenWorld
<1>2. [w.proc[r] EXCEPT !.at = at] \in OpenProc /\ [w.proc[r] EXCEPT !.at = at].at = at  BY DEF OpenWorld, OpenProc
<1> DEFINE pr == [w.proc[r] EXCEPT !.at = at]
<1> HIDE DEF pr
<1>3. [w.proc EXCEPT ![r] = pr] \in [Releases -> OpenProc]  BY <1>2 DEF OpenWorld, pr
<1> QED  BY <1>1, <1>2, <1>3 DEF OpenWorld, OpenDb, pr


\* A step that changes neither the schema nor the rows nor the events.
LEMMA QuietStep ==
    ASSUME OpenInv, NEW r \in Releases, NEW at \in {"off", "prepared", "locked", "migrating", "opened", "seeded", "serving"},
           NEW w \in OpenWorld, Step(r, at, w), UNCHANGED live,
           w.db.applied = world.db.applied, w.db.recorded = world.db.recorded, w.db.rows = world.db.rows,
           \A q \in Releases \ {r} : w.proc[q] = world.proc[q],
           w.lock = world.lock \/ world.lock \in {r, NoProcess},
           at \notin {"off", "prepared"} => w.lock = r,
           at \in {"seeded", "serving"} => At(r) = "seeded",
           at = "opened" => Pending(r, world.db) = {}
    PROVE  OpenInv'
<1>0. world \in OpenWorld /\ part = "open"  BY DEF OpenInv, OpenTypes
<1>1. /\ world' \in OpenWorld /\ part' = "open" /\ world'.lock = w.lock /\ world'.db = w.db
      /\ world'.proc[r].at = at /\ \A q \in Releases \ {r} : world'.proc[q] = w.proc[q]
  BY <1>0, StepFields
<1>2. \A q \in Releases \ {r} : At(q)' = At(q)  BY <1>1 DEF At
<1>3. At(r)' = at  BY <1>1 DEF At
<1>4. OpenTypes'  BY <1>1 DEF OpenInv, OpenTypes
<1>5. SchemaInOrder'
  <2>1. PICK c \in Nat : SchemaAt(c)  BY DEF OpenInv, SchemaInOrder
  <2>2. at = "opened" => Release[r].schema <= c
    <3> SUFFICES ASSUME at = "opened", Release[r].schema > c PROVE FALSE  BY <2>1, ReleaseAssumption DEF Releases
    <3>1. Current(world.db) = c  BY <2>1, CurrentIsLast DEF SchemaAt
    <3>2. Release[r].schema \in Pending(r, world.db)  BY <2>1, <3>1, ReleaseAssumption DEF Pending, Releases
    <3> QED  BY <3>2
  <2>3. SchemaAt(c)'  BY <1>1, <1>2, <1>3, <2>1, <2>2 DEF SchemaAt
  <2> QED  BY <2>3 DEF SchemaInOrder
<1>6. LockHeld'
  <2>1. ASSUME NEW q \in Releases, At(q)' \notin {"off", "prepared"} PROVE world'.lock = q
    <3>1. CASE q = r  BY <1>1, <1>3, <2>1, <3>1
    <3>2. CASE q # r  BY <1>1, <1>2, <2>1, <3>2, NoProcessAssumption DEF OpenInv, LockHeld, Releases
    <3> QED  BY <3>1, <3>2
  <2> QED  BY <2>1 DEF LockHeld
<1>7. SeedsKept'  BY <1>1, <1>2, <1>3 DEF OpenInv, SeedsKept
<1>8. RowOutlivesEvents'  BY <1>0, <1>1 DEF OpenInv, RowOutlivesEvents
<1> QED  BY <1>4, <1>5, <1>6, <1>7, <1>8 DEF OpenInv

LEMMA ReleasedFields ==
    ASSUME world \in OpenWorld, NEW r \in Releases
    PROVE  /\ Released(r) \in OpenWorld /\ Released(r).db = world.db
           /\ \A q \in Releases \ {r} : Released(r).proc[q] = world.proc[q]
<1> DEFINE lock == IF world.lock = r THEN NoProcess ELSE world.lock
           pr == [world.proc[r] EXCEPT !.failed = FALSE]
           procs == [world.proc EXCEPT ![r] = pr]
<1>1. lock \in Releases \cup {NoProcess}  BY DEF OpenWorld
<1>2. pr \in OpenProc  BY DEF OpenWorld, OpenProc
<1>3. procs \in [Releases -> OpenProc] /\ \A q \in Releases \ {r} : procs[q] = world.proc[q]  BY <1>2 DEF OpenWorld
<1>4. Released(r) = [world EXCEPT !.lock = lock, !.proc = procs]  BY DEF Released, OpenWorld
<1> HIDE DEF lock, procs
<1> QED  BY <1>1, <1>3, <1>4 DEF OpenWorld

\* The lock is taken, given up and released.
LEMMA LockSteps ==
    ASSUME OpenInv, NEW r \in Releases,
           Launch(r) \/ TakeLock(r) \/ GiveUp(r) \/ ReadBack(r) \/ Migrated(r) \/ Serve(r) \/ Stopped(r)
    PROVE  OpenInv'
<1>0. world \in OpenWorld /\ part = "open" /\ world.proc \in [Releases -> OpenProc]
  BY DEF OpenInv, OpenTypes, OpenWorld
<1>1. CASE Launch(r)
  <2> DEFINE w == [world EXCEPT !.launches = @ + 1]
  <2>1. w \in OpenWorld /\ w.db = world.db /\ w.proc = world.proc /\ w.lock = world.lock
    <3>1. world.launches + 1 \in Nat  BY <1>0 DEF OpenWorld
    <3> QED  BY <1>0, <3>1 DEF OpenWorld
  <2> QED  BY <1>1, <2>1, QuietStep DEF Launch
<1>2. CASE TakeLock(r)
  <2> DEFINE w == [world EXCEPT !.lock = r]
  <2>1. w \in OpenWorld /\ w.db = world.db /\ w.proc = world.proc /\ w.lock = r
    BY <1>0 DEF OpenWorld
  <2> QED  BY <1>2, <2>1, QuietStep DEF TakeLock
<1>3. CASE GiveUp(r)
  BY <1>0, <1>3, QuietStep DEF GiveUp
<1>4. CASE ReadBack(r)
  <2>1. world.lock = r  BY <1>4 DEF ReadBack, OpenInv, LockHeld
  <2> DEFINE applied == AppliedJournal(r)
             w == [world EXCEPT !.db.journal = applied]
  <2>a. applied \in {"DELETE"} \cup {Release[q].journal : q \in Releases}
    BY <1>0 DEF AppliedJournal, OpenWorld, OpenDb
  <2> HIDE DEF applied
  <2>2. /\ w \in OpenWorld /\ w.lock = world.lock /\ w.proc = world.proc
        /\ w.db.applied = world.db.applied /\ w.db.recorded = world.db.recorded /\ w.db.rows = world.db.rows
    BY <1>0, <2>a DEF OpenWorld, OpenDb
  <2> DEFINE u == [w EXCEPT !.lock = NoProcess]
  <2> HIDE DEF w
  <2>3. /\ u \in OpenWorld /\ u.lock = NoProcess /\ u.proc = world.proc /\ u.db = w.db
    BY <2>2 DEF OpenWorld
  <2> HIDE DEF u
  <2>4. (Step(r, "migrating", w) \/ Step(r, "off", u)) /\ UNCHANGED live  BY <1>4 DEF ReadBack, applied, w, u
  <2> QED  BY <2>1, <2>2, <2>3, <2>4, QuietStep
<1>5. CASE Migrated(r)
  <2>1. world.lock = r  BY <1>5 DEF Migrated, OpenInv, LockHeld
  <2> QED  BY <1>0, <1>5, <2>1, QuietStep DEF Migrated
<1>6. CASE Serve(r)
  <2>1. world.lock = r  BY <1>6 DEF Serve, OpenInv, LockHeld
  <2> QED  BY <1>0, <1>6, <2>1, QuietStep DEF Serve
<1>7. CASE Stopped(r)
  <2>1. world.lock = r  BY <1>7 DEF Stopped, OpenInv, LockHeld
  <2> QED  BY <1>0, <1>7, <2>1, ReleasedFields, QuietStep DEF Stopped
<1> QED  BY <1>1, <1>2, <1>3, <1>4, <1>5, <1>6, <1>7

LEMMA MigrateStep ==
    ASSUME OpenInv, NEW r \in Releases, MigrateNext(r)
    PROVE  OpenInv'
<1>0. world \in OpenWorld /\ part = "open" /\ world.db \in OpenDb  BY DEF OpenInv, OpenTypes, OpenWorld
<1>1. world.lock = r  BY DEF MigrateNext, OpenInv, LockHeld
<1> DEFINE pending == Pending(r, world.db)
           v == CHOOSE u \in pending : \A x \in pending : u <= x
<1>2. PICK d \in MigrationTx(world.db, v) :
            /\ Step(r, IF v \in d.recorded THEN "migrating" ELSE "off",
                    IF v \in d.recorded THEN [world EXCEPT !.db = d] ELSE [Released(r) EXCEPT !.db = d])
            /\ UNCHANGED live
  BY DEF MigrateNext
<1>3. PICK c \in Nat : SchemaAt(c)  BY DEF OpenInv, SchemaInOrder
<1>4. v = c + 1 /\ c + 1 <= Release[r].schema
  <2>1. Current(world.db) = c  BY <1>3, CurrentIsLast DEF SchemaAt
  <2>2. pending = {u \in 1 .. Release[r].schema : u > c} /\ Release[r].schema \in Nat
    BY <2>1, ReleaseAssumption DEF Pending, Releases
  <2>3. pending # {}  BY DEF MigrateNext
  <2>4. c + 1 \in pending /\ \A x \in pending : c + 1 <= x  BY <2>2, <2>3
  <2>5. \A u \in pending : (\A x \in pending : u <= x) => u = c + 1  BY <2>2, <2>4
  <2>6. c + 1 <= Release[r].schema  BY <2>2, <2>4
  <2> HIDE DEF pending
  <2> QED  BY <2>4, <2>5, <2>6
<1> HIDE DEF v, pending
<1>5. CASE v \notin d.recorded
  <2>1. d = world.db  BY <1>0, <1>2, <1>5 DEF MigrationTx, OpenDb
  <2>2. [Released(r) EXCEPT !.db = d] = Released(r)  BY <1>0, <2>1, ReleasedFields DEF OpenWorld
  <2>3. Step(r, "off", Released(r)) /\ UNCHANGED live  BY <1>2, <1>5, <2>2
  <2> QED  BY <1>0, <1>1, <2>3, ReleasedFields, QuietStep
<1>6. CASE v \in d.recorded
  <2>1. v \notin world.db.recorded  BY <1>3, <1>4 DEF SchemaAt
  <2>2. d = [world.db EXCEPT !.applied = @ \cup {v}, !.recorded = @ \cup {v}]  BY <1>2, <1>6, <2>1 DEF MigrationTx
  <2>3. /\ d \in OpenDb /\ d.applied = world.db.applied \cup {v} /\ d.recorded = world.db.recorded \cup {v}
        /\ d.rows = world.db.rows
    <3>1. v \in Nat  BY <1>3, <1>4
    <3>2. world.db.applied \cup {v} \in SUBSET Nat /\ world.db.recorded \cup {v} \in SUBSET Nat  BY <1>0, <3>1 DEF OpenDb
    <3> QED  BY <1>0, <2>2, <3>2 DEF OpenDb
  <2> DEFINE w == [world EXCEPT !.db = d]
  <2>4. w \in OpenWorld /\ w.db = d /\ w.lock = world.lock /\ w.proc = world.proc  BY <1>0, <2>3 DEF OpenWorld
  <2>5. Step(r, "migrating", w) /\ UNCHANGED live  BY <1>2, <1>6
  <2> HIDE DEF w
  <2>6. /\ world' \in OpenWorld /\ part' = "open" /\ world'.lock = r /\ world'.db = d
        /\ At(r)' = "migrating" /\ \A q \in Releases \ {r} : At(q)' = At(q)
    BY <1>0, <1>1, <2>4, <2>5, StepFields DEF At
  <2>7. OpenTypes'  BY <2>5, <2>6 DEF OpenInv, OpenTypes
  <2>8. SchemaAt(c + 1)'
    <3>1. 1 .. (c + 1) = (1 .. c) \cup {c + 1}  BY <1>3
    <3>2. d.recorded = 1 .. (c + 1) /\ d.applied = 1 .. (c + 1)  BY <1>3, <1>4, <2>3, <3>1 DEF SchemaAt
    <3> QED  BY <1>3, <2>6, <3>2, ReleaseAssumption DEF SchemaAt, Releases
  <2>9. SchemaInOrder'  BY <1>3, <2>8 DEF SchemaInOrder
  <2>10. LockHeld'  BY <1>1, <2>6 DEF OpenInv, LockHeld
  <2>11. SeedsKept'  BY <2>3, <2>6 DEF OpenInv, SeedsKept
  <2>12. RowOutlivesEvents'  BY <1>0, <2>3, <2>5, <2>6 DEF OpenInv, RowOutlivesEvents
  <2> QED  BY <2>7, <2>9, <2>10, <2>11, <2>12 DEF OpenInv
<1> QED  BY <1>5, <1>6

\* A step of the process that holds the lock, that changes only rows and events.
LEMMA RowsStep ==
    ASSUME OpenInv, NEW r \in Releases, At(r) \in {"opened", "seeded", "serving"},
           NEW at \in {"seeded", "serving"}, NEW w \in OpenWorld, Step(r, at, w),
           w.db.applied = world.db.applied, w.db.recorded = world.db.recorded,
           \A q \in Releases \ {r} : w.proc[q] = world.proc[q],
           w.lock = world.lock,
           \A s \in GridSourceSeeds(r) : s \in DOMAIN w.db.rows /\ (HasColumn(r) => w.db.rows[s].kind = Kind(r, s)),
           \A e \in live' : e.source \in DOMAIN w.db.rows /\ e.source \in KnownSource
    PROVE  OpenInv'
<1>0. world \in OpenWorld /\ part = "open" /\ world.lock = r  BY DEF OpenInv, OpenTypes, LockHeld
<1>1. /\ world' \in OpenWorld /\ part' = "open" /\ world'.lock = r /\ world'.db = w.db
      /\ At(r)' = at /\ \A q \in Releases \ {r} : At(q)' = At(q)
  BY <1>0, StepFields DEF At
<1>2. OpenTypes'  BY <1>1 DEF OpenTypes
<1>3. SchemaInOrder'
  <2>1. PICK c \in Nat : SchemaAt(c)  BY DEF OpenInv, SchemaInOrder
  <2>2. SchemaAt(c)'  BY <1>1, <2>1 DEF SchemaAt
  <2> QED  BY <2>2 DEF SchemaInOrder
<1>4. LockHeld'  BY <1>0, <1>1 DEF OpenInv, LockHeld
<1>5. SeedsKept'
  <2>1. \A q \in Releases \ {r} : At(q) \in {"off", "prepared"}  BY <1>0 DEF OpenInv, LockHeld
  <2> QED  BY <1>1, <2>1 DEF SeedsKept
<1>6. RowOutlivesEvents'  BY <1>1 DEF RowOutlivesEvents
<1> QED  BY <1>2, <1>3, <1>4, <1>5, <1>6 DEF OpenInv

\* A table of rows that replaces another.
LEMMA RowsFields ==
    ASSUME world \in OpenWorld, NEW rows \in OpenRows
    PROVE  /\ [world EXCEPT !.db.rows = rows] \in OpenWorld
           /\ [world EXCEPT !.db.rows = rows].db = [world.db EXCEPT !.rows = rows]
           /\ [world.db EXCEPT !.rows = rows].rows = rows
           /\ [world.db EXCEPT !.rows = rows].applied = world.db.applied
           /\ [world.db EXCEPT !.rows = rows].recorded = world.db.recorded
           /\ [world EXCEPT !.db.rows = rows].lock = world.lock
           /\ [world EXCEPT !.db.rows = rows].proc = world.proc
BY DEF OpenWorld, OpenDb

LEMMA RowTypes == ASSUME world \in OpenWorld, NEW s \in DOMAIN world.db.rows
                  PROVE  world.db.rows[s] \in OpenRow /\ DOMAIN world.db.rows \subseteq KnownSource
BY DEF OpenWorld, OpenDb, OpenRows

LEMMA SeedStep ==
    ASSUME OpenInv, NEW r \in Releases, SeedSources(r)
    PROVE  OpenInv'
<1>0. world \in OpenWorld /\ part = "open" /\ world.lock = r /\ At(r) = "opened"
  BY DEF OpenInv, OpenTypes, LockHeld, SeedSources
<1> DEFINE old == world.db.rows
           S == DOMAIN old \cup GridSourceSeeds(r)
           rows == [s \in S |-> IF s \in GridSourceSeeds(r) THEN SeededRow(r, s) ELSE old[s]]
<1>1. Step(r, "seeded", [world EXCEPT !.db.rows = rows]) /\ live' = live  BY DEF SeedSources
<1>2. rows \in OpenRows
  <2>1. S \in SUBSET KnownSource
    <3>1. DOMAIN old \subseteq KnownSource  BY <1>0, RowTypes
    <3>2. GridSourceSeeds(r) \subseteq KnownSource  BY DEF GridSourceSeeds, KnownSource
    <3> QED  BY <3>1, <3>2
  <2>2. \A s \in S : rows[s] \in OpenRow
    <3> SUFFICES ASSUME NEW s \in S PROVE rows[s] \in OpenRow  OBVIOUS
    <3>1. s \in DOMAIN old => old[s] \in OpenRow  BY <1>0, RowTypes
    <3>2. SeededRow(r, s) \in OpenRow  BY <3>1 DEF SeededRow, OpenRow, Kind
    <3> QED  BY <3>1, <3>2
  <2>3. rows \in [S -> OpenRow]  BY <2>2
  <2> QED  BY <2>1, <2>3 DEF OpenRows
<1>3. \A s \in GridSourceSeeds(r) : s \in DOMAIN rows /\ (HasColumn(r) => rows[s].kind = Kind(r, s))
  BY DEF SeededRow
<1>4. \A e \in live' : e.source \in DOMAIN rows /\ e.source \in KnownSource
  BY <1>0, <1>1 DEF OpenInv, OpenTypes, RowOutlivesEvents
<1> HIDE DEF rows
<1> DEFINE w == [world EXCEPT !.db.rows = rows]
<1>w. /\ w \in OpenWorld /\ w.lock = world.lock /\ w.proc = world.proc /\ w.db.rows = rows
      /\ w.db.applied = world.db.applied /\ w.db.recorded = world.db.recorded
  BY <1>0, <1>2, RowsFields
<1> HIDE DEF w
<1>s. Step(r, "seeded", w)  BY <1>1 DEF w
<1> QED  BY <1>0, <1>w, <1>s, <1>3, <1>4, RowsStep

LEMMA PollStep ==
    ASSUME OpenInv, NEW r \in Releases, NEW s \in Release[r].sources, PollTick(r, s)
    PROVE  OpenInv'
<1>0. world \in OpenWorld /\ part = "open" /\ world.lock = r /\ At(r) = "serving"
  BY DEF OpenInv, OpenTypes, LockHeld, PollTick
<1>1. PICK ok \in BOOLEAN, es \in SUBSET {[id |-> s, source |-> s]} :
         /\ live' = IF ok THEN (live \ PriorForSource(s)) \cup es ELSE live
         /\ Step(r, "serving",
                 [world EXCEPT !.db.rows = IF s \in DOMAIN @ THEN [@ EXCEPT ![s].health = IF ok THEN "OK" ELSE "failed"]
                                           ELSE @])
  BY DEF PollTick
<1> DEFINE old == world.db.rows
           health == IF ok THEN "OK" ELSE "failed"
           rows == [old EXCEPT ![s] = [old[s] EXCEPT !.health = health]]
<1>2. s \in GridSourceSeeds(r) /\ s \in KnownSource  BY DEF GridSourceSeeds, KnownSource
<1>3. s \in DOMAIN old  BY <1>0, <1>2 DEF OpenInv, SeedsKept
<1>4. Step(r, "serving", [world EXCEPT !.db.rows = rows])  BY <1>1, <1>3
<1>5. old[s] \in OpenRow  BY <1>0, <1>3, RowTypes
<1>6. [old[s] EXCEPT !.health = health] \in OpenRow /\ [old[s] EXCEPT !.health = health].kind = old[s].kind
  BY <1>5 DEF OpenRow
<1>7. rows \in OpenRows /\ DOMAIN rows = DOMAIN old /\ \A t \in DOMAIN old : rows[t].kind = old[t].kind
  <2>1. PICK S \in SUBSET KnownSource : old \in [S -> OpenRow]  BY <1>0 DEF OpenWorld, OpenDb, OpenRows
  <2> DEFINE row == [old[s] EXCEPT !.health = health]
  <2> HIDE DEF row
  <2>2. [old EXCEPT ![s] = row] \in [S -> OpenRow]  BY <1>3, <1>6, <2>1 DEF row
  <2>3. rows = [old EXCEPT ![s] = row]  BY DEF row
  <2>4. row.kind = old[s].kind  BY <1>6 DEF row
  <2>5. \A t \in S : [old EXCEPT ![s] = row][t] = IF t = s THEN row ELSE old[t]  BY <2>1
  <2> HIDE DEF rows
  <2>6. rows \in OpenRows  BY <2>1, <2>2, <2>3 DEF OpenRows
  <2>7. DOMAIN rows = S /\ DOMAIN old = S  BY <2>1, <2>2, <2>3
  <2> QED  BY <2>3, <2>4, <2>5, <2>6, <2>7
<1>8. \A t \in GridSourceSeeds(r) : t \in DOMAIN rows /\ (HasColumn(r) => rows[t].kind = Kind(r, t))
  BY <1>0, <1>7 DEF OpenInv, SeedsKept
<1>9. \A e \in live' : e.source \in DOMAIN rows /\ e.source \in KnownSource
  <2>1. \A e \in es : e.source = s  OBVIOUS
  <2> QED  BY <1>0, <1>1, <1>2, <1>3, <1>7, <2>1 DEF OpenInv, OpenTypes, RowOutlivesEvents
<1> HIDE DEF rows
<1> DEFINE w == [world EXCEPT !.db.rows = rows]
<1>w. /\ w \in OpenWorld /\ w.lock = world.lock /\ w.proc = world.proc /\ w.db.rows = rows
      /\ w.db.applied = world.db.applied /\ w.db.recorded = world.db.recorded
  BY <1>0, <1>7, RowsFields
<1> HIDE DEF w
<1>s. Step(r, "serving", w)  BY <1>4 DEF w
<1> QED  BY <1>0, <1>w, <1>s, <1>8, <1>9, RowsStep

LEMMA RetireStep ==
    ASSUME OpenInv, NEW r \in Releases, Retire(r)
    PROVE  OpenInv'
<1>0. world \in OpenWorld /\ part = "open" /\ world.lock = r /\ At(r) = "seeded"
  BY DEF OpenInv, OpenTypes, LockHeld, Retire
<1>1. PICK s \in Release[r].retired : \E ends, deletes \in BOOLEAN :
            LET mine == PriorForSource(s)
                ended == mine = {} \/ ends
                gone == MayDelete(s, ended) /\ deletes
            IN /\ live' = IF ended THEN live \ mine ELSE live
               /\ Step(r, "seeded",
                       [world EXCEPT !.db.rows = IF gone THEN WithoutRow(@, s) ELSE @,
                                     !.proc[r].failed = @ \/ ~ended])
  BY DEF Retire
<1>2. PICK ended \in BOOLEAN, gone \in BOOLEAN :
            /\ gone => ended
            /\ live' = IF ended THEN live \ PriorForSource(s) ELSE live
            /\ Step(r, "seeded",
                       [world EXCEPT !.db.rows = IF gone THEN WithoutRow(@, s) ELSE @,
                                     !.proc[r].failed = @ \/ ~ended])
  <2>1. PICK ends \in BOOLEAN, deletes \in BOOLEAN :
            LET mine == PriorForSource(s)
                ended == mine = {} \/ ends
                gone == MayDelete(s, ended) /\ deletes
            IN /\ live' = IF ended THEN live \ mine ELSE live
               /\ Step(r, "seeded",
                       [world EXCEPT !.db.rows = IF gone THEN WithoutRow(@, s) ELSE @,
                                     !.proc[r].failed = @ \/ ~ended])
    BY <1>1
  <2> DEFINE e == PriorForSource(s) = {} \/ ends
             g == e /\ deletes
  <2>2. e \in BOOLEAN /\ g \in BOOLEAN /\ (g => e)  OBVIOUS
  <2>3. /\ live' = IF e THEN live \ PriorForSource(s) ELSE live
        /\ Step(r, "seeded", [world EXCEPT !.db.rows = IF g THEN WithoutRow(@, s) ELSE @, !.proc[r].failed = @ \/ ~e])
    BY <2>1 DEF MayDelete
  <2> HIDE DEF e, g
  <2> QED  BY <2>2, <2>3
<1> DEFINE old == world.db.rows
           rows == IF gone THEN WithoutRow(old, s) ELSE old
           w == [world EXCEPT !.db.rows = rows]
           pr == [world.proc[r] EXCEPT !.failed = @ \/ ~ended]
           u == [w EXCEPT !.proc = [world.proc EXCEPT ![r] = pr]]
<1>3. rows \in OpenRows /\ \A t \in DOMAIN old \ {s} : t \in DOMAIN rows /\ rows[t] = old[t]
  <2>1. PICK S \in SUBSET KnownSource : old \in [S -> OpenRow]  BY <1>0 DEF OpenWorld, OpenDb, OpenRows
  <2>2. WithoutRow(old, s) \in [S \ {s} -> OpenRow]  BY <2>1 DEF WithoutRow
  <2>3. WithoutRow(old, s) \in OpenRows /\ old \in OpenRows  BY <2>1, <2>2 DEF OpenRows
  <2> QED  BY <2>3 DEF WithoutRow
<1>4. ~gone => rows = old  OBVIOUS
<1> HIDE DEF rows
<1>5. pr \in OpenProc  BY <1>0 DEF OpenWorld, OpenProc
<1>6. [world EXCEPT !.db.rows = rows, !.proc[r].failed = @ \/ ~ended] = u
  BY <1>0 DEF OpenWorld, OpenDb, OpenProc
<1>7. w \in OpenWorld /\ w.lock = world.lock /\ w.proc = world.proc /\ w.db = [world.db EXCEPT !.rows = rows]
  BY <1>0, <1>3, RowsFields
<1> HIDE DEF w, pr
<1>8. /\ u \in OpenWorld /\ u.lock = w.lock /\ u.db = w.db
      /\ \A q \in Releases \ {r} : u.proc[q] = world.proc[q]
  BY <1>0, <1>5, <1>7 DEF OpenWorld
<1>9. s \notin GridSourceSeeds(r)  BY ReleaseAssumption DEF GridSourceSeeds, Releases
<1>10. \A t \in GridSourceSeeds(r) : t \in DOMAIN rows /\ (HasColumn(r) => rows[t].kind = Kind(r, t))
  BY <1>0, <1>3, <1>9 DEF OpenInv, SeedsKept
<1>11. \A e \in live' : e.source \in DOMAIN rows /\ e.source \in KnownSource
  BY <1>0, <1>2, <1>3, <1>4 DEF OpenInv, OpenTypes, RowOutlivesEvents, PriorForSource
<1>12. Step(r, "seeded", u)  BY <1>2, <1>6 DEF rows
<1> HIDE DEF u
<1>13. u.db.rows = rows /\ u.db.applied = world.db.applied /\ u.db.recorded = world.db.recorded
  BY <1>0, <1>3, <1>7, <1>8, RowsFields
<1> QED  BY <1>0, <1>7, <1>8, <1>10, <1>11, <1>12, <1>13, RowsStep

LEMMA OpenInvHolds == OpenSpec => []OpenInv
<1>1. part = "open" /\ OpenInit => OpenInv  BY OpenInitInv
<1>2. OpenInv /\ [OpenNext]_feedVars => OpenInv'
  <2> SUFFICES ASSUME OpenInv, [OpenNext]_feedVars PROVE OpenInv'  OBVIOUS
  <2>1. CASE OpenNext
    BY <2>1, LockSteps, MigrateStep, SeedStep, RetireStep, PollStep DEF OpenNext, Releases
  <2>2. CASE UNCHANGED feedVars
    BY <2>2 DEF feedVars, OpenInv, OpenTypes, SchemaInOrder, SchemaAt, LockHeld, SeedsKept, RowOutlivesEvents, At
  <2> QED  BY <2>1, <2>2
<1> QED  BY <1>1, <1>2, PTL DEF OpenSpec

(* Open, migrate: whichever releases start, crash and start again, in any    *)
(* order, a process that has the store open finds every table of its schema, *)
(* and no migration is pending that was applied.                             *)
THEOREM SchemaTheorem == OpenSpec => []SchemaIsWhole
<1>1. OpenInv => SchemaIsWhole
  <2> SUFFICES ASSUME OpenInv, NEW r \in Releases
               PROVE  /\ Pending(r, world.db) \cap world.db.applied = {}
                      /\ At(r) \in {"opened", "seeded", "serving"} => 1 .. Release[r].schema \subseteq world.db.applied
    BY DEF SchemaIsWhole, Releases
  <2>1. PICK c \in Nat : SchemaAt(c)  BY DEF OpenInv, SchemaInOrder
  <2>2. Current(world.db) = c  BY <2>1, CurrentIsLast DEF SchemaAt
  <2> QED  BY <2>1, <2>2, ReleaseAssumption DEF SchemaAt, Pending, Releases
<1> QED  BY <1>1, OpenInvHolds, PTL

(* SeedSources, retireOrphanedSources, DeleteSource: a stored event always has*)
(* the row of its source, whatever the releases that follow one another declare*)
(* and retire.                                                               *)
THEOREM RowsTheorem == OpenSpec => []RowOutlivesEvents
<1>1. OpenInv => RowOutlivesEvents  BY DEF OpenInv
<1> QED  BY <1>1, OpenInvHolds, PTL

(* gridSourceSeeds, SeedSources: the kinds a serving process reads are those it*)
(* declares.                                                                 *)
THEOREM KindsTheorem == OpenSpec => []KindsAreTold
<1>1. OpenInv => KindsAreTold  BY DEF OpenInv, SeedsKept, KindsAreTold, Releases
<1> QED  BY <1>1, OpenInvHolds, PTL

-----------------------------------------------------------------------------
(***************************************************************************)
(* What the rules of a place's summary promise for every configuration of  *)
(* layers and sources, every set of stored events and every health: an outage*)
(* never makes a place look calmer, and a place whose evacuation state is  *)
(* unknown is never QUIET.                                                 *)
(***************************************************************************)
HealthStatus == Status \cup {"UNSPECIFIED"}

Rows == [UNION {LayerSources[l] : l \in DOMAIN LayerSources} -> HealthStatus]

\* The mode's inputs got no calmer: more evacuations, higher severities, less known.
NoCalmer(in, out) ==
    /\ in.evacLevels \subseteq out.evacLevels
    /\ in.evacUnavailable => out.evacUnavailable
    /\ in.maxActive <= out.maxActive
    /\ in.maxWildfire <= out.maxWildfire
    /\ in.fireWeather = out.fireWeather
    /\ in.anyUnavailable => out.anyUnavailable

-----------------------------------------------------------------------------

\* A row reads as one of the three statuses.
LEMMA RowReadsAsStatus ==
    ASSUME NEW row \in HealthStatus
    PROVE  RowStatus(row) \in Status
BY DEF HealthStatus, RowStatus, Status

\* The order of the statuses.
LEMMA RankOfStatus ==
    /\ StatusRank("OK") = 0 /\ StatusRank("STALE") = 1 /\ StatusRank("UNAVAILABLE") = 2
BY DEF StatusRank

\* LayerSourceStatus answers a status.
LEMMA LayerStatusType ==
    ASSUME NEW rows, NEW layer
    PROVE  LayerSourceStatus(rows, layer) \in Status
BY DEF LayerSourceStatus, Status

\* LayerSourceStatus is UNAVAILABLE exactly when every source of the layer is down.
LEMMA AllDown ==
    ASSUME NEW rows, NEW layer \in DOMAIN LayerSources
    PROVE  LayerSourceStatus(rows, layer) = "UNAVAILABLE"
              <=> \A s \in LayerSources[layer] : RowStatus(rows[s]) = "UNAVAILABLE"
<1> DEFINE now == {RowStatus(rows[s]) : s \in LayerSources[layer]}
<1>1. PICK s0 \in LayerSources[layer] : TRUE
  BY EveryLayerHasASource
<1>2. RowStatus(rows[s0]) \in now
  OBVIOUS
<1>3. LayerSourceStatus(rows, layer) = "UNAVAILABLE" <=> now = {"UNAVAILABLE"}
  BY DEF LayerSourceStatus
<1>4. now = {"UNAVAILABLE"} <=> \A s \in LayerSources[layer] : RowStatus(rows[s]) = "UNAVAILABLE"
  BY <1>2
<1> QED BY <1>3, <1>4

\* A layer that is served as UNAVAILABLE stays so when the health gets worse:
\* LayerSourceStatus and DegradeStoreStatus look at the worst, never the latest.
LEMMA UnavailableStays ==
    ASSUME NEW events, NEW rows \in Rows, NEW worse \in Rows, NEW layer \in DOMAIN LayerSources,
           \A s \in UNION {LayerSources[l] : l \in DOMAIN LayerSources} :
              StatusRank(RowStatus(rows[s])) <= StatusRank(RowStatus(worse[s])),
           EventLayerStatus(events, rows, layer) = "UNAVAILABLE"
    PROVE  EventLayerStatus(events, worse, layer) = "UNAVAILABLE"
<1>1. LayerSourceStatus(rows, layer) = "UNAVAILABLE" /\ OfLayer(events, layer) = {}
  BY DEF EventLayerStatus, DegradeStoreStatus
<1>2. ASSUME NEW s \in LayerSources[layer]
      PROVE  RowStatus(worse[s]) = "UNAVAILABLE"
  <2>1. RowStatus(rows[s]) = "UNAVAILABLE"
    BY <1>1, AllDown
  <2>2. s \in UNION {LayerSources[l] : l \in DOMAIN LayerSources}
    OBVIOUS
  <2>3. StatusRank(RowStatus(worse[s])) >= 2 /\ RowStatus(worse[s]) \in Status
    <3>1. worse[s] \in HealthStatus
      BY <2>2 DEF Rows
    <3>2. RowStatus(worse[s]) \in Status
      BY <3>1, RowReadsAsStatus
    <3>3. StatusRank(RowStatus(rows[s])) = 2
      BY <2>1, RankOfStatus
    <3>4. StatusRank(RowStatus(worse[s])) \in Int
      BY <3>2, RankOfStatus DEF Status
    <3> QED BY <2>2, <3>2, <3>3, <3>4
  <2> QED BY <2>3, RankOfStatus DEF Status
<1>3. LayerSourceStatus(worse, layer) = "UNAVAILABLE"
  BY <1>2, AllDown
<1> QED BY <1>1, <1>3 DEF EventLayerStatus, DegradeStoreStatus

\* The highest severity of some events is a severity, and none of theirs is higher.
LEMMA MaxSeverityType ==
    ASSUME NEW es, \A e \in es : e.severity \in Rank
    PROVE  MaxSeverity(es) \in Rank /\ \A e \in es : e.severity <= MaxSeverity(es)
<1> DEFINE S == {e.severity : e \in es}
<1>1. CASE es = {}
  BY <1>1 DEF MaxSeverity, INFO, Rank
<1>2. CASE es # {}
  <2>1. S \subseteq Rank /\ S # {}
    BY <1>2
  <2>2. \E m \in S : \A x \in S : x <= m
    <3> HIDE DEF S
    <3>1. CASE 4 \in S
      BY <2>1, <3>1 DEF Rank
    <3>2. CASE 4 \notin S /\ 3 \in S
      BY <2>1, <3>2 DEF Rank
    <3>3. CASE 4 \notin S /\ 3 \notin S /\ 2 \in S
      BY <2>1, <3>3 DEF Rank
    <3>4. CASE 4 \notin S /\ 3 \notin S /\ 2 \notin S /\ 1 \in S
      BY <2>1, <3>4 DEF Rank
    <3>5. CASE 4 \notin S /\ 3 \notin S /\ 2 \notin S /\ 1 \notin S
      <4>1. \A x \in S : x = 0
        BY <2>1, <3>5 DEF Rank
      <4>2. PICK m \in S : TRUE
        BY <2>1
      <4> QED BY <4>1, <4>2
    <3> QED BY <3>1, <3>2, <3>3, <3>4, <3>5
  <2>3. \E m \in S : \A e \in es : e.severity <= m
    BY <2>2
  <2>4. MaxSeverity(es) \in S /\ \A e \in es : e.severity <= MaxSeverity(es)
    BY <1>2, <2>3 DEF MaxSeverity
  <2> QED BY <2>1, <2>4
<1> QED BY <1>1, <1>2

\* ComputeMode is monotone: inputs that are no calmer give a mode that is no calmer.
THEOREM ModeIsMonotone ==
    ASSUME NEW in, NEW out, NoCalmer(in, out),
           in.maxActive \in Int, out.maxActive \in Int,
           in.maxWildfire \in Int, out.maxWildfire \in Int
    PROVE  ModeRank(ComputeMode(in)) <= ModeRank(ComputeMode(out))
<1>1. IsActive(in) => IsActive(out)
  <2>1. CASE in.evacLevels \ {"ADVISORY"} # {}
    BY <2>1 DEF NoCalmer, IsActive
  <2>2. CASE in.maxActive >= EXTREME
    BY <2>2 DEF NoCalmer, IsActive, EXTREME
  <2>3. CASE in.maxWildfire >= SEVERE
    BY <2>3 DEF NoCalmer, IsActive, SEVERE
  <2> QED BY <2>1, <2>2, <2>3 DEF IsActive
<1>2. IsWatch(in) => IsWatch(out)
  <2>1. CASE in.maxActive >= SEVERE
    BY <2>1 DEF NoCalmer, IsWatch, SEVERE
  <2>2. CASE "ADVISORY" \in in.evacLevels
    BY <2>2 DEF NoCalmer, IsWatch
  <2>3. CASE in.fireWeather \in {"elevated", "red-flag"}
    BY <2>3 DEF NoCalmer, IsWatch
  <2>4. CASE in.evacUnavailable
    BY <2>4 DEF NoCalmer, IsWatch
  <2>5. CASE in.anyUnavailable /\ in.maxActive >= MODERATE
    <3>1. out.anyUnavailable
      BY <2>5 DEF NoCalmer
    <3>2. out.maxActive >= MODERATE
      BY <2>5 DEF NoCalmer, MODERATE
    <3> QED BY <3>1, <3>2 DEF IsWatch
  <2> QED BY <2>1, <2>2, <2>3, <2>4, <2>5 DEF IsWatch
<1>3. /\ ModeRank("QUIET") = 0 /\ ModeRank("WATCH") = 1 /\ ModeRank("ACTIVE") = 2
  BY DEF ModeRank
<1>4. CASE IsActive(in)
  BY <1>1, <1>3, <1>4 DEF ComputeMode
<1>5. CASE ~IsActive(in) /\ IsWatch(in)
  BY <1>2, <1>3, <1>5 DEF ComputeMode
<1>6. CASE ~IsActive(in) /\ ~IsWatch(in)
  BY <1>3, <1>6 DEF ComputeMode
<1> QED BY <1>4, <1>5, <1>6

\* A feed that goes down never makes a place look calmer: with the same events
\* stored, health rows that are worse give a mode that is no calmer
\* (buildPlaceSummary, LayerSourceStatus and DegradeStoreStatus together).
THEOREM OutageNeverCalms ==
    ASSUME NEW events, NEW cond, NEW rows \in Rows, NEW worse \in Rows,
           \A s \in UNION {LayerSources[l] : l \in DOMAIN LayerSources} :
              StatusRank(RowStatus(rows[s])) <= StatusRank(RowStatus(worse[s])),
           \A e \in events : e.severity \in Rank
    PROVE  ModeRank(ComputeMode(ModeInputs(events, rows, cond)))
             <= ModeRank(ComputeMode(ModeInputs(events, worse, cond)))
<1> DEFINE in == ModeInputs(events, rows, cond)
           out == ModeInputs(events, worse, cond)
<1>1. in.evacUnavailable => out.evacUnavailable
  <2>1. SUFFICES ASSUME EventLayerStatus(events, rows, "evacuation") = "UNAVAILABLE"
                 PROVE  EventLayerStatus(events, worse, "evacuation") = "UNAVAILABLE"
    BY DEF ModeInputs
  <2> QED BY <2>1, UnavailableStays, EvacuationIsALayer
<1>2. in.anyUnavailable => out.anyUnavailable
  <2>1. ASSUME NEW l \in DOMAIN LayerSources \ {"burn_status"},
               EventLayerStatus(events, rows, l) = "UNAVAILABLE"
        PROVE  EventLayerStatus(events, worse, l) = "UNAVAILABLE"
    BY <2>1, UnavailableStays
  <2> QED BY <2>1 DEF ModeInputs
<1>3. /\ in.evacLevels = out.evacLevels /\ in.fireWeather = out.fireWeather
      /\ in.maxActive = out.maxActive /\ in.maxWildfire = out.maxWildfire
  BY DEF ModeInputs
<1>4. in.maxActive \in Int /\ in.maxWildfire \in Int
  <2> DEFINE active == {e \in events : IsHazard(e) /\ e.status = "ACTIVE"}
  <2>1. MaxSeverity(active) \in Rank
    BY MaxSeverityType
  <2>2. MaxSeverity(OfLayer(active, "wildfire")) \in Rank
    BY MaxSeverityType DEF OfLayer
  <2>3. in.maxActive = MaxSeverity(active) /\ in.maxWildfire = MaxSeverity(OfLayer(active, "wildfire"))
    BY DEF ModeInputs
  <2> HIDE DEF in, active
  <2> QED BY <2>1, <2>2, <2>3 DEF Rank
<1>5. NoCalmer(in, out)
  <2> HIDE DEF in, out
  <2> QED BY <1>1, <1>2, <1>3, <1>4 DEF NoCalmer
<1> HIDE DEF in, out
<1>6. ModeRank(ComputeMode(in)) <= ModeRank(ComputeMode(out))
  BY <1>3, <1>4, <1>5, ModeIsMonotone
<1> QED BY <1>6 DEF in, out

\* Unknown is never quiet: when every source of the evacuation layer is down,
\* the mode is WATCH at least, whether nothing is stored (the state is unknown)
\* or zones are (their levels speak); evacuation events are always ACTIVE.
THEOREM UnknownIsNeverQuiet ==
    ASSUME NEW events, NEW rows, NEW cond,
           \A s \in LayerSources["evacuation"] : RowStatus(rows[s]) = "UNAVAILABLE",
           \A e \in events : e.layer = "evacuation" => e.status = "ACTIVE"
    PROVE  ComputeMode(ModeInputs(events, rows, cond)) # "QUIET"
<1> DEFINE in == ModeInputs(events, rows, cond)
           active == {e \in events : IsHazard(e) /\ e.status = "ACTIVE"}
<1>1. LayerSourceStatus(rows, "evacuation") = "UNAVAILABLE"
  BY AllDown, EvacuationIsALayer
<1>2. CASE OfLayer(events, "evacuation") = {}
  <2>1. in.evacUnavailable
    BY <1>1, <1>2 DEF ModeInputs, EventLayerStatus, DegradeStoreStatus
  <2>2. IsWatch(in)
    BY <2>1 DEF IsWatch
  <2> HIDE DEF in
  <2>3. ComputeMode(in) # "QUIET"
    BY <2>2 DEF ComputeMode
  <2> QED BY <2>3 DEF in
<1>3. CASE OfLayer(events, "evacuation") # {}
  <2>1. PICK e \in events : e.layer = "evacuation"
    BY <1>3 DEF OfLayer
  <2>2. IsHazard(e)
    BY <2>1 DEF IsHazard, PlannedRoadwork
  <2>3. e \in OfLayer(active, "evacuation")
    BY <2>1, <2>2 DEF OfLayer
  <2>4. e.level \in in.evacLevels
    BY <2>3 DEF ModeInputs
  <2> HIDE DEF in
  <2>5. IsActive(in) \/ IsWatch(in)
    BY <2>4 DEF IsActive, IsWatch
  <2>6. ComputeMode(in) # "QUIET"
    BY <2>5 DEF ComputeMode
  <2> QED BY <2>6 DEF in
<1> QED BY <1>2, <1>3

(***************************************************************************)
(* The pages of a summary.  The order of the store is total on what is     *)
(* stored at once, so each event has a place of its own among those that   *)
(* are left.                                                               *)
(***************************************************************************)
OneVersion(es) == es \subseteq AllVersions /\ \A a, b \in es : a.id = b.id => a = b

LEMMA BeforeIsOrder ==
    /\ \A a \in AllVersions : ~Before(a, a)
    /\ \A a, b, c \in AllVersions : Before(a, b) /\ Before(b, c) => Before(a, c)
    /\ \A a, b \in AllVersions : a.id # b.id => Before(a, b) \/ Before(b, a)
<1>1. \A e \in AllVersions : e.severity \in Int /\ e.observed \in Int /\ e.rank \in Int
  BY SummaryAssumption DEF Rank
<1>2. \A a, b \in AllVersions : a.id # b.id => a.rank # b.rank  BY SummaryAssumption
<1> QED  BY <1>1, <1>2 DEF Before

LEMMA PlacesInOrder ==
    ASSUME NEW es, OneVersion(es)
    PROVE  /\ IsFiniteSet(es) /\ Cardinality(es) \in Nat
           /\ \A e \in es : Ahead(es, e) \in 0 .. Cardinality(es) - 1
           /\ \A a, b \in es : Before(a, b) => Ahead(es, a) < Ahead(es, b)
           /\ \A a, b \in es : Ahead(es, a) = Ahead(es, b) => a = b
<1>1. IsFiniteSet(es)  BY SummaryAssumption, FS_Subset DEF OneVersion
<1>2. \A T \in SUBSET es : IsFiniteSet(T) /\ Cardinality(T) \in Nat  BY <1>1, FS_Subset, FS_CardinalityType
<1>3. ASSUME NEW S \in SUBSET es, NEW T \in SUBSET S, S # T PROVE Cardinality(T) < Cardinality(S)
  <2>1. IsFiniteSet(S) /\ Cardinality(S) \in Nat /\ T \in SUBSET es  BY <1>2
  <2>2. Cardinality(T) \in Nat  BY <1>2, <2>1
  <2>3. Cardinality(T) <= Cardinality(S) /\ (Cardinality(S) = Cardinality(T) => S = T)  BY <2>1, FS_Subset
  <2> QED  BY <1>3, <2>1, <2>2, <2>3
<1>4. ASSUME NEW e \in es PROVE Ahead(es, e) \in 0 .. Cardinality(es) - 1
  <2> DEFINE T == {x \in es : Before(x, e)}
  <2>1. T \in SUBSET es /\ e \notin T  BY BeforeIsOrder DEF OneVersion
  <2> HIDE DEF T
  <2>2. Cardinality(T) < Cardinality(es)  BY <1>3, <2>1
  <2>3. Cardinality(T) \in Nat /\ Cardinality(es) \in Nat  BY <1>2, <2>1
  <2>4. Ahead(es, e) = Cardinality(T)  BY DEF Ahead, T
  <2> QED  BY <2>2, <2>3, <2>4
<1>5. ASSUME NEW a \in es, NEW b \in es, Before(a, b) PROVE Ahead(es, a) < Ahead(es, b)
  <2> DEFINE S == {x \in es : Before(x, b)}
             T == {x \in es : Before(x, a)}
  <2>1. S \in SUBSET es  OBVIOUS
  <2>2. T \in SUBSET S
    <3>1. ASSUME NEW x \in es, Before(x, a) PROVE Before(x, b)  BY <1>5, <3>1, BeforeIsOrder DEF OneVersion
    <3> QED  BY <3>1
  <2>3. a \in S /\ a \notin T  BY <1>5, BeforeIsOrder DEF OneVersion
  <2> HIDE DEF S, T
  <2>4. Cardinality(T) < Cardinality(S)  BY <1>3, <2>1, <2>2, <2>3
  <2> QED  BY <2>4 DEF Ahead, S, T
<1>6. ASSUME NEW a \in es, NEW b \in es, Ahead(es, a) = Ahead(es, b), a # b PROVE FALSE
  <2>1. Before(a, b) \/ Before(b, a)  BY <1>6, BeforeIsOrder DEF OneVersion
  <2>2. Ahead(es, a) \in Int /\ Ahead(es, b) \in Int  BY <1>4
  <2> QED  BY <1>5, <1>6, <2>1, <2>2
<1> QED  BY <1>1, <1>2, <1>4, <1>5, <1>6

\* Every place is taken.
LEMMA EveryPlaceTaken ==
    ASSUME NEW es, OneVersion(es), NEW k \in 0 .. Cardinality(es) - 1
    PROVE  \E e \in es : Ahead(es, e) = k
<1> SUFFICES ASSUME \A e \in es : Ahead(es, e) # k PROVE FALSE  OBVIOUS
<1> DEFINE n == Cardinality(es)
           T == (0 .. n - 1) \ {k}
           f == [e \in es |-> Ahead(es, e)]
<1>1. IsFiniteSet(es) /\ n \in Nat  BY PlacesInOrder
<1>2. f \in [es -> T]  BY PlacesInOrder
<1>3. IsFiniteSet(0 .. n - 1) /\ Cardinality(0 .. n - 1) = n
  <2>1. n - 1 \in Int /\ 0 \in Int  BY <1>1
  <2> HIDE DEF n
  <2> QED  BY <1>1, <2>1, FS_Interval
<1>4. IsFiniteSet(T) /\ Cardinality(T) = n - 1
  <2>1. k \in 0 .. n - 1  OBVIOUS
  <2> HIDE DEF n
  <2> QED  BY <1>3, <2>1, FS_RemoveElement
<1>5. Cardinality(T) < Cardinality(es)
  <2> HIDE DEF T
  <2> QED  BY <1>1, <1>4
<1>6. PICK x, y \in es : x # y /\ f[x] = f[y]
  <2> HIDE DEF f, T, n
  <2> QED  BY <1>1, <1>2, <1>4, <1>5, FS_PigeonHole
<1> QED  BY <1>6, PlacesInOrder

\* Whether an event is on the pages, and no version of it a second time.
Once(s, e) == \E i \in DOMAIN s : s[i] = e /\ \A j \in DOMAIN s : s[j].id = e.id => j = i
UnreadYet(s, e) == \A j \in DOMAIN s : s[j].id # e.id

LEMMA Appended ==
    ASSUME NEW S, NEW s \in Seq(S), NEW t \in Seq(S), NEW e
    PROVE  /\ UnreadYet(s, e) /\ UnreadYet(t, e) => UnreadYet(s \o t, e)
           /\ Once(s, e) /\ UnreadYet(t, e) => Once(s \o t, e)
           /\ UnreadYet(s, e) /\ Once(t, e) => Once(s \o t, e)
<1> DEFINE u == s \o t
<1>1. u \in Seq(S) /\ Len(u) = Len(s) + Len(t) /\ Len(s) \in Nat /\ Len(t) \in Nat  OBVIOUS
<1>2. DOMAIN s = 1 .. Len(s) /\ DOMAIN t = 1 .. Len(t) /\ DOMAIN u = 1 .. (Len(s) + Len(t))  BY <1>1
<1>3. \A i \in DOMAIN s : i \in DOMAIN u /\ u[i] = s[i]  BY <1>1, <1>2
<1>4. \A i \in DOMAIN t : Len(s) + i \in DOMAIN u /\ u[Len(s) + i] = t[i]  BY <1>1, <1>2
<1>5. \A i \in DOMAIN u : i \in DOMAIN s \/ \E j \in DOMAIN t : i = Len(s) + j
  <2>1. ASSUME NEW i \in DOMAIN u, i \notin DOMAIN s PROVE i - Len(s) \in DOMAIN t /\ i = Len(s) + (i - Len(s))
    BY <1>1, <1>2, <2>1
  <2> QED  BY <2>1
<1> HIDE DEF u
<1>6. UnreadYet(s, e) /\ UnreadYet(t, e) => UnreadYet(u, e)  BY <1>3, <1>4, <1>5 DEF UnreadYet
<1>7. ASSUME Once(s, e), UnreadYet(t, e) PROVE Once(u, e)
  <2>1. PICK i \in DOMAIN s : s[i] = e /\ \A j \in DOMAIN s : s[j].id = e.id => j = i  BY <1>7 DEF Once
  <2>2. \A j \in DOMAIN u : u[j].id = e.id => j = i  BY <1>3, <1>4, <1>5, <1>7, <2>1 DEF UnreadYet
  <2> QED  BY <1>3, <2>1, <2>2 DEF Once
<1>8. ASSUME UnreadYet(s, e), Once(t, e) PROVE Once(u, e)
  <2>1. PICK i \in DOMAIN t : t[i] = e /\ \A j \in DOMAIN t : t[j].id = e.id => j = i  BY <1>8 DEF Once
  <2>2. \A j \in DOMAIN u : u[j].id = e.id => j = Len(s) + i  BY <1>3, <1>4, <1>5, <1>8, <2>1 DEF UnreadYet
  <2> QED  BY <1>4, <2>1, <2>2 DEF Once
<1> QED  BY <1>6, <1>7, <1>8 DEF u

\* A page holds the first of what is left, each once, and nothing else.
LEMMA PageOf ==
    ASSUME NEW layers, NEW cursor, OneVersion(live)
    PROVE  LET left == {e \in Live(layers) : Beyond(cursor, e)}
               q == QueryEvents(layers, cursor)
           IN /\ q.page \in Seq(left) /\ q.more \in BOOLEAN
              /\ \A e \in live : e \notin left => UnreadYet(q.page, e)
              /\ ~q.more => \A e \in left : Once(q.page, e)
              /\ q.more => /\ q.page # <<>>
                           /\ \A e \in left : \/ Once(q.page, e) /\ ~Before(q.page[Len(q.page)], e)
                                              \/ UnreadYet(q.page, e) /\ Before(q.page[Len(q.page)], e)
<1> DEFINE left == {e \in Live(layers) : Beyond(cursor, e)}
           q == QueryEvents(layers, cursor)
           n == Cardinality(left)
           size == IF n < ReadPageSize THEN n ELSE ReadPageSize
<1>1. left \subseteq live /\ OneVersion(left)  BY DEF Live, OneVersion
<1>2. q = [page |-> [i \in 1 .. size |-> CHOOSE e \in left : Ahead(left, e) = i - 1], more |-> n > ReadPageSize]
  BY DEF QueryEvents
<1> HIDE DEF left, q
<1>3. n \in Nat /\ ReadPageSize \in Nat \ {0}  BY <1>1, PlacesInOrder, SummaryAssumption
<1>4. size \in Nat /\ size <= n /\ size <= ReadPageSize  BY <1>3
<1>5. q.page = [i \in 1 .. size |-> CHOOSE e \in left : Ahead(left, e) = i - 1] /\ (q.more <=> n > ReadPageSize) /\ q.more \in BOOLEAN
  <2> DEFINE pg == [i \in 1 .. size |-> CHOOSE e \in left : Ahead(left, e) = i - 1]
             mr == n > ReadPageSize
  <2>1. q = [page |-> pg, more |-> mr] /\ mr \in BOOLEAN  BY <1>2
  <2> HIDE DEF pg, mr
  <2>2. q.page = pg /\ q.more = mr  BY <2>1
  <2> QED  BY <2>1, <2>2 DEF pg, mr
<1>6. ASSUME NEW i \in 1 .. size PROVE q.page[i] \in left /\ Ahead(left, q.page[i]) = i - 1
  <2>1. i - 1 \in 0 .. n - 1  BY <1>3, <1>4
  <2>2. \E e \in left : Ahead(left, e) = i - 1  BY <1>1, <2>1, EveryPlaceTaken
  <2>3. q.page[i] = CHOOSE e \in left : Ahead(left, e) = i - 1  BY <1>5
  <2> QED  BY <2>2, <2>3
<1>7. DOMAIN q.page = 1 .. size  BY <1>5
<1>8. q.page \in Seq(left) /\ Len(q.page) = size
  <2>1. q.page \in [1 .. size -> left]  BY <1>5, <1>6, <1>7
  <2> HIDE DEF size
  <2> QED  BY <1>4, <2>1
<1>9. ASSUME NEW e \in live, e \notin left PROVE UnreadYet(q.page, e)
  <2>1. ASSUME NEW j \in DOMAIN q.page, q.page[j].id = e.id PROVE FALSE
    <3>1. q.page[j] \in left  BY <1>6, <1>7
    <3>2. q.page[j] = e  BY <1>1, <2>1, <3>1 DEF OneVersion
    <3> QED  BY <1>9, <3>1, <3>2
  <2> QED  BY <2>1 DEF UnreadYet
<1>10. ASSUME NEW e \in left, NEW i \in DOMAIN q.page, q.page[i].id = e.id PROVE Ahead(left, e) = i - 1
  <2>1. q.page[i] = e  BY <1>1, <1>6, <1>7, <1>10 DEF OneVersion
  <2> QED  BY <1>6, <1>7, <2>1
<1>11. \A e \in left : Ahead(left, e) \in 0 .. n - 1  BY <1>1, PlacesInOrder
<1>12. ASSUME NEW e \in left, Ahead(left, e) < size PROVE Once(q.page, e)
  <2>1. PICK k \in Nat : k = Ahead(left, e)  BY <1>3, <1>11
  <2>2. k + 1 \in 1 .. size  BY <1>4, <1>12, <2>1
  <2>3. q.page[k + 1] \in left /\ Ahead(left, q.page[k + 1]) = k  BY <1>6, <2>2
  <2>4. q.page[k + 1] = e  BY <1>1, <2>1, <2>3, PlacesInOrder
  <2>5. \A j \in DOMAIN q.page : q.page[j].id = e.id => j = k + 1  BY <1>7, <1>10, <2>1
  <2> QED  BY <1>7, <2>2, <2>4, <2>5 DEF Once
<1>13. ASSUME NEW e \in left, ~(Ahead(left, e) < size) PROVE UnreadYet(q.page, e)
  <2>1. \A j \in DOMAIN q.page : q.page[j].id = e.id => FALSE  BY <1>4, <1>7, <1>10, <1>11, <1>13
  <2> QED  BY <2>1 DEF UnreadYet
<1>14. ~q.more => \A e \in left : Once(q.page, e)
  <2>1. SUFFICES ASSUME ~q.more, NEW e \in left PROVE Ahead(left, e) < size  BY <1>12
  <2>2. size = n  BY <1>3, <1>5, <2>1
  <2> QED  BY <1>3, <1>11, <2>1, <2>2
<1>15. ASSUME q.more PROVE /\ q.page # <<>>
                           /\ \A e \in left : \/ Once(q.page, e) /\ ~Before(q.page[Len(q.page)], e)
                                              \/ UnreadYet(q.page, e) /\ Before(q.page[Len(q.page)], e)
  <2>1. size = ReadPageSize /\ size \in 1 .. size  BY <1>3, <1>5, <1>15
  <2>2. PICK last \in left : last = q.page[Len(q.page)] /\ Ahead(left, last) = size - 1  BY <1>6, <1>8, <2>1
  <2>3. q.page # <<>>  BY <1>3, <1>8, <2>1
  <2>4. ASSUME NEW e \in left, Ahead(left, e) < size PROVE ~Before(last, e)
    <3>1. Before(last, e) => Ahead(left, last) < Ahead(left, e)  BY <1>1, PlacesInOrder
    <3> QED  BY <1>3, <1>4, <1>11, <2>2, <2>4, <3>1
  <2>5. ASSUME NEW e \in left, ~(Ahead(left, e) < size) PROVE Before(last, e)
    <3>1. Before(e, last) => Ahead(left, e) < Ahead(left, last)  BY <1>1, PlacesInOrder
    <3>2. ~Before(e, last) /\ e # last  BY <1>3, <1>4, <1>11, <2>2, <2>5, <3>1
    <3>3. e.id # last.id /\ e \in AllVersions /\ last \in AllVersions  BY <1>1, <3>2 DEF OneVersion
    <3> QED  BY <3>2, <3>3, BeforeIsOrder
  <2> QED  BY <1>12, <1>13, <2>2, <2>3, <2>4, <2>5
<1> QED  BY <1>5, <1>8, <1>9, <1>14, <1>15 DEF left, q

-----------------------------------------------------------------------------
(***************************************************************************)
(* A request between its queries: what it has read of the events that stood*)
(* since it began.                                                         *)
(***************************************************************************)
SummaryTick ==
    [at : {"idle", "upsert", "sweep", "health", "failed"}, todo : SUBSET EventVersion, polled : SUBSET EventVersion]
SummaryReader ==
    [kind : {"summary", "map"}, layers : SUBSET (DOMAIN LayerSources \cup {"evacuation", "wildfire"}),
     at : {"events", "sources", "answer"}, got : Seq(AllVersions), cursor : {<<>>} \cup {<<e>> : e \in AllVersions},
     rows : {<<>>} \cup [AllSources -> HealthStatus], steady : SUBSET AllVersions, confirmed : BOOLEAN]
SummaryWorld ==
    [rows : [AllSources -> [status : HealthStatus, missed : Nat]], tick : [PolledSource -> SummaryTick],
     reader : {NoRequest} \cup SummaryReader, reads : Nat, polls : Nat]

\* An event that stood is either still to come or was read once.
ReadOrToCome(r, e) ==
    \/ UnreadYet(r.got, e) /\ Beyond(r.cursor, e)
    \/ Once(r.got, e) /\ ~Beyond(r.cursor, e)

RequestKeepsUp(r, stored) ==
    /\ r.steady \subseteq stored
    /\ \A e \in r.steady : e.layer \in r.layers
    /\ r.at = "events" => \A e \in r.steady : ReadOrToCome(r, e)
    /\ r.at # "events" => \A e \in r.steady : Once(r.got, e)
    /\ r.at = "answer" => r.rows \in [AllSources -> HealthStatus]

SummaryInv ==
    /\ part = "summary" /\ world \in SummaryWorld
    /\ OneVersion(live)
    /\ world.reader # NoRequest => world.reader \in SummaryReader /\ RequestKeepsUp(world.reader, live)
    /\ DrainIsComplete /\ QuietIsBacked

\* The answer that was given last, and none while a request runs.
LEMMA AnswerStays ==
    ASSUME SummaryInv, result' = result \/ result' = NoRequest, part' = part
    PROVE  DrainIsComplete' /\ QuietIsBacked'
BY DEF SummaryInv, DrainIsComplete, QuietIsBacked, SummaryAnswer

LEMMA SummaryInitInv == part = "summary" /\ SummaryInit => SummaryInv
<1> SUFFICES ASSUME part = "summary", SummaryInit PROVE SummaryInv  OBVIOUS
<1>1. PICK es \in SUBSET EventVersion : (\A a, b \in es : a.id = b.id => a = b) /\ live = StandingEvent \cup es
  BY DEF SummaryInit
<1>2. OneVersion(live)  BY <1>1, SummaryAssumption DEF OneVersion, AllVersions
<1>3. PICK status \in [PolledSource -> HealthStatus] :
        world = [rows |-> [s \in AllSources |->
                            IF s \notin PolledSource THEN [status |-> "OK", missed |-> 0]
                            ELSE [status |-> status[s], missed |-> IF status[s] = "OK" THEN 0 ELSE StalePolls]],
                 tick |-> [s \in PolledSource |-> [at |-> "idle", todo |-> {}, polled |-> {}]],
                 reader |-> NoRequest, reads |-> 0, polls |-> 0]
  BY DEF SummaryInit, HealthStatus
<1> DEFINE row(s) == IF s \notin PolledSource THEN [status |-> "OK", missed |-> 0]
                     ELSE [status |-> status[s], missed |-> IF status[s] = "OK" THEN 0 ELSE StalePolls]
           rows == [s \in AllSources |-> row(s)]
           tick == [s \in PolledSource |-> [at |-> "idle", todo |-> {}, polled |-> {}]]
<1>4. ASSUME NEW s \in AllSources PROVE row(s) \in [status : HealthStatus, missed : Nat]
  BY SummaryAssumption DEF HealthStatus, Status
<1>5. rows \in [AllSources -> [status : HealthStatus, missed : Nat]]
  <2> HIDE DEF row
  <2> QED  BY <1>4
<1>6. tick \in [PolledSource -> SummaryTick]  BY DEF SummaryTick
<1>7. world = [rows |-> rows, tick |-> tick, reader |-> NoRequest, reads |-> 0, polls |-> 0]  BY <1>3
<1> HIDE DEF rows, tick
<1>8. world \in SummaryWorld /\ world.reader = NoRequest  BY <1>5, <1>6, <1>7 DEF SummaryWorld
<1>9. result = NoRequest  BY DEF SummaryInit
<1> QED  BY <1>2, <1>8, <1>9 DEF SummaryInv, DrainIsComplete, QuietIsBacked, SummaryAnswer

\* A write of a poller takes what it changes off what stood.
LEMMA SummaryWrite ==
    ASSUME SummaryInv, NEW w \in SummaryWorld, w.reader = world.reader, NEW events, OneVersion(events),
           SetWorld(w, events)
    PROVE  SummaryInv'
<1>1. live' = events /\ part' = part /\ result' = result /\ world' = [w EXCEPT !.reader = Watching(w.reader, w.rows, events)]
  BY DEF SetWorld
<1>2. DrainIsComplete' /\ QuietIsBacked'  BY <1>1, AnswerStays
<1>3. CASE w.reader = NoRequest
  <2>1. Watching(w.reader, w.rows, events) = NoRequest  BY <1>3 DEF Watching
  <2>2. world' = [w EXCEPT !.reader = NoRequest]  BY <1>1, <2>1
  <2>3. world' \in SummaryWorld /\ world'.reader = NoRequest  BY <2>2 DEF SummaryWorld
  <2> QED  BY <1>1, <1>2, <2>3 DEF SummaryInv
<1>4. CASE w.reader # NoRequest
  <2>1. PICK r \in SummaryReader : r = world.reader /\ RequestKeepsUp(r, live)  BY <1>4 DEF SummaryInv
  <2>2. PICK c : c = (r.confirmed \/ ConfirmedNone(w.rows, events))  OBVIOUS
  <2>3. c \in BOOLEAN  BY <2>2
  <2>4. PICK r2 : r2 = [r EXCEPT !.steady = r.steady \cap events, !.confirmed = c]  OBVIOUS
  <2>5. Watching(w.reader, w.rows, events) = r2  BY <1>4, <2>1, <2>2, <2>4 DEF Watching
  <2>6. r2 \in SummaryReader  BY <2>3, <2>4 DEF SummaryReader
  <2>7. /\ r2.steady = r.steady \cap events /\ r2.layers = r.layers /\ r2.at = r.at /\ r2.got = r.got
        /\ r2.cursor = r.cursor /\ r2.rows = r.rows
    BY <2>4 DEF SummaryReader
  <2>8. RequestKeepsUp(r2, events)  BY <2>1, <2>7 DEF RequestKeepsUp, ReadOrToCome
  <2>9. world' = [w EXCEPT !.reader = r2]  BY <1>1, <2>5
  <2>10. world' \in SummaryWorld /\ world'.reader = r2  BY <2>6, <2>9 DEF SummaryWorld
  <2> QED  BY <1>1, <1>2, <2>6, <2>8, <2>10 DEF SummaryInv
<1> QED  BY <1>3, <1>4

LEMMA PollSourceStep ==
    ASSUME SummaryInv, NEW s \in PolledSource, PollSource(s)
    PROVE  SummaryInv'
<1>1. world \in SummaryWorld /\ OneVersion(live)  BY DEF SummaryInv
<1>2. ASSUME NEW t \in SummaryTick, SetWorld([world EXCEPT !.polls = @ + 1, !.tick[s] = t], live) PROVE SummaryInv'
  <2>1. PICK n \in Nat : n = world.polls + 1  BY <1>1 DEF SummaryWorld
  <2>2. PICK ts : ts = [world.tick EXCEPT ![s] = t]  OBVIOUS
  <2>3. ts \in [PolledSource -> SummaryTick]  BY <1>1, <2>2 DEF SummaryWorld
  <2>4. PICK w : w = [world EXCEPT !.polls = n, !.tick = ts]  OBVIOUS
  <2>5. w = [world EXCEPT !.polls = @ + 1, !.tick[s] = t]  BY <1>1, <2>1, <2>2, <2>4 DEF SummaryWorld
  <2>6. w \in SummaryWorld /\ w.reader = world.reader  BY <1>1, <2>3, <2>4 DEF SummaryWorld
  <2> QED  BY <1>1, <1>2, <2>5, <2>6, SummaryWrite
<1>3. ASSUME NEW es \in SUBSET EventVersion PROVE [at |-> "upsert", todo |-> es, polled |-> es] \in SummaryTick
  BY DEF SummaryTick
<1>4. [at |-> "failed", todo |-> {}, polled |-> {}] \in SummaryTick  BY DEF SummaryTick
<1>5. \A es \in SUBSET {v \in EventVersion : v.source = s} : es \in SUBSET EventVersion  OBVIOUS
<1>6. CASE SetWorld([world EXCEPT !.polls = @ + 1, !.tick[s] = [at |-> "failed", todo |-> {}, polled |-> {}]], live)
  BY <1>2, <1>4, <1>6
<1>7. ASSUME NEW es \in SUBSET {v \in EventVersion : v.source = s},
             SetWorld([world EXCEPT !.polls = @ + 1, !.tick[s] = [at |-> "upsert", todo |-> es, polled |-> es]], live)
      PROVE  SummaryInv'
  BY <1>2, <1>3, <1>5, <1>7
<1> QED  BY <1>6, <1>7 DEF PollSource

\* A tick that goes on, with the events it leaves.
LEMMA TickGoesOn ==
    ASSUME SummaryInv, NEW s \in PolledSource, NEW t \in SummaryTick, NEW events, OneVersion(events), NEW w,
           w = [world EXCEPT !.tick = [world.tick EXCEPT ![s] = t]], SetWorld(w, events)
    PROVE  SummaryInv'
<1>1. world \in SummaryWorld  BY DEF SummaryInv
<1>2. PICK ts : ts = [world.tick EXCEPT ![s] = t]  OBVIOUS
<1>3. ts \in [PolledSource -> SummaryTick]  BY <1>1, <1>2 DEF SummaryWorld
<1>4. w = [world EXCEPT !.tick = ts]  BY <1>2
<1>5. w \in SummaryWorld /\ w.reader = world.reader  BY <1>1, <1>3, <1>4 DEF SummaryWorld
<1> QED  BY <1>5, SummaryWrite

LEMMA UpsertNextStep ==
    ASSUME SummaryInv, NEW s \in PolledSource, UpsertNext(s)
    PROVE  SummaryInv'
<1>1. world \in SummaryWorld /\ OneVersion(live)  BY DEF SummaryInv
<1>2. PICK t \in SummaryTick : t = world.tick[s]  BY <1>1 DEF SummaryWorld
<1>3. t.todo \subseteq EventVersion  BY <1>2 DEF SummaryTick
<1>4. CASE SetWorld([world EXCEPT !.tick[s].at = "sweep", !.tick[s].todo = {}], live)
  <2>1. PICK t2 : t2 = [t EXCEPT !.at = "sweep", !.todo = {}]  OBVIOUS
  <2>2. t2 \in SummaryTick  BY <2>1 DEF SummaryTick
  <2>3. [world EXCEPT !.tick[s].at = "sweep", !.tick[s].todo = {}] = [world EXCEPT !.tick = [world.tick EXCEPT ![s] = t2]]
    BY <1>1, <1>2, <2>1 DEF SummaryWorld, SummaryTick
  <2> QED  BY <1>1, <1>4, <2>2, <2>3, TickGoesOn
<1>5. ASSUME NEW e \in t.todo \ live,
             SetWorld([world EXCEPT !.tick[s].todo = (t.todo \ live) \ {e}], {x \in live : x.id # e.id} \cup {e})
      PROVE  SummaryInv'
  <2>1. PICK t2 : t2 = [t EXCEPT !.todo = (t.todo \ live) \ {e}]  OBVIOUS
  <2>2. t2 \in SummaryTick  BY <1>3, <2>1 DEF SummaryTick
  <2>3. [world EXCEPT !.tick[s].todo = (t.todo \ live) \ {e}] = [world EXCEPT !.tick = [world.tick EXCEPT ![s] = t2]]
    BY <1>1, <1>2, <2>1 DEF SummaryWorld, SummaryTick
  <2>4. OneVersion({x \in live : x.id # e.id} \cup {e})  BY <1>1, <1>3 DEF OneVersion, AllVersions
  <2> QED  BY <1>5, <2>2, <2>3, <2>4, TickGoesOn
<1> QED  BY <1>2, <1>4, <1>5 DEF UpsertNext

LEMMA SweepSummaryStep ==
    ASSUME SummaryInv, NEW s \in PolledSource, Sweep(s)
    PROVE  SummaryInv'
<1>1. world \in SummaryWorld /\ OneVersion(live)  BY DEF SummaryInv
<1>2. PICK t \in SummaryTick : t = world.tick[s]  BY <1>1 DEF SummaryWorld
<1>3. CASE SetWorld([world EXCEPT !.tick[s].at = "health"], live)
  <2>1. PICK t2 : t2 = [t EXCEPT !.at = "health"]  OBVIOUS
  <2>2. t2 \in SummaryTick  BY <2>1 DEF SummaryTick
  <2>3. [world EXCEPT !.tick[s].at = "health"] = [world EXCEPT !.tick = [world.tick EXCEPT ![s] = t2]]
    BY <1>1, <1>2, <2>1 DEF SummaryWorld, SummaryTick
  <2> QED  BY <1>1, <1>3, <2>2, <2>3, TickGoesOn
<1>4. ASSUME NEW e, SetWorld(world, live \ {e}) PROVE SummaryInv'
  <2>1. OneVersion(live \ {e})  BY <1>1 DEF OneVersion
  <2> QED  BY <1>1, <1>4, <2>1, SummaryWrite
<1> QED  BY <1>3, <1>4 DEF Sweep

LEMMA HealthSummaryStep ==
    ASSUME SummaryInv, NEW s \in PolledSource, RecordHealth(s)
    PROVE  SummaryInv'
<1>1. world \in SummaryWorld /\ OneVersion(live) /\ s \in AllSources  BY SummaryAssumption DEF SummaryInv
<1>2. PICK row \in [status : HealthStatus, missed : Nat] : row = world.rows[s]  BY <1>1 DEF SummaryWorld
<1>3. PICK ok : ok = (world.tick[s].at = "health")  OBVIOUS
<1>4. PICK row2 : row2 = RecordAttempt(row, ok)  OBVIOUS
<1>5. row2 \in [status : HealthStatus, missed : Nat]
  <2>1. row.missed + 1 \in Nat /\ row.missed \in Nat  BY <1>2
  <2>2. [row EXCEPT !.status = "UNAVAILABLE"] \in [status : HealthStatus, missed : Nat]  BY <1>2 DEF HealthStatus, Status
  <2> QED  BY <1>4, <2>1, <2>2 DEF RecordAttempt, HealthStatus, Status
<1> DEFINE fresh == [at |-> "idle", todo |-> {}, polled |-> {}]
<1>6. fresh \in SummaryTick  BY DEF SummaryTick
<1>7. SetWorld([world EXCEPT !.tick[s] = fresh, !.rows[s] = RecordAttempt(@, world.tick[s].at = "health")], live)
  BY DEF RecordHealth
<1> HIDE DEF fresh
<1>8. PICK ts : ts = [world.tick EXCEPT ![s] = fresh]  OBVIOUS
<1>9. PICK rs : rs = [world.rows EXCEPT ![s] = row2]  OBVIOUS
<1>10. ts \in [PolledSource -> SummaryTick]  BY <1>1, <1>6, <1>8 DEF SummaryWorld
<1>11. rs \in [AllSources -> [status : HealthStatus, missed : Nat]]  BY <1>1, <1>5, <1>9 DEF SummaryWorld
<1>12. PICK w : w = [world EXCEPT !.tick = ts, !.rows = rs]  OBVIOUS
<1>13. w \in SummaryWorld /\ w.reader = world.reader  BY <1>1, <1>10, <1>11, <1>12 DEF SummaryWorld
<1>14. w = [world EXCEPT !.tick[s] = fresh, !.rows[s] = RecordAttempt(@, world.tick[s].at = "health")]
  BY <1>1, <1>2, <1>3, <1>4, <1>8, <1>9, <1>12 DEF SummaryWorld
<1> QED  BY <1>1, <1>7, <1>13, <1>14, SummaryWrite

LEMMA BeginReadStep ==
    ASSUME SummaryInv, NEW kind \in {"summary", "map"},
           NEW layers \in SUBSET (DOMAIN LayerSources \cup {"evacuation", "wildfire"}), BeginRead(kind, layers)
    PROVE  SummaryInv'
<1>1. world \in SummaryWorld /\ OneVersion(live)  BY DEF SummaryInv
<1>2. PICK c : c = ConfirmedNone(world.rows, live)  OBVIOUS
<1>3. c \in BOOLEAN  BY <1>2 DEF ConfirmedNone
<1>4. PICK r : r = [kind |-> kind, layers |-> layers, at |-> "events", got |-> <<>>, cursor |-> <<>>,
                    rows |-> <<>>, steady |-> Live(layers), confirmed |-> c]
  OBVIOUS
<1>5. PICK n \in Nat : n = world.reads + 1  BY <1>1 DEF SummaryWorld
<1>6. world' = [world EXCEPT !.reads = n, !.reader = r] /\ part' = part /\ live' = live /\ result' = NoRequest
  BY <1>2, <1>4, <1>5 DEF BeginRead
<1>7. Live(layers) \subseteq live /\ \A e \in Live(layers) : e.layer \in layers  BY DEF Live
<1>8. r \in SummaryReader  BY <1>1, <1>3, <1>4, <1>7 DEF SummaryReader, OneVersion
<1>9. RequestKeepsUp(r, live)
  <2>1. r.at = "events" /\ r.got = <<>> /\ r.cursor = <<>> /\ r.steady = Live(layers) /\ r.layers = layers  BY <1>4
  <2>2. \A e : UnreadYet(<<>>, e) /\ Beyond(<<>>, e)  BY DEF UnreadYet, Beyond
  <2> QED  BY <1>7, <2>1, <2>2 DEF RequestKeepsUp, ReadOrToCome
<1>10. world' \in SummaryWorld /\ world'.reader = r  BY <1>1, <1>6, <1>8 DEF SummaryWorld
<1>11. DrainIsComplete' /\ QuietIsBacked'  BY <1>6, AnswerStays
<1> QED  BY <1>1, <1>6, <1>8, <1>9, <1>10, <1>11 DEF SummaryInv

\* A request that goes on.
LEMMA RequestGoesOn ==
    ASSUME SummaryInv, NEW r \in SummaryReader, RequestKeepsUp(r, live), world' = [world EXCEPT !.reader = r],
           UNCHANGED <<part, live, result>>
    PROVE  SummaryInv'
<1>1. world' \in SummaryWorld /\ world'.reader = r  BY DEF SummaryInv, SummaryWorld
<1>2. DrainIsComplete' /\ QuietIsBacked'  BY AnswerStays
<1> QED  BY <1>1, <1>2 DEF SummaryInv

LEMMA ReadPageStep == ASSUME SummaryInv, ReadPage PROVE SummaryInv'
<1>1. world \in SummaryWorld /\ OneVersion(live)  BY DEF SummaryInv
<1>2. PICK r \in SummaryReader : r = world.reader /\ RequestKeepsUp(r, live) /\ r.at = "events"
  BY DEF ReadPage, SummaryInv
<1> DEFINE left == {e \in Live(r.layers) : Beyond(r.cursor, e)}
           last(p) == p[Len(p)]
<1>3. PICK q : q = QueryEvents(r.layers, r.cursor)  OBVIOUS
<1>4. /\ q.page \in Seq(left) /\ q.more \in BOOLEAN
      /\ \A e \in live : e \notin left => UnreadYet(q.page, e)
      /\ ~q.more => \A e \in left : Once(q.page, e)
      /\ q.more => /\ q.page # <<>>
                   /\ \A e \in left : \/ Once(q.page, e) /\ ~Before(last(q.page), e)
                                      \/ UnreadYet(q.page, e) /\ Before(last(q.page), e)
  BY <1>1, <1>3, PageOf
<1>5. left \subseteq live /\ left \subseteq AllVersions /\ live \subseteq AllVersions  BY <1>1 DEF Live, OneVersion
<1>6. \A e \in live : e.layer \in r.layers => e \in Live(r.layers)  BY DEF Live
<1>7. \A e \in live : e.layer \in r.layers /\ Beyond(r.cursor, e) => e \in left  BY <1>6
<1>8. \A e \in left : Beyond(r.cursor, e)  OBVIOUS
<1> HIDE DEF left
<1>9. PICK g : g = r.got \o q.page  OBVIOUS
<1>10. PICK c : c = IF q.more THEN <<last(q.page)>> ELSE <<>>  OBVIOUS
<1>11. PICK a : a = IF q.more THEN "events" ELSE "sources"  OBVIOUS
<1>12. PICK r2 : r2 = [r EXCEPT !.got = g, !.cursor = c, !.at = a]  OBVIOUS
<1>13. world' = [world EXCEPT !.reader = r2] /\ UNCHANGED <<part, live, result>>
  <2>1. /\ world' = [world EXCEPT !.reader.got = @ \o q.page,
                                 !.reader.cursor = IF q.more THEN <<last(q.page)>> ELSE <<>>,
                                 !.reader.at = IF q.more THEN "events" ELSE "sources"]
        /\ UNCHANGED <<part, live, result>>
    BY <1>2, <1>3 DEF ReadPage
  <2>2. world' = [world EXCEPT !.reader.got = g, !.reader.cursor = c, !.reader.at = a]
    BY <1>2, <1>9, <1>10, <1>11, <2>1
  <2> QED  BY <1>1, <1>2, <1>12, <2>1, <2>2 DEF SummaryWorld, SummaryReader
<1>14. r.got \in Seq(AllVersions) /\ q.page \in Seq(AllVersions)
  <2>1. q.page \in Seq(left) /\ left \subseteq AllVersions  BY <1>4, <1>5
  <2> QED  BY <2>1 DEF SummaryReader
<1>15. q.more => last(q.page) \in left
  <2>1. q.more => q.page # <<>> /\ q.page \in Seq(left)  BY <1>4
  <2> QED  BY <2>1
<1>16. g \in Seq(AllVersions)  BY <1>9, <1>14
<1>17. c \in {<<>>} \cup {<<e>> : e \in AllVersions}  BY <1>5, <1>10, <1>15
<1>18. r2 \in SummaryReader  BY <1>11, <1>12, <1>16, <1>17 DEF SummaryReader
<1>19. r2.got = g /\ r2.cursor = c /\ r2.at = a /\ r2.steady = r.steady /\ r2.layers = r.layers
  BY <1>12 DEF SummaryReader
<1>20. r.steady \subseteq live /\ \A e \in r.steady : e.layer \in r.layers /\ ReadOrToCome(r, e)
  BY <1>2 DEF RequestKeepsUp
<1>21. ASSUME NEW e \in r.steady PROVE
          /\ q.more => ReadOrToCome(r2, e)
          /\ ~q.more => Once(g, e)
  <2>1. e \in live /\ e \in AllVersions  BY <1>5, <1>20
  <2>2. CASE UnreadYet(r.got, e) /\ Beyond(r.cursor, e)
    <3>1. e \in left  BY <1>7, <1>20, <2>1, <2>2
    <3>2. ~q.more => Once(g, e)  BY <1>4, <1>9, <1>14, <2>2, <3>1, Appended
    <3>3. ASSUME q.more PROVE ReadOrToCome(r2, e)
      <4>1. c = <<last(q.page)>> /\ c # <<>> /\ c[1] = last(q.page)  BY <1>10, <3>3
      <4>2. \/ Once(q.page, e) /\ ~Before(last(q.page), e)
            \/ UnreadYet(q.page, e) /\ Before(last(q.page), e)
        BY <1>4, <3>1, <3>3
      <4>3. \/ Once(g, e) /\ ~Beyond(c, e)
            \/ UnreadYet(g, e) /\ Beyond(c, e)
        BY <1>9, <1>14, <2>2, <4>1, <4>2, Appended DEF Beyond
      <4> QED  BY <1>19, <4>3 DEF ReadOrToCome
    <3> QED  BY <3>2, <3>3
  <2>3. CASE Once(r.got, e) /\ ~Beyond(r.cursor, e)
    <3>1. e \notin left  BY <1>8, <2>3
    <3>2. Once(g, e)  BY <1>4, <1>9, <1>14, <2>1, <2>3, <3>1, Appended
    <3>3. ASSUME q.more PROVE ~Beyond(c, e)
      <4>1. c = <<last(q.page)>> /\ c # <<>> /\ c[1] = last(q.page)  BY <1>10, <3>3
      <4>2. r.cursor # <<>> /\ ~Before(r.cursor[1], e)  BY <2>3 DEF Beyond
      <4>3. PICK o \in AllVersions : r.cursor = <<o>>  BY <4>2 DEF SummaryReader
      <4>4. PICK l \in left : l = last(q.page)  BY <1>15, <3>3
      <4>5. Before(o, l) /\ ~Before(o, e)  BY <1>8, <4>2, <4>3, <4>4 DEF Beyond
      <4>6. ~Before(l, e)  BY <1>5, <2>1, <4>4, <4>5, BeforeIsOrder
      <4> QED  BY <4>1, <4>4, <4>6 DEF Beyond
    <3> QED  BY <1>19, <3>2, <3>3 DEF ReadOrToCome
  <2> QED  BY <1>20, <2>2, <2>3 DEF ReadOrToCome
<1>22. RequestKeepsUp(r2, live)
  <2>1. (a = "events" <=> q.more) /\ a # "answer"  BY <1>11
  <2> QED  BY <1>4, <1>19, <1>20, <1>21, <2>1 DEF RequestKeepsUp
<1> QED  BY <1>13, <1>18, <1>22, RequestGoesOn

LEMMA ReadSourcesStep == ASSUME SummaryInv, ReadSources PROVE SummaryInv'
<1>1. world \in SummaryWorld  BY DEF SummaryInv
<1>2. PICK r \in SummaryReader : r = world.reader /\ RequestKeepsUp(r, live) /\ r.at = "sources"
  BY DEF ReadSources, SummaryInv
<1>3. PICK rows : rows = [s \in DOMAIN world.rows |-> world.rows[s].status]  OBVIOUS
<1>4. rows \in [AllSources -> HealthStatus]  BY <1>1, <1>3 DEF SummaryWorld
<1>5. PICK r2 : r2 = [r EXCEPT !.at = "answer", !.rows = rows]  OBVIOUS
<1>6. world' = [world EXCEPT !.reader = r2] /\ UNCHANGED <<part, live, result>>
  <2>1. world' = [world EXCEPT !.reader.at = "answer", !.reader.rows = rows] /\ UNCHANGED <<part, live, result>>
    BY <1>3 DEF ReadSources
  <2> QED  BY <1>1, <1>2, <1>5, <2>1 DEF SummaryWorld, SummaryReader
<1>7. r2 \in SummaryReader  BY <1>4, <1>5 DEF SummaryReader
<1>8. r2.got = r.got /\ r2.at = "answer" /\ r2.steady = r.steady /\ r2.layers = r.layers /\ r2.rows = rows
  BY <1>5 DEF SummaryReader
<1>9. RequestKeepsUp(r2, live)  BY <1>2, <1>4, <1>8 DEF RequestKeepsUp
<1> QED  BY <1>6, <1>7, <1>9, RequestGoesOn

\* What a mode of QUIET says of the events and the rows it was made of.
LEMMA QuietMode ==
    ASSUME NEW events \in SUBSET AllVersions, NEW rows \in [AllSources -> HealthStatus], NEW cond,
           ComputeMode(ModeInputs(events, rows, cond)) = "QUIET"
    PROVE  /\ rows["caloes"] \in {"OK", "STALE"}
           /\ \A e \in events : e.status = "ACTIVE" => e.layer # "evacuation" /\ (e.severity < SEVERE \/ ~IsHazard(e))
<1> DEFINE active == {e \in events : IsHazard(e) /\ e.status = "ACTIVE"}
           levels == {e.level : e \in OfLayer(active, "evacuation")}
           in == ModeInputs(events, rows, cond)
<1>1. ~IsActive(in) /\ ~IsWatch(in)  BY DEF ComputeMode
<1>2. /\ in.evacLevels = levels /\ in.maxActive = MaxSeverity(active)
      /\ in.evacUnavailable = (EventLayerStatus(events, rows, "evacuation") = "UNAVAILABLE")
  BY DEF ModeInputs
<1> HIDE DEF in
<1>3. levels = {}  BY <1>1, <1>2 DEF IsActive, IsWatch
<1>4. MaxSeverity(active) \in Rank /\ (\A e \in active : e.severity <= MaxSeverity(active)) /\ \A e \in active : e.severity \in Rank
  BY MaxSeverityType, SummaryAssumption
<1>5. MaxSeverity(active) < SEVERE  BY <1>1, <1>2, <1>4 DEF IsWatch, SEVERE, Rank
<1>6. ASSUME NEW e \in events, e.layer = "evacuation", e.status = "ACTIVE" PROVE FALSE
  <2>1. IsHazard(e)  BY <1>6 DEF IsHazard, PlannedRoadwork
  <2>2. e \in OfLayer(active, "evacuation")  BY <1>6, <2>1 DEF OfLayer
  <2> QED  BY <1>3, <2>2
<1>7. ASSUME NEW e \in events, e.status = "ACTIVE", IsHazard(e) PROVE e.severity < SEVERE
  <2>1. e \in active  BY <1>7
  <2> QED  BY <1>4, <1>5, <2>1 DEF SEVERE, Rank
<1>8. rows["caloes"] \in {"OK", "STALE"}
  <2>1. OfLayer(events, "evacuation") = {}  BY <1>6, EvacuationAssumption DEF OfLayer
  <2>2. LayerSourceStatus(rows, "evacuation") # "UNAVAILABLE"
    BY <1>1, <1>2, <2>1 DEF IsWatch, EventLayerStatus, DegradeStoreStatus
  <2>3. RowStatus(rows["caloes"]) # "UNAVAILABLE"  BY <2>2, AllDown, EvacuationAssumption, EvacuationIsALayer
  <2>4. "caloes" \in AllSources  BY EvacuationAssumption, EvacuationIsALayer DEF AllSources
  <2>5. rows["caloes"] \in HealthStatus  BY <2>4
  <2> QED  BY <2>3, <2>5 DEF RowStatus, HealthStatus, Status
<1> QED  BY <1>6, <1>7, <1>8

LEMMA AnsweredStep ==
    ASSUME SummaryInv, NEW r, r = world.reader, r # NoRequest, r.at = "answer", NEW answer, AnsweredWith(answer),
           r.kind = "summary" => \E cond : answer.mode = ComputeMode(ModeInputs(ToSet(r.got), r.rows, cond))
    PROVE  SummaryInv'
<1>1. r \in SummaryReader /\ RequestKeepsUp(r, live) /\ world \in SummaryWorld  BY DEF SummaryInv
<1>2. /\ result' = [answer |-> answer, kind |-> r.kind, got |-> r.got, steady |-> r.steady, rows |-> r.rows,
                    confirmed |-> r.confirmed]
      /\ world' = [world EXCEPT !.reader = NoRequest] /\ part' = part /\ live' = live
  BY DEF AnsweredWith
<1>3. world' \in SummaryWorld /\ world'.reader = NoRequest  BY <1>1, <1>2 DEF SummaryWorld
<1>4. /\ result'.answer = answer /\ result'.kind = r.kind /\ result'.got = r.got /\ result'.steady = r.steady
      /\ result'.rows = r.rows
  BY <1>2
<1>5. \A e \in r.steady : Once(r.got, e)  BY <1>1 DEF RequestKeepsUp
<1>6. DrainIsComplete'
  <2>1. ASSUME NEW e \in r.steady PROVE Cardinality({i \in DOMAIN r.got : r.got[i].id = e.id}) = 1
    <3>1. PICK i \in DOMAIN r.got : r.got[i] = e /\ \A j \in DOMAIN r.got : r.got[j].id = e.id => j = i
      BY <1>5 DEF Once
    <3>2. {j \in DOMAIN r.got : r.got[j].id = e.id} = {i}  BY <3>1
    <3> QED  BY <3>2, FS_Singleton
  <2> QED  BY <1>4, <2>1 DEF DrainIsComplete
<1>7. QuietIsBacked'
  <2>1. SUFFICES ASSUME r.kind = "summary", answer.mode = "QUIET"
                 PROVE  /\ r.rows["caloes"] \in {"OK", "STALE"}
                        /\ \A e \in r.steady : e.status = "ACTIVE" =>
                              e.layer # "evacuation" /\ (e.severity < SEVERE \/ ~IsHazard(e))
    BY <1>4 DEF QuietIsBacked
  <2>2. PICK events : events = ToSet(r.got)  OBVIOUS
  <2>3. PICK cond : ComputeMode(ModeInputs(events, r.rows, cond)) = "QUIET"  BY <2>1, <2>2
  <2>4. events \in SUBSET AllVersions
    <3>1. r.got \in Seq(AllVersions)  BY <1>1 DEF SummaryReader
    <3>2. \A i \in DOMAIN r.got : r.got[i] \in AllVersions  BY <3>1
    <3> QED  BY <2>2, <3>2 DEF ToSet
  <2>5. r.steady \subseteq events  BY <1>5, <2>2 DEF Once, ToSet
  <2>6. r.rows \in [AllSources -> HealthStatus]  BY <1>1 DEF RequestKeepsUp
  <2> QED  BY <2>3, <2>4, <2>5, <2>6, QuietMode
<1> QED  BY <1>2, <1>3, <1>6, <1>7 DEF SummaryInv

LEMMA SummaryStep == SummaryInv /\ [SummaryNext]_feedVars => SummaryInv'
<1> SUFFICES ASSUME SummaryInv, [SummaryNext]_feedVars PROVE SummaryInv'  OBVIOUS
<1>1. ASSUME NEW s \in PolledSource, PollSource(s) \/ UpsertNext(s) \/ Sweep(s) \/ RecordHealth(s) PROVE SummaryInv'
  BY <1>1, PollSourceStep, UpsertNextStep, SweepSummaryStep, HealthSummaryStep
<1>2. CASE BeginSummary  BY <1>2, BeginReadStep DEF BeginSummary
<1>3. ASSUME NEW layer \in {"evacuation", "wildfire"}, BeginMapLayer(layer) PROVE SummaryInv'
  BY <1>3, BeginReadStep DEF BeginMapLayer
<1>4. CASE ReadPage  BY <1>4, ReadPageStep
<1>5. CASE ReadSources  BY <1>5, ReadSourcesStep
<1>6. ASSUME NEW cond \in Condition, AnswerSummary(cond) PROVE SummaryInv'
  <2>1. PICK r : r = world.reader  OBVIOUS
  <2>2. r # NoRequest /\ r.at = "answer"  BY <1>6, <2>1 DEF AnswerSummary
  <2>3. PICK answer : AnsweredWith(answer) /\ answer.mode = ComputeMode(ModeInputs(ToSet(r.got), r.rows, cond))
    BY <1>6, <2>1 DEF AnswerSummary
  <2> QED  BY <2>1, <2>2, <2>3, AnsweredStep
<1>7. CASE AnswerMapLayer
  <2>1. PICK r : r = world.reader  OBVIOUS
  <2>2. r # NoRequest /\ r.at = "answer" /\ r.kind = "map"  BY <1>7, <2>1 DEF AnswerMapLayer
  <2>3. PICK answer : AnsweredWith(answer)  BY <1>7 DEF AnswerMapLayer
  <2> QED  BY <2>1, <2>2, <2>3, AnsweredStep
<1>8. CASE UNCHANGED feedVars
  <2>1. part' = part /\ world' = world /\ live' = live /\ result' = result  BY <1>8 DEF feedVars
  <2>2. DrainIsComplete' /\ QuietIsBacked'  BY <2>1, AnswerStays
  <2> QED  BY <2>1, <2>2 DEF SummaryInv
<1> QED  BY <1>1, <1>2, <1>3, <1>4, <1>5, <1>6, <1>7, <1>8 DEF SummaryNext

LEMMA SummaryInvHolds == SummarySpec => []SummaryInv
BY SummaryInitInv, SummaryStep, PTL DEF SummarySpec

\* A summary of QUIET is backed by what its requests read, page by page and row by
\* row, beside any number of pollers that write between the queries
\* (buildPlaceSummary, ComputeMode).
THEOREM QuietTheorem == SummarySpec => []QuietIsBacked
<1>1. SummaryInv => QuietIsBacked  BY DEF SummaryInv
<1> QED  BY <1>1, SummaryInvHolds, PTL

\* Whatever is written between two pages, an event that stands unchanged is on
\* exactly one of them, for every size of a page (the keyset of QueryEvents).
THEOREM DrainTheorem == SummarySpec => []DrainIsComplete
<1>1. SummaryInv => DrainIsComplete  BY DEF SummaryInv
<1> QED  BY <1>1, SummaryInvHolds, PTL

(***************************************************************************)
(* The map of the mesh's links, for any keys, positions, region and        *)
(* number of changes between its queries.                                  *)
(***************************************************************************)
StoredNode == [key : MeshKey, at : LinkPosition \cup {Nowhere}, attached : BOOLEAN]
LinksWorld ==
    [links : SUBSET LinkPair, down : BOOLEAN, changes : Nat, phase : {"idle", "region", "links", "build"},
     all : SUBSET StoredNode, region : SUBSET MeshKey, read : SUBSET LinkPair, calm : BOOLEAN]
LinksTypes == part = "links" /\ world \in LinksWorld /\ live \subseteq StoredNode

\* What an undisturbed request has read is still what is stored.
ReadsAreCurrent ==
    world.calm =>
        /\ world.phase # "idle" => world.all = {n \in live : n.at # Nowhere}
        /\ world.phase \in {"links", "build"} => world.region = {n.key : n \in {m \in live : m.attached}}
        /\ world.phase = "build" => world.read = world.links

LinksInv == LinksTypes /\ ReadsAreCurrent /\ MeshMapIsWhole

LEMMA DisturbStep ==
    ASSUME LinksInv, NEW w \in LinksWorld, Disturb(w), live' \subseteq StoredNode
    PROVE  LinksInv'
<1>1. world' \in LinksWorld /\ ~world'.calm
  <2>1. world' = [w EXCEPT !.changes = w.changes + 1, !.calm = FALSE]  BY DEF Disturb
  <2>2. w.changes + 1 \in Nat  BY DEF LinksWorld
  <2>3. PICK n \in Nat : n = w.changes + 1  BY <2>2
  <2>4. world' = [w EXCEPT !.changes = n, !.calm = FALSE]  BY <2>1, <2>3
  <2> QED  BY <2>4 DEF LinksWorld
<1>2. part' = "links" /\ result' = NeverPolled  BY DEF LinksInv, LinksTypes, Disturb
<1>3. MeshMapIsWhole'  BY <1>2 DEF MeshMapIsWhole
<1> QED  BY <1>1, <1>2, <1>3 DEF LinksInv, LinksTypes, ReadsAreCurrent

LEMMA LinksChange ==
    ASSUME LinksInv,
           \/ \E k \in MeshKey : ExpireNode(k) \/ \E at \in LinkPosition, r \in BOOLEAN : StoreNode(k, at, r)
           \/ \E p \in LinkPair : TurnLink(p)
           \/ TurnSource
    PROVE  LinksInv'
<1>1. world \in LinksWorld /\ live \subseteq StoredNode  BY DEF LinksInv, LinksTypes
<1>2. ASSUME NEW k \in MeshKey, ExpireNode(k) PROVE LinksInv'
  <2>1. Disturb(world) /\ live' \subseteq StoredNode  BY <1>1, <1>2 DEF ExpireNode
  <2> QED  BY <1>1, <2>1, DisturbStep
<1>3. ASSUME NEW k \in MeshKey, NEW at \in LinkPosition, NEW r \in BOOLEAN, StoreNode(k, at, r) PROVE LinksInv'
  <2>1. (IF at = Nowhere THEN r ELSE InArea(at, MeshRegion)) \in BOOLEAN  BY DEF InArea
  <2>2. Disturb(world) /\ live' \subseteq StoredNode  BY <1>1, <1>3, <2>1 DEF StoreNode, StoredNode
  <2> QED  BY <1>1, <2>2, DisturbStep
<1>4. ASSUME NEW p \in LinkPair, TurnLink(p) PROVE LinksInv'
  <2> DEFINE w == [world EXCEPT !.links = IF p \in @ THEN @ \ {p} ELSE @ \cup {p}]
  <2>1. w \in LinksWorld  BY <1>1 DEF LinksWorld
  <2>2. Disturb(w) /\ live' = live  BY <1>4 DEF TurnLink
  <2> QED  BY <1>1, <2>1, <2>2, DisturbStep
<1>5. ASSUME TurnSource PROVE LinksInv'
  <2> DEFINE w == [world EXCEPT !.down = ~@]
  <2>1. w \in LinksWorld  BY <1>1 DEF LinksWorld
  <2>2. Disturb(w) /\ live' = live  BY <1>5 DEF TurnSource
  <2> QED  BY <1>1, <2>1, <2>2, DisturbStep
<1> QED  BY <1>2, <1>3, <1>4, <1>5

LEMMA LinksRead ==
    ASSUME LinksInv, ReadNodes \/ ReadRegion \/ ReadLinks
    PROVE  LinksInv'
<1>1. world \in LinksWorld /\ live \subseteq StoredNode /\ part = "links"  BY DEF LinksInv, LinksTypes
<1>2. part' = "links" /\ live' = live /\ result' = NeverPolled
  BY <1>1 DEF ReadNodes, ReadRegion, ReadLinks, Reads
<1>3. MeshMapIsWhole'  BY <1>2 DEF MeshMapIsWhole
<1>4. {n \in live : n.at # Nowhere} \subseteq StoredNode  BY <1>1
<1>5. {n.key : n \in {m \in live : m.attached}} \subseteq MeshKey  BY <1>1 DEF StoredNode
<1>6. CASE ReadNodes
  <2>1. world' = [world EXCEPT !.phase = "region", !.calm = TRUE, !.all = {n \in live : n.at # Nowhere}]
    BY <1>6 DEF ReadNodes, Reads
  <2>2. world' \in LinksWorld  BY <1>1, <1>4, <2>1 DEF LinksWorld
  <2>3. world'.phase = "region" /\ world'.all = {n \in live : n.at # Nowhere}  BY <1>1, <2>1 DEF LinksWorld
  <2> QED  BY <1>1, <1>2, <1>3, <2>2, <2>3 DEF LinksInv, LinksTypes, ReadsAreCurrent
<1>7. CASE ReadRegion
  <2>1. /\ world.phase = "region"
        /\ world' = [world EXCEPT !.phase = "links", !.region = {n.key : n \in {m \in live : m.attached}}]
    BY <1>7 DEF ReadRegion, Reads
  <2>2. world' \in LinksWorld  BY <1>1, <1>5, <2>1 DEF LinksWorld
  <2>3. /\ world'.phase = "links" /\ world'.all = world.all /\ world'.calm = world.calm
        /\ world'.region = {n.key : n \in {m \in live : m.attached}}
    BY <1>1, <2>1 DEF LinksWorld
  <2> QED  BY <1>1, <1>2, <1>3, <2>1, <2>2, <2>3 DEF LinksInv, LinksTypes, ReadsAreCurrent
<1>8. CASE ReadLinks
  <2>1. world.phase = "links" /\ world' = [world EXCEPT !.phase = "build", !.read = world.links]
    BY <1>8 DEF ReadLinks, Reads
  <2>2. world' \in LinksWorld  BY <1>1, <2>1 DEF LinksWorld
  <2>3. /\ world'.phase = "build" /\ world'.all = world.all /\ world'.calm = world.calm
        /\ world'.region = world.region /\ world'.read = world'.links
    BY <1>1, <2>1 DEF LinksWorld
  <2> QED  BY <1>1, <1>2, <1>3, <2>1, <2>2, <2>3 DEF LinksInv, LinksTypes, ReadsAreCurrent
<1> QED  BY <1>6, <1>7, <1>8

\* The answer, of whatever was read.
LEMMA MapServed ==
    ASSUME LinksInv, ServeMeshLinkLayer
    PROVE  LinksInv'
<1>1. world \in LinksWorld /\ live \subseteq StoredNode /\ part = "links"  BY DEF LinksInv, LinksTypes
<1>2. part' = "links" /\ live' = live  BY <1>1 DEF ServeMeshLinkLayer
<1>3. world' \in LinksWorld /\ world'.phase = "idle"
  BY <1>1 DEF ServeMeshLinkLayer, LinksWorld
<1> DEFINE ls == Lines
           ns == NodeSet
           r == result'
           drawn == {p.key : p \in r.points}
           inside == {p.key : p \in {q \in r.points : q.inRegion}}
           located == {n.key : n \in {m \in r.stored : m.at # Nowhere}}
           near == {n.key : n \in {m \in r.stored : m.attached}}
           whole == {p \in r.heard : p \subseteq located /\ p \cap near # {}}
<1>4. /\ r.lines = ls /\ r.points = {[key |-> k, inRegion |-> k \in world.region] : k \in ns}
      /\ r.status = LinkStatus(ls # {} \/ ns # {}) /\ r.down = world.down
      /\ r.calm = world.calm /\ r.stored = live /\ r.heard = world.links
  BY DEF ServeMeshLinkLayer
<1>5. drawn = ns /\ inside = ns \cap world.region
  <2> HIDE DEF ns, r
  <2>1. ASSUME NEW k PROVE k \in drawn <=> k \in ns
    <3>1. ASSUME k \in drawn PROVE k \in ns
      <4>1. PICK q \in r.points : q.key = k  BY <3>1
      <4>2. PICK x \in ns : q = [key |-> x, inRegion |-> x \in world.region]  BY <1>4, <4>1
      <4> QED  BY <4>1, <4>2
    <3>2. ASSUME k \in ns PROVE k \in drawn
      <4>1. PICK q : q = [key |-> k, inRegion |-> k \in world.region]  OBVIOUS
      <4>2. q \in r.points /\ q.key = k  BY <1>4, <3>2, <4>1
      <4> QED  BY <4>2
    <3> QED  BY <3>1, <3>2
  <2>2. ASSUME NEW k PROVE k \in inside <=> k \in ns /\ k \in world.region
    <3>1. ASSUME k \in inside PROVE k \in ns /\ k \in world.region
      <4>1. PICK q \in r.points : q.inRegion /\ q.key = k  BY <3>1
      <4>2. PICK x \in ns : q = [key |-> x, inRegion |-> x \in world.region]  BY <1>4, <4>1
      <4> QED  BY <4>1, <4>2
    <3>2. ASSUME k \in ns, k \in world.region PROVE k \in inside
      <4>1. PICK q : q = [key |-> k, inRegion |-> k \in world.region]  OBVIOUS
      <4>2. q \in r.points /\ q.key = k  BY <1>4, <3>2, <4>1
      <4>3. q.inRegion  BY <3>2, <4>1
      <4> QED  BY <4>2, <4>3
    <3> QED  BY <3>1, <3>2
  <2> QED  BY <2>1, <2>2
<1>6. \A p \in ls : p \subseteq ns /\ p \cap world.region # {}  BY DEF Lines, NodeSet
<1>7. \A p \in ls : p \subseteq drawn /\ p \cap inside # {}  BY <1>5, <1>6
<1>8. \A k \in drawn \ inside : \E p \in ls : k \in p
  <2>1. SUFFICES ASSUME NEW k \in ns, k \notin world.region PROVE \E p \in ls : k \in p  BY <1>5
  <2> QED  BY <2>1 DEF NodeSet
<1>9. r.down => r.status # "OK"  BY <1>4 DEF LinkStatus
<1>10. r.calm => r.lines = whole /\ drawn = (near \cap located) \cup UNION whole
  <2>1. SUFFICES ASSUME world.calm PROVE ls = whole /\ ns = (near \cap located) \cup UNION whole  BY <1>4, <1>5
  <2>2. world.phase = "build"  BY DEF ServeMeshLinkLayer
  <2>3. /\ world.all = {n \in live : n.at # Nowhere}
        /\ world.region = {n.key : n \in {m \in live : m.attached}} /\ world.read = world.links
    BY <2>1, <2>2 DEF LinksInv, ReadsAreCurrent
  <2>4. ByPub = located /\ world.region = near  BY <1>4, <2>3 DEF ByPub
  <2>5. ls = whole  BY <1>4, <2>3, <2>4 DEF Lines
  <2>6. ns = (near \cap located) \cup UNION ls  BY <2>4 DEF NodeSet
  <2> QED  BY <2>5, <2>6
<1>11. MeshMapIsWhole'  BY <1>4, <1>7, <1>8, <1>9, <1>10 DEF MeshMapIsWhole
<1> QED  BY <1>1, <1>2, <1>3, <1>11 DEF LinksInv, LinksTypes, ReadsAreCurrent

LEMMA LinksStep == LinksInv /\ [LinksNext]_feedVars => LinksInv'
<1> SUFFICES ASSUME LinksInv, [LinksNext]_feedVars PROVE LinksInv'  OBVIOUS
<1>1. CASE ServeMeshLinks
  <2>1. part' = part /\ world' = world /\ live' = live /\ result' = [links |-> world.links]
    BY <1>1 DEF ServeMeshLinks
  <2>2. "lines" \notin DOMAIN result'  BY <2>1
  <2>3. MeshMapIsWhole'  BY <2>2 DEF MeshMapIsWhole
  <2> QED  BY <2>1, <2>3 DEF LinksInv, LinksTypes, ReadsAreCurrent
<1>2. CASE UNCHANGED feedVars
  BY <1>2 DEF feedVars, LinksInv, LinksTypes, ReadsAreCurrent, MeshMapIsWhole
<1> QED  BY <1>1, <1>2, LinksChange, LinksRead, MapServed DEF LinksNext

\* The map of the mesh's links (serveMeshLinkLayer) is a graph of its own whatever
\* changes between its four queries, and the whole subgraph when nothing does,
\* for any nodes, positions and region.
THEOREM LinksTheorem == LinksSpec => []MeshMapIsWhole
<1>1. part = "links" /\ LinksInit => LinksInv
  BY DEF LinksInit, LinksInv, LinksTypes, LinksWorld, ReadsAreCurrent, MeshMapIsWhole
<1>2. LinksInv => MeshMapIsWhole  BY DEF LinksInv
<1> QED  BY <1>1, <1>2, LinksStep, PTL DEF LinksSpec

(***************************************************************************)
(* The directory of places, for any configurations, in any order, and      *)
(* however many boots are interrupted while they seed.                     *)
(***************************************************************************)
DirectoryWorld ==
    [at : {"off", "seeding", "serving"}, deploy : DOMAIN Deployment, deploys : Nat,
     todo : SUBSET UNION {Seeds(Deployment[d]) : d \in DOMAIN Deployment}]

\* A row is found under its id; the counties are those that are embedded.
RowsAreKeyed ==
    /\ \A p \in live : p.id = <<p.kind, p.slug>>
    /\ \A p \in live : p.kind = "COUNTY" => p \in CountyPlaces
    /\ \A p, q \in live : p.id = q.id => p = q

\* What the seed has got through is stored, and nothing else goes by its ids.
SeededSoFar ==
    world.at # "off" =>
        /\ SlugsUnique(Seeds(Config))
        /\ world.todo \subseteq Seeds(Config)
        /\ Seeds(Config) \ world.todo \subseteq live
        /\ world.at = "serving" => world.todo = {}

\* An answer is given by the process that serves.
AnsweredServing == result # NeverPolled => world.at = "serving"

DirectoryInv == part = "places" /\ world \in DirectoryWorld /\ RowsAreKeyed /\ SeededSoFar /\ AnsweredServing

LEMMA SeedsAreKeyed ==
    ASSUME NEW d, NEW p \in Seeds(d)
    PROVE  p.id = <<p.kind, p.slug>> /\ (p.kind = "COUNTY" => p \in CountyPlaces)
BY DEF Seeds, AreaPlaces, CountyPlaces, TownPlaces, CorridorPlaces, Row

\* The counties seeded are the same in every configuration.
LEMMA DirectoryInitInv == part = "places" /\ DirectoryInit => DirectoryInv
<1>1. (CHOOSE d \in DOMAIN Deployment : TRUE) \in DOMAIN Deployment  BY SomeDeployment
<1> QED  BY <1>1 DEF DirectoryInit, DirectoryInv, DirectoryWorld, RowsAreKeyed, SeededSoFar, AnsweredServing

LEMMA BootStep ==
    ASSUME DirectoryInv, NEW d \in DOMAIN Deployment, DeployRelease(d)
    PROVE  DirectoryInv'
<1> DEFINE rows == Seeds(Deployment[d])
           ok == SlugsUnique(rows)
<1>1. /\ world' = [at |-> IF ok THEN "seeding" ELSE "off", deploy |-> d, deploys |-> world.deploys + 1,
                   todo |-> IF ok THEN rows ELSE {}]
      /\ result' = NeverPolled /\ part' = part /\ live' = live
  BY DEF DeployRelease, Quiet
<1>2. world.deploys + 1 \in Nat  BY DEF DirectoryInv, DirectoryWorld
<1>3. rows \subseteq UNION {Seeds(Deployment[e]) : e \in DOMAIN Deployment}  OBVIOUS
<1>4. world' \in DirectoryWorld
  <2> HIDE DEF rows, ok
  <2> QED  BY <1>1, <1>2, <1>3 DEF DirectoryWorld
<1>5. RowsAreKeyed'  BY <1>1 DEF DirectoryInv, RowsAreKeyed
<1>6. SeededSoFar'
  <2>1. SUFFICES ASSUME world'.at # "off" PROVE SeededSoFar'  BY DEF SeededSoFar
  <2>2. ok /\ world'.todo = rows /\ world'.deploy = d /\ world'.at = "seeding"  BY <1>1, <2>1
  <2>3. Seeds(Config)' = rows  BY <2>2 DEF Config
  <2> QED  BY <2>2, <2>3 DEF SeededSoFar
<1> QED  BY <1>1, <1>4, <1>5, <1>6 DEF DirectoryInv, AnsweredServing

LEMMA UpsertPlaceStep ==
    ASSUME DirectoryInv, NEW p \in world.todo, UpsertPlace(p)
    PROVE  DirectoryInv'
<1>1. world \in DirectoryWorld /\ world.at = "seeding" /\ result' = NeverPolled /\ part' = part
  BY DEF UpsertPlace, Quiet, DirectoryInv
<1>2. CASE Taken(p)
  <2>1. world' = [world EXCEPT !.at = "off", !.todo = {}] /\ live' = live  BY <1>2 DEF UpsertPlace, Quiet
  <2>2. world' \in DirectoryWorld /\ world'.at = "off"  BY <1>1, <2>1 DEF DirectoryWorld
  <2> QED  BY <1>1, <2>1, <2>2 DEF DirectoryInv, RowsAreKeyed, SeededSoFar, AnsweredServing
<1>3. CASE ~Taken(p)
  <2>1. world' = [world EXCEPT !.todo = @ \ {p}] /\ live' = {q \in live : q.id # p.id} \cup {p}
    BY <1>3 DEF UpsertPlace, Quiet
  <2>2. world' \in DirectoryWorld  BY <1>1, <2>1 DEF DirectoryWorld
  <2>3. world'.at = "seeding" /\ world'.todo = world.todo \ {p} /\ world'.deploy = world.deploy
    BY <1>1, <2>1 DEF DirectoryWorld
  <2>4. /\ SlugsUnique(Seeds(Config)) /\ world.todo \subseteq Seeds(Config)
        /\ Seeds(Config) \ world.todo \subseteq live
    BY <1>1 DEF DirectoryInv, SeededSoFar
  <2>5. p \in Seeds(Config)  BY <2>4
  <2>6. p.id = <<p.kind, p.slug>> /\ (p.kind = "COUNTY" => p \in CountyPlaces)  BY <2>5, SeedsAreKeyed
  <2>7. RowsAreKeyed'  BY <2>1, <2>6 DEF DirectoryInv, RowsAreKeyed
  <2>8. Config' = Config  BY <2>3 DEF Config
  <2>9. ASSUME NEW q \in Seeds(Config), q \notin world.todo \ {p} PROVE q \in live'
    <3>1. CASE q = p  BY <2>1, <3>1
    <3>2. CASE q # p
      <4>1. q \in live  BY <2>4, <2>9, <3>2
      <4>2. q.id = <<q.kind, q.slug>>  BY SeedsAreKeyed
      <4>3. q.slug # p.slug  BY <2>4, <2>5, <3>2 DEF SlugsUnique
      <4>4. q.id # p.id  BY <2>6, <4>2, <4>3
      <4> QED  BY <2>1, <4>1, <4>4
    <3> QED  BY <3>1, <3>2
  <2>10. SeededSoFar'  BY <2>3, <2>4, <2>8, <2>9 DEF SeededSoFar
  <2> QED  BY <1>1, <2>2, <2>7, <2>10 DEF DirectoryInv, AnsweredServing
<1> QED  BY <1>2, <1>3

LEMMA ServingStep ==
    ASSUME DirectoryInv, SeedDone \/ Undeploy
    PROVE  DirectoryInv'
<1>1. world \in DirectoryWorld /\ result' = NeverPolled /\ part' = part /\ live' = live
  BY DEF SeedDone, Undeploy, Quiet, DirectoryInv
<1>2. RowsAreKeyed'  BY <1>1 DEF DirectoryInv, RowsAreKeyed
<1>3. CASE SeedDone
  <2>1. world.at = "seeding" /\ world.todo = {} /\ world' = [world EXCEPT !.at = "serving"]  BY <1>3 DEF SeedDone, Quiet
  <2>2. world' \in DirectoryWorld /\ world'.at = "serving" /\ world'.todo = {} /\ world'.deploy = world.deploy
    BY <1>1, <2>1 DEF DirectoryWorld
  <2>3. Config' = Config  BY <2>2 DEF Config
  <2> QED  BY <1>1, <1>2, <2>1, <2>2, <2>3 DEF DirectoryInv, SeededSoFar, AnsweredServing
<1>4. CASE Undeploy
  <2>1. world' = [world EXCEPT !.at = "off", !.todo = {}]  BY <1>4 DEF Undeploy, Quiet
  <2>2. world' \in DirectoryWorld /\ world'.at = "off"  BY <1>1, <2>1 DEF DirectoryWorld
  <2> QED  BY <1>1, <1>2, <2>2 DEF DirectoryInv, SeededSoFar, AnsweredServing
<1> QED  BY <1>3, <1>4

\* An answer changes nothing else.
LEMMA AnswerStep ==
    ASSUME DirectoryInv, NEW a, Answer(a)
    PROVE  DirectoryInv' /\ Config' = Config /\ live' = live /\ result' = a
BY DEF Answer, DirectoryInv, RowsAreKeyed, SeededSoFar, AnsweredServing, Config

LEMMA DirectoryStep == DirectoryInv /\ [DirectoryNext]_feedVars => DirectoryInv'
<1> SUFFICES ASSUME DirectoryInv, [DirectoryNext]_feedVars PROVE DirectoryInv'  OBVIOUS
<1>1. ASSUME NEW d \in DOMAIN Deployment, DeployRelease(d) PROVE DirectoryInv'  BY <1>1, BootStep
<1>2. ASSUME NEW p \in world.todo, UpsertPlace(p) PROVE DirectoryInv'  BY <1>2, UpsertPlaceStep
<1>3. CASE SeedDone \/ Undeploy  BY <1>3, ServingStep
<1>4. ASSUME \E a : Answer(a) PROVE DirectoryInv'  BY <1>4, AnswerStep
<1>5. ASSUME NEW p \in live, GetConditions(p) \/ PlaceIDsForCounty(p) \/ ListScanners(p) PROVE DirectoryInv'
  BY <1>4, <1>5 DEF GetConditions, PlaceIDsForCounty, ListScanners
<1>6. ASSUME NEW p \in live, NEW f, ServeFireWeather(p, f) PROVE DirectoryInv'
  BY <1>4, <1>6 DEF ServeFireWeather
<1>7. ASSUME NEW slug, GetPlace(slug) PROVE DirectoryInv'  BY <1>4, <1>7 DEF GetPlace
<1>8. ASSUME NEW at, ResolvePlace(at) PROVE DirectoryInv'  BY <1>4, <1>8 DEF ResolvePlace
<1>9. CASE UNCHANGED feedVars
  BY <1>9 DEF feedVars, DirectoryInv, RowsAreKeyed, SeededSoFar, AnsweredServing, Config
<1> QED  BY <1>1, <1>2, <1>3, <1>5, <1>6, <1>7, <1>8, <1>9 DEF DirectoryNext

LEMMA DirectoryInvHolds == DirectorySpec => []DirectoryInv
BY DirectoryInitInv, DirectoryStep, PTL DEF DirectorySpec

\* Rounding moves a position by no more than half a step.
LEMMA TrimIsNear ==
    ASSUME NEW x \in Int
    PROVE  Trim(x) \in Int /\ Trim(x) - x <= Precision \div 2 /\ x - Trim(x) <= Precision \div 2
<1>1. Precision \in Nat \ {0}  BY PositionsAssumption
<1>2. PICK h \in Nat : h = Precision \div 2 /\ 2 * h <= Precision /\ Precision <= 2 * h + 1  BY <1>1
<1>3. PICK y \in Int : y = x + h  BY <1>2
<1>4. PICK a \in Int : a = y \div Precision  BY <1>1
<1>5. PICK r \in Int : r = y % Precision  BY <1>1
<1>6. y = Precision * a + r /\ 0 <= r /\ r <= Precision - 1  BY <1>1, <1>4, <1>5
<1>7. PICK m \in Int : m = Precision * a  BY <1>1
<1>8. Trim(x) = m  BY <1>1, <1>2, <1>3, <1>4, <1>7 DEF Trim
<1> QED  BY <1>1, <1>2, <1>3, <1>6, <1>7, <1>8

\* Where an answer comes from.
LEMMA AnswerOrigin ==
    ASSUME DirectoryInv, [DirectoryNext]_feedVars, NEW kind, IsAnswer(kind)'
    PROVE  \/ UNCHANGED feedVars
           \/ kind = "county" /\ \E p \in live : PlaceIDsForCounty(p)
           \/ kind = "conditions" /\ \E p \in live : GetConditions(p)
           \/ kind = "fire" /\ \E p \in live : \/ \E f \in Product : ServeFireWeather(p, {f})
                                               \/ ServeFireWeather(p, {})
           \/ kind \in {"place", "scanners", "resolve"}
<1>1. result' # NeverPolled /\ result'.kind = kind  BY DEF IsAnswer
<1>2. ASSUME NEW d \in DOMAIN Deployment, DeployRelease(d) PROVE FALSE  BY <1>1, <1>2 DEF DeployRelease, Quiet
<1>3. ASSUME NEW p \in world.todo, UpsertPlace(p) PROVE FALSE  BY <1>1, <1>3 DEF UpsertPlace, Quiet
<1>4. ASSUME SeedDone \/ Undeploy PROVE FALSE  BY <1>1, <1>4 DEF SeedDone, Undeploy, Quiet
<1>5. ASSUME NEW p \in live, GetConditions(p) PROVE kind = "conditions"  BY <1>1, <1>5 DEF GetConditions, Answer
<1>6. ASSUME NEW p \in live, PlaceIDsForCounty(p) PROVE kind = "county"  BY <1>1, <1>6 DEF PlaceIDsForCounty, Answer
<1>7. ASSUME NEW p \in live, NEW f, ServeFireWeather(p, f) PROVE kind = "fire"  BY <1>1, <1>7 DEF ServeFireWeather, Answer
<1>8. ASSUME NEW p \in live, ListScanners(p) PROVE kind = "scanners"  BY <1>1, <1>8 DEF ListScanners, Answer
<1>9. ASSUME NEW slug, GetPlace(slug) PROVE kind = "place"  BY <1>1, <1>9 DEF GetPlace, Answer
<1>10. ASSUME NEW at, ResolvePlace(at) PROVE kind = "resolve"  BY <1>1, <1>10 DEF ResolvePlace, Answer
<1> QED  BY <1>2, <1>3, <1>4, <1>5, <1>6, <1>7, <1>8, <1>9, <1>10 DEF DirectoryNext

\* While a process serves, its towns and areas are in the directory, and alone under their ids.
LEMMA SeededRows ==
    ASSUME DirectoryInv, world.at = "serving", NEW p \in Seeds(Config)
    PROVE  p \in live /\ \A q \in live : q.id = p.id => q = p
BY DEF DirectoryInv, SeededSoFar, RowsAreKeyed

LEMMA CountyAnswer ==
    ASSUME DirectoryInv, NEW c \in live, PlaceIDsForCounty(c)
    PROVE  BurnReachesTheTown'
<1> DEFINE ids == {c.id} \cup {p.id : p \in {q \in live : q.id # c.id /\ OfCounty(c, q)}}
<1>1. world.at = "serving" /\ Config' = Config /\ result'.place = c /\ result'.ids = ids
  BY AnswerStep DEF PlaceIDsForCounty, Answer, Config
<1>2. c \in CountyPlaces /\ c.kind = "COUNTY" /\ c.id = <<c.kind, c.slug>>
  BY DEF PlaceIDsForCounty, DirectoryInv, RowsAreKeyed
<1>3. PICK s \in CountyShape : c = Row("COUNTY", s.slug, s.lo, s.hi, <<>>)  BY <1>2 DEF CountyPlaces
<1>4. c.lo = s.lo /\ c.hi = s.hi /\ c.slug = s.slug /\ c.id = <<"COUNTY", s.slug>>  BY <1>3 DEF Row
<1>5. s.lo \in Int /\ s.hi \in Int  BY PositionsAssumption
<1>6. world.deploy \in DOMAIN Deployment /\ Config = Deployment[world.deploy]
  BY DEF DirectoryInv, DirectoryWorld, Config
<1>7. ASSUME NEW p \in Seeds(Config), p.id # c.id PROVE p.id \in ids <=> OfCounty(c, p)
  <2>1. p \in live /\ \A q \in live : q.id = p.id => q = p  BY <1>1, SeededRows
  <2> QED  BY <1>7, <2>1
<1>8. ASSUME NEW t \in Config.towns PROVE <<"TOWN", t.id>> \in ids <=> c.lo <= t.at /\ t.at <= c.hi
  <2> DEFINE p == Row("TOWN", t.id, Trim(t.at), Trim(t.at), ContainingCounty(t.at))
             in == {b \in CountyShape : b.lo <= t.at /\ t.at <= b.hi}
  <2>1. p \in Seeds(Config)  BY DEF Seeds, TownPlaces
  <2>2. p.id = <<"TOWN", t.id>> /\ p.kind = "TOWN" /\ p.parent = ContainingCounty(t.at)  BY DEF Row
  <2>3. p.id # c.id  BY <1>4, <2>2
  <2>4. <<"TOWN", t.id>> \in ids <=> ContainingCounty(t.at) = <<"COUNTY", s.slug>>
    <3>1. OfCounty(c, p) <=> p.parent = c.id  BY <2>2 DEF OfCounty
    <3> HIDE DEF p, ids
    <3> QED  BY <1>4, <1>7, <2>1, <2>2, <2>3, <3>1
  <2>5. \A b, e \in in : b.slug = e.slug  BY <1>6, OneCountyAssumption
  <2>6. CASE in = {}
    <3>1. ContainingCounty(t.at) = <<>>  BY <2>6 DEF ContainingCounty
    <3>2. <<>> # <<"COUNTY", s.slug>>  OBVIOUS
    <3>3. s \notin in  BY <2>6
    <3> QED  BY <1>4, <2>4, <3>1, <3>2, <3>3
  <2>7. CASE in # {}
    <3>1. PICK e \in in : ContainingCounty(t.at) = <<"COUNTY", e.slug>>  BY <2>7 DEF ContainingCounty
    <3>2. ContainingCounty(t.at) = <<"COUNTY", s.slug>> <=> e.slug = s.slug  BY <3>1
    <3>3. s \in in => e.slug = s.slug  BY <2>5, <3>1
    <3>4. ASSUME e.slug = s.slug PROVE s \in in
      <4> DEFINE pe == Row("COUNTY", e.slug, e.lo, e.hi, <<>>)
      <4>1. pe \in Seeds(Config)  BY DEF Seeds, CountyPlaces
      <4>2. pe.id = c.id  BY <1>4, <3>4 DEF Row
      <4>3. c = pe  BY <1>1, <4>1, <4>2, SeededRows
      <4>4. e.lo = s.lo /\ e.hi = s.hi  BY <1>4, <4>3 DEF Row
      <4> QED  BY <4>4
    <3>5. s \in in <=> c.lo <= t.at /\ t.at <= c.hi  BY <1>4
    <3> QED  BY <2>4, <3>2, <3>3, <3>4, <3>5
  <2> QED  BY <2>6, <2>7
<1>9. ASSUME NEW a \in Config.areas PROVE
          /\ Overlap(a.lo + Precision, a.hi - Precision, c.lo, c.hi) /\ a.drawn = <<>> => <<"AREA", a.id>> \in ids
          /\ a.drawn # <<>> /\ Overlap(a.drawn[1], a.drawn[2], c.lo, c.hi) => <<"AREA", a.id>> \in ids
  <2> DEFINE shape == Shape(a.drawn, a.lo, a.hi)
             p == Row("AREA", a.id, shape[1], shape[2], <<>>)
  <2>1. p \in Seeds(Config)  BY DEF Seeds, AreaPlaces
  <2>2. p.id = <<"AREA", a.id>> /\ p.kind = "AREA" /\ p.lo = shape[1] /\ p.hi = shape[2]  BY DEF Row
  <2>3. p.id # c.id  BY <1>4, <2>2
  <2>4. Overlap(c.lo, c.hi, shape[1], shape[2]) => <<"AREA", a.id>> \in ids
    <3>1. Overlap(c.lo, c.hi, shape[1], shape[2]) => OfCounty(c, p)  BY <2>2 DEF OfCounty
    <3> HIDE DEF p, ids, shape
    <3> QED  BY <1>7, <2>1, <2>2, <2>3, <3>1
  <2>5. a.lo \in Int /\ a.hi \in Int  BY <1>6, PositionsAssumption
  <2>6. ASSUME Overlap(a.lo + Precision, a.hi - Precision, c.lo, c.hi), a.drawn = <<>> PROVE <<"AREA", a.id>> \in ids
    <3>1. shape[1] = Trim(a.lo) /\ shape[2] = Trim(a.hi)  BY <2>6 DEF Shape
    <3>2. /\ Trim(a.lo) \in Int /\ Trim(a.lo) - a.lo <= Precision \div 2
          /\ Trim(a.hi) \in Int /\ a.hi - Trim(a.hi) <= Precision \div 2
      BY <2>5, TrimIsNear
    <3>3. Precision \in Nat /\ Precision \div 2 \in Nat /\ Precision \div 2 <= Precision  BY PositionsAssumption
    <3>4. Overlap(c.lo, c.hi, shape[1], shape[2])  BY <1>4, <1>5, <2>5, <2>6, <3>1, <3>2, <3>3 DEF Overlap
    <3> QED  BY <2>4, <3>4
  <2>7. ASSUME a.drawn # <<>>, Overlap(a.drawn[1], a.drawn[2], c.lo, c.hi) PROVE <<"AREA", a.id>> \in ids
    <3>1. shape = a.drawn  BY <2>7 DEF Shape
    <3>2. Overlap(c.lo, c.hi, shape[1], shape[2])  BY <2>7, <3>1 DEF Overlap
    <3> QED  BY <2>4, <3>2
  <2> QED  BY <2>6, <2>7
<1> HIDE DEF ids
<1> QED  BY <1>1, <1>8, <1>9 DEF BurnReachesTheTown

\* However many boots were interrupted and in whatever order configurations
\* followed one another, a county's burn status reaches every configured town in
\* it and every configured area over it, and no configured town elsewhere
\* (PlaceIDsForCounty, places.Seed).
THEOREM BurnTheorem == DirectorySpec => []BurnReachesTheTown
<1>1. part = "places" /\ DirectoryInit => BurnReachesTheTown  BY DEF DirectoryInit, BurnReachesTheTown, IsAnswer
<1>2. ASSUME DirectoryInv, BurnReachesTheTown, [DirectoryNext]_feedVars PROVE BurnReachesTheTown'
  <2>1. CASE ~IsAnswer("county")'  BY <2>1 DEF BurnReachesTheTown
  <2>2. CASE UNCHANGED feedVars  BY <1>2, <2>2 DEF feedVars, BurnReachesTheTown, IsAnswer, Config
  <2>3. ASSUME NEW p \in live, PlaceIDsForCounty(p) PROVE BurnReachesTheTown'  BY <1>2, <2>3, CountyAnswer
  <2> QED  BY <1>2, <2>1, <2>2, <2>3, AnswerOrigin
<1> QED  BY <1>1, <1>2, DirectoryInvHolds, PTL DEF DirectorySpec

LEMMA ConditionsAnswer ==
    ASSUME Precision \div 2 <= Epsilon, DirectoryInv, NEW p \in live, GetConditions(p)
    PROVE  TownSeesItsWeather'
<1> DEFINE box == PlaceBbox(p)
           towns == {t.id : t \in {u \in Config.towns : box.lo <= u.at /\ u.at <= box.hi}}
<1>1. world.at = "serving" /\ Config' = Config /\ result'.place = p /\ result'.towns = towns
  BY AnswerStep DEF GetConditions, Answer, Config
<1>2. ASSUME NEW t \in Config.towns, p.id = <<"TOWN", t.id>> PROVE t.id \in towns
  <2> DEFINE q == Row("TOWN", t.id, Trim(t.at), Trim(t.at), ContainingCounty(t.at))
  <2>1. q \in Seeds(Config)  BY DEF Seeds, TownPlaces
  <2>2. q.id = p.id  BY <1>2 DEF Row
  <2>3. p = q  BY <1>1, <2>1, <2>2, SeededRows
  <2>4. p.lo = Trim(t.at) /\ p.hi = Trim(t.at)  BY <2>3 DEF Row
  <2>5. t.at \in Int /\ Epsilon \in Nat
    BY PositionsAssumption DEF DirectoryInv, DirectoryWorld, Config
  <2>6. Trim(t.at) \in Int /\ Trim(t.at) - t.at <= Precision \div 2 /\ t.at - Trim(t.at) <= Precision \div 2
    BY <2>5, TrimIsNear
  <2>7. Precision \div 2 \in Nat  BY PositionsAssumption
  <2>8. box.lo = Trim(t.at) - Epsilon /\ box.hi = Trim(t.at) + Epsilon  BY <2>4 DEF PlaceBbox
  <2>9. box.lo <= t.at /\ t.at <= box.hi  BY <2>5, <2>6, <2>7, <2>8
  <2> HIDE DEF box
  <2> QED  BY <2>9
<1> HIDE DEF towns
<1> QED  BY <1>1, <1>2 DEF TownSeesItsWeather

\* A town is served its own weather though its stored position was rounded, for
\* any precision the padding of a point covers (padDegenerate, conditions.go).
THEOREM TownTheorem == ASSUME Precision \div 2 <= Epsilon PROVE DirectorySpec => []TownSeesItsWeather
<1>1. part = "places" /\ DirectoryInit => TownSeesItsWeather  BY DEF DirectoryInit, TownSeesItsWeather, IsAnswer
<1>2. ASSUME DirectoryInv, TownSeesItsWeather, [DirectoryNext]_feedVars PROVE TownSeesItsWeather'
  <2>1. CASE ~IsAnswer("conditions")'  BY <2>1 DEF TownSeesItsWeather
  <2>2. CASE UNCHANGED feedVars  BY <1>2, <2>2 DEF feedVars, TownSeesItsWeather, IsAnswer, Config
  <2>3. ASSUME NEW p \in live, GetConditions(p) PROVE TownSeesItsWeather'  BY <1>2, <2>3, ConditionsAnswer
  <2> QED  BY <1>2, <2>1, <2>2, <2>3, AnswerOrigin
<1> QED  BY <1>1, <1>2, DirectoryInvHolds, PTL DEF DirectorySpec

\* Every area and every product names its zones, and areas have names of their own.
ZonesAreNamed ==
    /\ \A f \in Product : f.zones # {}
    /\ \A d \in DOMAIN Deployment :
         /\ \A a \in Deployment[d].areas : a.zones # {}
         /\ \A a, b \in Deployment[d].areas : a.id = b.id => a = b

LEMMA FireAnswer ==
    ASSUME ZonesAreNamed, DirectoryInv, NEW p \in live, NEW product,
           product = {} \/ \E f \in Product : product = {f}, ServeFireWeather(p, product)
    PROVE  FireWeatherIsLocal'
<1> DEFINE area == ResolveHazardArea(p)
           touched == {a \in Config.areas : Overlap(a.lo, a.hi, p.lo, p.hi)}
           areas == IF Own(p) # {} THEN Own(p) ELSE touched
           here == {f \in product : \E a \in areas : a.zones \cap f.zones # {}}
           features == IF Builds(area) THEN FireWeatherFeatures(area, product) ELSE {}
<1>1. /\ Config' = Config /\ result'.place = p /\ result'.product = product
      /\ result'.state = FireWeatherState(features)
  BY AnswerStep DEF ServeFireWeather, Answer, Config
<1>2. Own(result.place)' = Own(p)  BY <1>1 DEF Own
<1>3. \A a \in Config.areas : a.zones # {}  BY DEF ZonesAreNamed, DirectoryInv, DirectoryWorld, Config
<1>4. \A a, b \in Config.areas : a.id = b.id => a = b  BY DEF ZonesAreNamed, DirectoryInv, DirectoryWorld, Config
<1>5. \A a, b \in Own(p) : a = b /\ a \in Config.areas  BY <1>4 DEF Own
<1>6. ASSUME NEW f \in product, f \in Product PROVE
         Builds(area) /\ ScopedTo(area.zones, f.zones) <=> \E a \in areas : a.zones \cap f.zones # {}
  <2>1. f.zones # {}  BY <1>6 DEF ZonesAreNamed
  <2>2. CASE Own(p) # {}
    <3>1. PICK a \in Own(p) : area = [zones |-> a.zones, lo |-> a.lo, hi |-> a.hi, covered |-> TRUE]
      BY <2>2 DEF ResolveHazardArea
    <3>2. areas = {a}  BY <1>5, <2>2, <3>1
    <3>3. a.zones # {}  BY <1>3, <1>5, <3>1
    <3>4. area.zones = a.zones /\ area.covered  BY <3>1
    <3> HIDE DEF areas, area
    <3> QED  BY <2>1, <3>2, <3>3, <3>4 DEF Builds, ScopedTo
  <2>3. CASE Own(p) = {}
    <3>1. area = [zones |-> UNION {a.zones : a \in touched}, lo |-> p.lo, hi |-> p.hi, covered |-> touched # {}]
      BY <2>3 DEF ResolveHazardArea, Synthesized
    <3>2. areas = touched  BY <2>3
    <3>3. \A a \in touched : a.zones # {}  BY <1>3
    <3> HIDE DEF areas, area, touched
    <3>4. area.zones = UNION {a.zones : a \in touched} /\ (area.covered <=> touched # {})  BY <3>1
    <3> QED  BY <2>1, <3>2, <3>3, <3>4 DEF Builds, ScopedTo
  <2> QED  BY <2>2, <2>3
<1>7. FireWeatherState(features) = IF here = {} THEN "" ELSE (CHOOSE f \in here : TRUE).state
  <2>1. \A g \in features : g.state = "" \/ \E f \in product : Builds(area) /\ ScopedTo(area.zones, f.zones) /\ g.state = f.state
    <3> SUFFICES ASSUME NEW g \in features, g.state # ""
                 PROVE  \E f \in product : Builds(area) /\ ScopedTo(area.zones, f.zones) /\ g.state = f.state
      OBVIOUS
    <3> HIDE DEF area
    <3>1. Builds(area) /\ g \in FireWeatherFeatures(area, product)  OBVIOUS
    <3>2. g \in {[state |-> f.state] : f \in {q \in product : ScopedTo(area.zones, q.zones)}}
      <4>1. g # [state |-> ""]
        <5>1. ASSUME NEW x, x = [state |-> ""] PROVE x.state = ""  BY <5>1
        <5> QED  BY <5>1
      <4> QED  BY <3>1, <4>1, Zenon DEF FireWeatherFeatures
    <3>3. PICK f \in product : ScopedTo(area.zones, f.zones) /\ g = [state |-> f.state]  BY <3>2
    <3> QED  BY <3>1, <3>3
  <2>2. CASE here = {}
    <3>1. \A f \in product : f \in Product  OBVIOUS
    <3>2. \A f \in product : ~(Builds(area) /\ ScopedTo(area.zones, f.zones))  BY <1>6, <2>2, <3>1
    <3>3. {g.state : g \in features} \ {""} = {}  BY <2>1, <3>2
    <3> QED  BY <2>2, <3>3 DEF FireWeatherState
  <2>3. CASE here # {}
    <3>1. PICK f \in Product : product = {f}  BY <2>3
    <3>2. here = {f}  BY <2>3, <3>1
    <3>3. Builds(area) /\ ScopedTo(area.zones, f.zones)  BY <1>6, <3>1, <3>2
    <3>4. [state |-> f.state] \in features  BY <3>1, <3>3 DEF FireWeatherFeatures
    <3>5. {g.state : g \in features} \ {""} = {f.state} \ {""}
      <4>1. \A g \in features : g.state = "" \/ g.state = f.state  BY <2>1, <3>1
      <4>2. PICK g \in features : g.state = f.state  BY <3>4
      <4> HIDE DEF features
      <4> QED  BY <4>1, <4>2
    <3>6. (CHOOSE g \in here : TRUE) = f  BY <3>2
    <3>7. CASE f.state = ""
      <4>1. {g.state : g \in features} \ {""} = {}  BY <3>5, <3>7
      <4> QED  BY <3>2, <3>6, <3>7, <4>1 DEF FireWeatherState
    <3>8. CASE f.state # ""
      <4>1. {g.state : g \in features} \ {""} = {f.state}  BY <3>5, <3>8
      <4>2. FireRank(f.state) <= FireRank(f.state)  BY DEF FireRank
      <4>3. \A u \in {f.state} : FireRank(u) <= FireRank(f.state)  BY <4>2
      <4>4. (CHOOSE u \in {f.state} : \A t \in {f.state} : FireRank(t) <= FireRank(u)) = f.state  BY <4>3
      <4> DEFINE known == {g.state : g \in features} \ {""}
      <4>5. FireWeatherState(features) = IF known = {} THEN "" ELSE CHOOSE u \in known : \A t \in known : FireRank(t) <= FireRank(u)
        <5> HIDE DEF features
        <5> QED  BY DEF FireWeatherState
      <4> HIDE DEF known
      <4>6. known = {f.state}  BY <4>1 DEF known
      <4>7. FireWeatherState(features) = f.state  BY <4>4, <4>5, <4>6
      <4> HIDE DEF features, here
      <4> QED  BY <3>2, <3>6, <4>7
    <3> QED  BY <3>7, <3>8
  <2> QED  BY <2>2, <2>3
<1>8. result'.state = IF here = {} THEN "" ELSE (CHOOSE f \in here : TRUE).state  BY <1>1, <1>7
<1> DEFINE q == result'.place
           areasNow == IF Own(result.place)' # {} THEN Own(result.place)'
                       ELSE {a \in Config'.areas : Overlap(a.lo, a.hi, q.lo, q.hi)}
           hereNow == {f \in result'.product : \E a \in areasNow : a.zones \cap f.zones # {}}
<1>9. areasNow = areas  BY <1>1, <1>2
<1> HIDE DEF areas, areasNow
<1>10. hereNow = here  BY <1>1, <1>9
<1> USE DEF areas, areasNow
<1>11. result'.state = IF hereNow = {} THEN "" ELSE (CHOOSE f \in hereNow : TRUE).state  BY <1>8, <1>10
<1> QED  BY <1>11, Zenon DEF FireWeatherIsLocal, Overlap

\* A place shows the fire weather of the areas it lies in, all of it and nobody
\* else's, after any sequence of configurations, where areas and products name
\* their zones (resolveHazardArea, zonesMatch).
THEOREM FireTheorem == ASSUME ZonesAreNamed PROVE DirectorySpec => []FireWeatherIsLocal
<1>1. part = "places" /\ DirectoryInit => FireWeatherIsLocal  BY DEF DirectoryInit, FireWeatherIsLocal, IsAnswer
<1>2. ASSUME DirectoryInv, FireWeatherIsLocal, [DirectoryNext]_feedVars PROVE FireWeatherIsLocal'
  <2>1. CASE ~IsAnswer("fire")'  BY <2>1 DEF FireWeatherIsLocal
  <2>2. CASE UNCHANGED feedVars  BY <1>2, <2>2 DEF feedVars, FireWeatherIsLocal, IsAnswer, Config, Own
  <2>3. ASSUME NEW p \in live, ServeFireWeather(p, {}) \/ \E f \in Product : ServeFireWeather(p, {f}) PROVE FireWeatherIsLocal'
    BY <1>2, <2>3, FireAnswer
  <2> QED  BY <1>2, <2>1, <2>2, <2>3, AnswerOrigin
<1> QED  BY <1>1, <1>2, DirectoryInvHolds, PTL DEF DirectorySpec

(***************************************************************************)
(* Power outages, whichever layer of PG&E fails, is blank or renamed, and  *)
(* for any outages and shutoffs.                                           *)
(***************************************************************************)
PowerWorld == [now : {0, 1}, rows : SUBSET Outage, shutoffs : SUBSET ShutoffRow]

\* What is tracked is an outage, with an area only if PG&E draws one, or a shutoff.
TrackedPower ==
    \A e \in live :
        \/ e.source = "pge" /\ \E o \in Outage : e.id = <<"pge", o.id>> /\ (e.area => o.parts > 0)
        \/ e.source = "psps" /\ \E a \in ShutoffRow : e.id = PSPSGroupKey(a)

PowerInv == part = "power" /\ world \in PowerWorld /\ TrackedPower

\* The outages a poll hands over are published, and have an area once one was drawn.
LEMMA OutagesOfPoll ==
    ASSUME PowerInv, NEW points \in LayerReplies, NEW polygons \in LayerReplies,
           NEW e, e \in {BuildOutageEvent(o, GetOutages(points, polygons).blank) : o \in GetOutages(points, polygons).outages}
    PROVE  e.source = "pge" /\ \E o \in Outage : e.id = <<"pge", o.id>> /\ (e.area => o.parts > 0)
<1> DEFINE got == GetOutages(points, polygons)
           drawn == Answered(polygons, {o \in world.rows : o.parts > 0})
           spots == Answered(points, world.rows)
<1>1. PICK g \in got.outages : e = BuildOutageEvent(g, got.blank)  OBVIOUS
<1>2. drawn \subseteq {o \in world.rows : o.parts > 0} /\ spots \subseteq world.rows /\ world.rows \subseteq Outage
  BY DEF Answered, PowerInv, PowerWorld
<1>3. PICK o \in Outage : g.id = o.id /\ (g.area => o.parts > 0)
  <2>1. PICK o \in spots \cup drawn : g = [id |-> o.id, outage |-> o, area |-> polygons = "ok" /\ o \in drawn]
    BY DEF GetOutages
  <2> HIDE DEF drawn, spots
  <2> QED  BY <1>2, <2>1
<1>4. e.source = "pge" /\ e.id = <<"pge", g.id>> /\ e.area = AttachOutageGeometry(g, got.blank)
  BY <1>1 DEF BuildOutageEvent
<1>5. ASSUME e.area, ~g.area PROVE o.parts > 0
  <2>1. PICK x \in live : x.id = <<"pge", g.id>> /\ x.area  BY <1>4, <1>5 DEF AttachOutageGeometry
  <2>2. PICK p \in Outage : x.id = <<"pge", p.id>> /\ p.parts > 0
    BY <2>1 DEF PowerInv, TrackedPower, PSPSGroupKey
  <2> QED  BY <1>3, <2>1, <2>2, OutageAssumption
<1> QED  BY <1>3, <1>4, <1>5

LEMMA ShutoffsOfPoll ==
    ASSUME PowerInv
    PROVE  /\ \A e \in BuildPSPSEvents(GetPSPSAreas) : e.source = "psps" /\ \E a \in ShutoffRow : e.id = PSPSGroupKey(a)
           /\ \A a \in world.shutoffs : \E e \in BuildPSPSEvents(GetPSPSAreas) : e.id = PSPSGroupKey(a)
<1>1. \A key, group : BuildPSPSEvent(key, group).source = "psps" /\ BuildPSPSEvent(key, group).id = key
  BY DEF BuildPSPSEvent
<1>2. world.shutoffs \subseteq ShutoffRow  BY DEF PowerInv, PowerWorld
<1>3. \A e \in BuildPSPSEvents(GetPSPSAreas) : e.source = "psps" /\ \E a \in ShutoffRow : e.id = PSPSGroupKey(a)
  <2>1. SUFFICES ASSUME NEW e \in BuildPSPSEvents(GetPSPSAreas)
                 PROVE  e.source = "psps" /\ \E a \in ShutoffRow : e.id = PSPSGroupKey(a)
    OBVIOUS
  <2>2. PICK key \in {PSPSGroupKey(a) : a \in world.shutoffs} :
               e = BuildPSPSEvent(key, {a \in world.shutoffs : PSPSGroupKey(a) = key})
    BY DEF BuildPSPSEvents, GetPSPSAreas
  <2>3. e.source = "psps" /\ e.id = key  BY <1>1, <2>2
  <2>4. PICK a \in world.shutoffs : key = PSPSGroupKey(a)  BY <2>2
  <2> QED  BY <1>2, <2>3, <2>4
<1>4. ASSUME NEW a \in world.shutoffs PROVE \E e \in BuildPSPSEvents(GetPSPSAreas) : e.id = PSPSGroupKey(a)
  <2> DEFINE key == PSPSGroupKey(a)
             e == BuildPSPSEvent(key, {b \in world.shutoffs : PSPSGroupKey(b) = key})
  <2>1. e \in BuildPSPSEvents(GetPSPSAreas)  BY DEF BuildPSPSEvents, GetPSPSAreas
  <2>2. e.id = key  BY <1>1
  <2> QED  BY <2>1, <2>2
<1> QED  BY <1>3, <1>4

\* The polls that do not mark the source failed hand over every outage that they are
\* shown, and what they hand over has its area, or the stored one.
LEMMA OutagesKept ==
    ASSUME PowerInv, NEW points \in LayerReplies, NEW polygons \in LayerReplies, NEW o \in world.rows,
           points = "blank" => polygons # "blank" /\ o.parts > 0,
           ~GetOutages(points, polygons).err
    PROVE  /\ ~GetOutages(points, polygons).blank =>
                  \E g \in GetOutages(points, polygons).outages : g.id = o.id
           /\ ~GetOutages(points, polygons).blank =>
                  \A g \in GetOutages(points, polygons).outages : g.id = o.id /\ o.parts > 0 => g.area
<1> DEFINE got == GetOutages(points, polygons)
           drawn == Answered(polygons, {p \in world.rows : p.parts > 0})
           spots == Answered(points, world.rows)
<1>1. points \in {"ok", "blank"}  BY DEF GetOutages, Answered, LayerReplies
<1>2. got.outages = {[id |-> p.id, outage |-> p, area |-> polygons = "ok" /\ p \in drawn] :
                        p \in (IF points = "ok" THEN spots ELSE {}) \cup (IF polygons = "ok" THEN drawn ELSE {})}
  BY DEF GetOutages
<1>3. ASSUME ~got.blank
      PROVE  polygons = "ok" /\ drawn = {p \in world.rows : p.parts > 0} /\ (points = "ok" => spots = world.rows)
  <2>1. points = "ok" => spots = world.rows  BY DEF Answered
  <2>2. CASE points = "ok"
    <3>1. drawn # {}  BY <1>3, <2>1, <2>2 DEF GetOutages
    <3> QED  BY <2>1, <2>2, <3>1 DEF GetOutages, Answered, LayerReplies
  <2>3. CASE points = "blank"
    <3>1. polygons = "ok"  BY <2>3 DEF GetOutages, Answered, LayerReplies
    <3> QED  BY <2>1, <3>1 DEF Answered
  <2> QED  BY <1>1, <2>2, <2>3
<1> HIDE DEF got, drawn, spots
<1>4. ASSUME ~got.blank PROVE \E g \in got.outages : g.id = o.id
  <2>1. o \in (IF points = "ok" THEN spots ELSE {}) \cup (IF polygons = "ok" THEN drawn ELSE {})
    BY <1>1, <1>3, <1>4
  <2>2. [id |-> o.id, outage |-> o, area |-> polygons = "ok" /\ o \in drawn] \in got.outages  BY <1>2, <2>1
  <2>3. PICK g \in got.outages : g = [id |-> o.id, outage |-> o, area |-> polygons = "ok" /\ o \in drawn]  BY <2>2
  <2> QED  BY <2>3
<1>5. ASSUME ~got.blank, NEW g \in got.outages, g.id = o.id, o.parts > 0 PROVE g.area
  <2>1. PICK p : /\ g = [id |-> p.id, outage |-> p, area |-> polygons = "ok" /\ p \in drawn]
                 /\ p \in spots \cup drawn
    BY <1>2
  <2>2. p \in world.rows
    BY <2>1 DEF drawn, spots, Answered
  <2>3. p = o  BY <1>5, <2>1, <2>2, OutageAssumption DEF PowerInv, PowerWorld
  <2> QED  BY <1>3, <1>5, <2>1, <2>3
<1> QED  BY <1>4, <1>5 DEF got

LEMMA PowerTickStep ==
    ASSUME PowerInv, NEW points \in LayerReplies, NEW polygons \in LayerReplies, NEW stamp \in PowerStamp,
           NEW psps \in {"ok", "error"}, PowerTick(points, polygons, stamp, psps)
    PROVE  /\ TrackedPower'
           /\ \A o \in world.rows : \A e \in live :
                 e.id = <<"pge", o.id>> => Unseen(o) \/ \E n \in live' : n.id = e.id /\ (e.area => n.area)
           /\ \A a \in world.shutoffs : PSPSGroupKey(a) \in Ids(live) => PSPSGroupKey(a) \in Ids(live')
<1> DEFINE got == GetOutages(points, polygons)
           failed == (IF got.err \/ got.blank \/ FreshnessError(stamp) THEN {"pge"} ELSE {})
                     \cup (IF psps = "error" THEN {"psps"} ELSE {})
           outages == IF got.err THEN {} ELSE {BuildOutageEvent(o, got.blank) : o \in got.outages}
           shutoffs == IF psps = "error" THEN {} ELSE BuildPSPSEvents(GetPSPSAreas)
           events == outages \cup shutoffs
           kept == {e \in live : e.id \notin Ids(events) /\ (e.source \in failed \/ e.source \in ExpireSource)}
<1>1. CASE live' = live
  BY <1>1 DEF PowerInv, TrackedPower
<1>2. CASE live' = events \cup kept
  <2>1. \A e \in outages : e.source = "pge" /\ \E o \in Outage : e.id = <<"pge", o.id>> /\ (e.area => o.parts > 0)
    BY OutagesOfPoll
  <2>2. \A e \in shutoffs : e.source = "psps" /\ \E a \in ShutoffRow : e.id = PSPSGroupKey(a)
    BY ShutoffsOfPoll
  <2>3. psps # "error" => \A a \in world.shutoffs : \E e \in shutoffs : e.id = PSPSGroupKey(a)
    BY ShutoffsOfPoll
  <2>4. ASSUME NEW o \in world.rows, ~Unseen(o) PROVE points = "blank" => polygons # "blank" /\ o.parts > 0
    <3>1. o.parts = 0 \/ o.parts > 0  BY OutageAssumption DEF PowerInv, PowerWorld
    <3> QED  BY <2>4, <3>1 DEF Unseen
  <2>5. ASSUME NEW o \in world.rows, ~Unseen(o), NEW e \in outages, e.id = <<"pge", o.id>>, o.parts > 0,
               \E x \in live : x.id = e.id /\ x.area
        PROVE  e.area
    <3>1. PICK g \in got.outages : e = BuildOutageEvent(g, got.blank)  OBVIOUS
    <3>2. e.id = <<"pge", g.id>> /\ e.area = AttachOutageGeometry(g, got.blank)  BY <3>1 DEF BuildOutageEvent
    <3>3. CASE got.blank  BY <2>5, <3>2, <3>3 DEF AttachOutageGeometry
    <3>4. CASE ~got.blank
      <4>1. ~got.err  BY <2>5
      <4>2. points = "blank" => polygons # "blank" /\ o.parts > 0  BY <2>4, <2>5
      <4>3. \A h \in got.outages : h.id = o.id /\ o.parts > 0 => h.area  BY <3>4, <4>1, <4>2, OutagesKept
      <4>4. g.id = o.id  BY <2>5, <3>2
      <4>5. g.area  BY <2>5, <4>3, <4>4
      <4> QED  BY <3>2, <4>5 DEF AttachOutageGeometry
    <3> QED  BY <3>3, <3>4
  <2>6. ASSUME NEW o \in world.rows, ~Unseen(o), "pge" \notin failed PROVE \E e \in outages : e.id = <<"pge", o.id>>
    <3>1. ~got.err /\ ~got.blank  BY <2>6
    <3>2. points = "blank" => polygons # "blank" /\ o.parts > 0  BY <2>4, <2>6
    <3>3. PICK g \in got.outages : g.id = o.id  BY <3>1, <3>2, OutagesKept
    <3>4. BuildOutageEvent(g, got.blank) \in outages  BY <3>1, <3>3
    <3>5. BuildOutageEvent(g, got.blank).id = <<"pge", g.id>>  BY DEF BuildOutageEvent
    <3> QED  BY <3>3, <3>4, <3>5
  <2>7. psps = "error" => "psps" \in failed  OBVIOUS
  <2> HIDE DEF got, failed, outages, shutoffs
  <2>8. TrackedPower'
    BY <1>2, <2>1, <2>2 DEF PowerInv, TrackedPower, PSPSGroupKey
  <2>9. ASSUME NEW e \in live, NEW o \in world.rows, e.id = <<"pge", o.id>>, ~Unseen(o)
        PROVE  \E n \in live' : n.id = e.id /\ (e.area => n.area)
    <3>1. e.source = "pge" /\ (e.area => o.parts > 0)
      BY <2>9, OutageAssumption DEF PowerInv, PowerWorld, TrackedPower, PSPSGroupKey
    <3>2. CASE e.id \in Ids(events)
      <4>1. PICK n \in events : n.id = e.id  BY <3>2 DEF Ids
      <4>2. n \in outages  BY <2>2, <2>9, <4>1 DEF PSPSGroupKey
      <4>3. e.area => n.area  BY <2>5, <2>9, <3>1, <4>1, <4>2
      <4> QED  BY <1>2, <4>1, <4>3
    <3>3. CASE e.id \notin Ids(events)
      <4>1. "pge" \in failed  BY <2>6, <2>9, <3>3 DEF Ids
      <4> QED  BY <1>2, <3>1, <3>3, <4>1
    <3> QED  BY <3>2, <3>3
  <2>10. ASSUME NEW a \in world.shutoffs, PSPSGroupKey(a) \in Ids(live) PROVE PSPSGroupKey(a) \in Ids(live')
    <3>1. PICK e \in live : e.id = PSPSGroupKey(a)  BY <2>10 DEF Ids
    <3>2. e.source = "psps"  BY <3>1 DEF PowerInv, TrackedPower, PSPSGroupKey
    <3>3. CASE e.id \in Ids(events)
      <4>1. PICK n \in events : n.id = e.id  BY <3>3 DEF Ids
      <4> QED  BY <1>2, <3>1, <4>1 DEF Ids
    <3>4. CASE e.id \notin Ids(events)
      <4>1. "psps" \in failed  BY <2>3, <2>7, <3>1, <3>4 DEF Ids
      <4> QED  BY <1>2, <3>1, <3>2, <3>4, <4>1 DEF Ids
    <3> QED  BY <3>3, <3>4
  <2> QED  BY <2>8, <2>9, <2>10
<1>3. live' = live \/ live' = events \cup kept
  BY DEF PowerTick, Apply, Tracked, PollPower, PollError, PollResult
<1> QED  BY <1>1, <1>2, <1>3

LEMMA PowerStep ==
    ASSUME PowerInv, [PowerNext]_feedVars
    PROVE  PowerInv' /\ (UNCHANGED live \/ \E points, polygons \in LayerReplies, stamp \in PowerStamp, psps \in {"ok", "error"} :
                                              PowerTick(points, polygons, stamp, psps))
<1>1. CASE UNCHANGED feedVars  BY <1>1 DEF feedVars, PowerInv, TrackedPower
<1>2. CASE PowerClock  BY <1>2 DEF PowerClock, PowerInv, PowerWorld, TrackedPower
<1>3. ASSUME NEW o \in Outage, LoseOrRestore(o) PROVE PowerInv' /\ UNCHANGED live
  BY <1>3 DEF LoseOrRestore, PowerInv, PowerWorld, TrackedPower
<1>4. ASSUME NEW a \in ShutoffRow, AnnounceOrEnd(a) PROVE PowerInv' /\ UNCHANGED live
  BY <1>4 DEF AnnounceOrEnd, PowerInv, PowerWorld, TrackedPower
<1>5. ASSUME NEW points \in LayerReplies, NEW polygons \in LayerReplies, NEW stamp \in PowerStamp,
             NEW psps \in {"ok", "error"}, PowerTick(points, polygons, stamp, psps)
      PROVE  PowerInv'
  <2>1. TrackedPower'  BY <1>5, PowerTickStep
  <2> QED  BY <1>5, <2>1 DEF PowerTick, PowerInv
<1> QED  BY <1>1, <1>2, <1>3, <1>4, <1>5 DEF PowerNext, PowerClock, feedVars

\* A published outage stays tracked and keeps its area, but over a tick that a blank
\* point layer does not show it to, and a shutoff stays while a row of it is
\* published, whichever layer fails, is blank or is renamed (PowerNormalizer.Poll,
\* GetOutages, attachOutageGeometry).
THEOREM PowerTheorem == PowerSpec => OutageStaysAsDrawn
<1> DEFINE kept == part = "power" =>
         /\ \A o \in world.rows : \A e \in live :
               e.id = <<"pge", o.id>> => Unseen(o) \/ \E n \in live' : n.id = e.id /\ (e.area => n.area)
         /\ \A a \in world.shutoffs : PSPSGroupKey(a) \in Ids(live) => PSPSGroupKey(a) \in Ids(live')
<1>1. part = "power" /\ PowerInit => PowerInv
  BY DEF PowerInit, PowerInv, PowerWorld, TrackedPower
<1>2. PowerInv /\ [PowerNext]_feedVars => PowerInv'  BY PowerStep
<1>3. ASSUME PowerInv, [PowerNext]_feedVars PROVE [kept]_feedVars
  <2>1. CASE UNCHANGED live  BY <2>1 DEF Ids
  <2>2. CASE \E points, polygons \in LayerReplies, stamp \in PowerStamp, psps \in {"ok", "error"} :
               PowerTick(points, polygons, stamp, psps)
    BY <1>3, <2>2, PowerTickStep
  <2> QED  BY <1>3, <2>1, <2>2, PowerStep
<1>4. [][kept]_feedVars <=> OutageStaysAsDrawn  BY DEF OutageStaysAsDrawn
<1> QED  BY <1>1, <1>2, <1>3, <1>4, PTL DEF PowerSpec

(***************************************************************************)
(* Lane closures, for any windows, files and garblings, once the events of *)
(* the KML era are gone.                                                   *)
(***************************************************************************)
RadioCodes == [set : BOOLEAN, picked : BOOLEAN, cancelled : BOOLEAN]
LaneWorld == [now : Int, listed : SUBSET ClosureWindow, code : [ClosureWindow -> RadioCodes]]

\* A row leaves the file after its window only.
DelistedAreOver == \A w \in ClosureWindow \ world.listed : WindowOver(w)

\* An event is a window in the configured areas, under its own id.
TrackedWindows ==
    \A e \in live :
        /\ e.source = "caltrans" /\ e.win \in ClosureWindow /\ e.id = LaneClosureEventID(e.win)
        /\ InAnyArea(e.win.begin) \/ InAnyArea(e.win.end)

LaneInv == part = "lanes" /\ world \in LaneWorld /\ DelistedAreOver /\ TrackedWindows

LEMMA LaneInitInv == part = "lanes" /\ LaneInit({}) => LaneInv
<1>1. NotCalled \in RadioCodes  BY DEF NotCalled, RadioCodes
<1>2. SUFFICES ASSUME part = "lanes", LaneInit({}) PROVE LaneInv  OBVIOUS
<1>3. world = [now |-> 0, listed |-> ClosureWindow, code |-> [w \in ClosureWindow |-> NotCalled]] /\ live = {}
  BY <1>2 DEF LaneInit
<1> HIDE DEF NotCalled
<1>4. world \in LaneWorld  BY <1>1, <1>3 DEF LaneWorld
<1> QED  BY <1>2, <1>3, <1>4 DEF LaneInv, DelistedAreOver, TrackedWindows

\* The crews' calls and the clock leave over what is over.
LEMMA RadioStep ==
    ASSUME LaneInv, NEW w \in ClosureWindow, NEW c \in RadioCodes, Radio(w, c),
           w \in world.listed \/ c.picked \/ c.cancelled
    PROVE  LaneInv'
<1>1. PICK code \in [ClosureWindow -> RadioCodes] : code = [world.code EXCEPT ![w] = c]
  <2>1. world.code \in [ClosureWindow -> RadioCodes]  BY DEF LaneInv, LaneWorld
  <2> QED  BY <2>1
<1>2. world' = [world EXCEPT !.code = code]  BY <1>1 DEF Radio
<1>3. world' \in LaneWorld /\ world'.now = world.now /\ world'.listed = world.listed /\ world'.code = code
  BY <1>2 DEF LaneInv, LaneWorld
<1>4. ASSUME NEW v \in ClosureWindow \ world.listed PROVE WindowOver(v)'
  <2>1. CASE v = w
    <3>1. code[v] = c /\ (c.picked \/ c.cancelled)  BY <1>1, <1>4, <2>1 DEF LaneInv, LaneWorld
    <3> QED  BY <1>3, <3>1 DEF WindowOver
  <2>2. CASE v # w
    <3>1. code[v] = world.code[v]  BY <1>1, <2>2 DEF LaneInv, LaneWorld
    <3>2. WindowOver(v)  BY <1>4 DEF LaneInv, DelistedAreOver
    <3> QED  BY <1>3, <3>1, <3>2 DEF WindowOver
  <2> QED  BY <2>1, <2>2
<1>5. UNCHANGED <<part, live>>  BY DEF Radio
<1> QED  BY <1>3, <1>4, <1>5 DEF LaneInv, DelistedAreOver, TrackedWindows

LEMMA ClosureClockStep ==
    ASSUME LaneInv, LaneClock
    PROVE  LaneInv'
<1>1. PICK n \in Int : n = world.now + 1  BY DEF LaneInv, LaneWorld
<1>2. world' = [world EXCEPT !.now = n]  BY <1>1 DEF LaneClock
<1>3. world' \in LaneWorld /\ world'.now = n /\ world'.listed = world.listed /\ world'.code = world.code
  BY <1>2 DEF LaneInv, LaneWorld
<1>4. ASSUME NEW w \in ClosureWindow, WindowOver(w) PROVE WindowOver(w)'
  <2>1. Planned(w) => w.until \in Int /\ w.until + DefaultGrace \in Int  BY ClosureAssumption, GraceAssumption
  <2>2. Planned(w) /\ w.until <= world.now => w.until <= n  BY <1>1, <2>1 DEF LaneInv, LaneWorld
  <2>3. Planned(w) /\ w.until + DefaultGrace <= world.now => w.until + DefaultGrace <= n
    BY <1>1, <2>1 DEF LaneInv, LaneWorld
  <2> QED  BY <1>3, <1>4, <2>2, <2>3 DEF WindowOver, Planned
<1>5. UNCHANGED <<part, live>>  BY DEF LaneClock
<1> QED  BY <1>3, <1>4, <1>5 DEF LaneInv, DelistedAreOver, TrackedWindows

LEMMA DelistStep ==
    ASSUME LaneInv, NEW w \in ClosureWindow, Delist(w)
    PROVE  LaneInv'
<1>1. world' \in LaneWorld /\ world'.now = world.now /\ world'.listed = world.listed \ {w} /\ world'.code = world.code
  BY DEF Delist, LaneInv, LaneWorld
<1>2. \A v \in ClosureWindow : WindowOver(v) => WindowOver(v)'  BY <1>1 DEF WindowOver
<1> QED  BY <1>1, <1>2 DEF Delist, LaneInv, DelistedAreOver, TrackedWindows

\* Without events of the KML era nothing is adopted.
LEMMA NothingToAdopt ==
    ASSUME LaneInv, NEW events
    PROVE  AdoptLegacyClosureIDs(events) = events
<1>1. Olds = {}
  BY ClosureAssumption DEF Olds, PriorForSource, LaneInv, TrackedWindows
<1>2. ASSUME NEW e PROVE Cardinality({old \in Olds : Claims(OldOf(old), e)}) # 1
  <2>1. {old \in Olds : Claims(OldOf(old), e)} = {}  BY <1>1
  <2>2. Cardinality({}) = 0  BY FS_EmptySet
  <2> QED  BY <2>1, <2>2
<1> QED  BY <1>2 DEF AdoptLegacyClosureIDs

\* A window in the areas that is not over is handed over by a poll that is sure of itself.
LEMMA SurePoll ==
    ASSUME LaneInv, NEW file, NEW garbled, NEW w \in ClosureWindow, ~WindowOver(w),
           InAnyArea(w.begin) \/ InAnyArea(w.end),
           \A d \in ClosureDistrict : ~FetchFails(d, file),
           \A v \in UNION {RowsOf(d) : d \in ClosureDistrict} :
              ~(Unrecognized(v, garbled) /\ (InIncidentAreas(v, garbled) \/ ~Placeable(v, garbled)))
    PROVE  /\ w \in UNION {RowsOf(d) : d \in ClosureDistrict}
           /\ ~Unrecognized(w, garbled) /\ InIncidentAreas(w, garbled)
           /\ PhaseAt(w, world.code[w], world.now) \in {"SCHEDULED", "ACTIVE"}
<1>1. w \in world.listed  BY DEF LaneInv, DelistedAreOver
<1>2. w.district \in ClosureDistrict  BY ClosureAssumption
<1>3. w \in RowsOf(w.district)  BY <1>1 DEF RowsOf
<1>4. w \in UNION {RowsOf(d) : d \in ClosureDistrict}  BY <1>2, <1>3
<1>5. w.begin # Nowhere \/ w.end # Nowhere  BY DEF InAnyArea, InArea
<1>6. w \notin garbled.places  BY <1>4 DEF Placeable, Unrecognized
<1>7. InIncidentAreas(w, garbled)  BY <1>5, <1>6 DEF InIncidentAreas, Placeable
<1>8. ~Unrecognized(w, garbled)  BY <1>4, <1>7
<1>9. PhaseAt(w, world.code[w], world.now) \in {"SCHEDULED", "ACTIVE"}
  <2>1. ~world.code[w].picked /\ ~world.code[w].cancelled  BY DEF WindowOver
  <2>2. world.now \in Int  BY DEF LaneInv, LaneWorld
  <2>3. ~(Planned(w) /\ world.now >= w.until + (IF world.code[w].set THEN EffectiveGrace ELSE 0))
    <3>1. SUFFICES ASSUME Planned(w), world.now >= w.until + (IF world.code[w].set THEN EffectiveGrace ELSE 0) PROVE FALSE
      OBVIOUS
    <3>2. w.until \in Int  BY <3>1, ClosureAssumption
    <3>3. EffectiveGrace = DefaultGrace /\ DefaultGrace \in Int  BY GraceAssumption DEF EffectiveGrace
    <3>4. CASE world.code[w].set  BY <2>2, <3>1, <3>2, <3>3, <3>4 DEF WindowOver
    <3>5. CASE ~world.code[w].set  BY <2>2, <3>1, <3>2, <3>5 DEF WindowOver
    <3> QED  BY <3>4, <3>5
  <2> QED  BY <2>1, <2>3 DEF PhaseAt
<1> QED  BY <1>4, <1>7, <1>8, <1>9

LEMMA LaneTickStep ==
    ASSUME LaneInv, NEW file, NEW garbled, LaneTick(file, garbled)
    PROVE  LaneInv' /\ \A e \in live : StillTracked(e.win) \/ WindowOver(e.win)
<1> DEFINE failed == {d \in ClosureDistrict : FetchFails(d, file)}
           rows == UNION {RowsOf(d) : d \in ClosureDistrict \ failed}
           unreadable == {w \in rows : Unrecognized(w, garbled)
                                       /\ (InIncidentAreas(w, garbled) \/ ~Placeable(w, garbled))}
           inScope == {w \in rows : ~Unrecognized(w, garbled) /\ InIncidentAreas(w, garbled)}
           phase(w) == PhaseAt(w, world.code[w], world.now)
           due == {w \in inScope : phase(w) \in {"SCHEDULED", "ACTIVE"}}
           events == {BuildLaneClosureEvent(w, phase(w)) : w \in due}
           sure == failed = {} /\ unreadable = {}
<1>1. /\ UNCHANGED <<part, world>>
      /\ \/ live' = live
         \/ /\ events \subseteq live' /\ live' \subseteq events \cup live
            /\ ~sure => \A e \in live : e.source = "caltrans" /\ e.id \notin Ids(events) => e \in live'
  <2>1. AdoptLegacyClosureIDs(events) = events  BY NothingToAdopt
  <2>2. PollLanes(file, garbled) \in
           {PollError, PollResult(events, IF failed # {} \/ unreadable # {} THEN {"caltrans"} ELSE {}, {}, {})}
    BY <2>1 DEF PollLanes
  <2> HIDE DEF failed, unreadable, events
  <2>3. UNCHANGED <<part, world>> /\ live' = Tracked(PollLanes(file, garbled), {})  BY DEF LaneTick, Apply
  <2>4. PollError.hard  BY DEF PollError
  <2>5. CASE PollLanes(file, garbled) = PollError  BY <2>3, <2>4, <2>5 DEF Tracked
  <2>6. CASE PollLanes(file, garbled) = PollResult(events, IF failed # {} \/ unreadable # {} THEN {"caltrans"} ELSE {}, {}, {})
    <3>1. live' = events \cup {e \in live : /\ e.id \notin Ids(events)
                                            /\ \/ e.source \in IF sure THEN {} ELSE {"caltrans"}
                                               \/ e.source \in ExpireSource}
      BY <2>3, <2>6 DEF Tracked, PollResult
    <3> QED  BY <2>3, <3>1
  <2> QED  BY <2>2, <2>5, <2>6
<1>2. \A w \in due : /\ w \in ClosureWindow /\ (InAnyArea(w.begin) \/ InAnyArea(w.end))
  BY DEF InIncidentAreas, RowsOf
<1>3. \A w, status : /\ BuildLaneClosureEvent(w, status).win = w /\ BuildLaneClosureEvent(w, status).source = "caltrans"
                     /\ BuildLaneClosureEvent(w, status).id = LaneClosureEventID(w)
  BY DEF BuildLaneClosureEvent
<1>4. \A e \in events : /\ e.source = "caltrans" /\ e.win \in ClosureWindow /\ e.id = LaneClosureEventID(e.win)
                        /\ InAnyArea(e.win.begin) \/ InAnyArea(e.win.end)
  <2>1. SUFFICES ASSUME NEW e \in events
                 PROVE  /\ e.source = "caltrans" /\ e.win \in ClosureWindow /\ e.id = LaneClosureEventID(e.win)
                        /\ InAnyArea(e.win.begin) \/ InAnyArea(e.win.end)
    OBVIOUS
  <2>2. PICK w \in due : e = BuildLaneClosureEvent(w, phase(w))  OBVIOUS
  <2>3. e.source = "caltrans" /\ e.win = w /\ e.id = LaneClosureEventID(w)  BY <1>3, <2>2
  <2> QED  BY <1>2, <2>2, <2>3
<1>5. LaneInv'
  <2> HIDE DEF events
  <2>1. \A e \in live' : /\ e.source = "caltrans" /\ e.win \in ClosureWindow /\ e.id = LaneClosureEventID(e.win)
                         /\ InAnyArea(e.win.begin) \/ InAnyArea(e.win.end)
    BY <1>1, <1>4 DEF LaneInv, TrackedWindows
  <2>2. TrackedWindows'  BY <2>1 DEF TrackedWindows
  <2> QED  BY <1>1, <2>2 DEF LaneInv, DelistedAreOver, WindowOver
<1>6. ASSUME NEW e \in live, ~WindowOver(e.win) PROVE StillTracked(e.win)
  <2>1. /\ e.source = "caltrans" /\ e.win \in ClosureWindow /\ e.id = LaneClosureEventID(e.win)
        /\ InAnyArea(e.win.begin) \/ InAnyArea(e.win.end)
    BY DEF LaneInv, TrackedWindows
  <2>2. CASE live' = live  BY <2>2 DEF StillTracked
  <2>3. CASE live' # live /\ e.id \in Ids(events)
    <3> HIDE DEF events
    <3>1. PICK f \in events : f.id = e.id  BY <2>3 DEF Ids
    <3>2. f.win = e.win  BY <1>4, <2>1, <3>1, ClosureAssumption
    <3> QED  BY <1>1, <2>3, <3>1, <3>2 DEF StillTracked
  <2>4. CASE live' # live /\ e.id \notin Ids(events) /\ ~sure
    <3> HIDE DEF events, sure
    <3> QED  BY <1>1, <2>1, <2>4 DEF StillTracked
  <2>5. CASE live' # live /\ sure
    <3>1. /\ \A d \in ClosureDistrict : ~FetchFails(d, file)
          /\ rows = UNION {RowsOf(d) : d \in ClosureDistrict}
      BY <2>5
    <3>2. \A v \in rows : ~(Unrecognized(v, garbled) /\ (InIncidentAreas(v, garbled) \/ ~Placeable(v, garbled)))
      BY <2>5
    <3>3. e.win \in due  BY <1>6, <2>1, <3>1, <3>2, SurePoll
    <3>4. BuildLaneClosureEvent(e.win, phase(e.win)) \in events  BY <3>3
    <3> HIDE DEF events
    <3> QED  BY <1>1, <1>3, <2>5, <3>4 DEF StillTracked
  <2> QED  BY <2>2, <2>3, <2>4, <2>5
<1> QED  BY <1>5, <1>6

LEMMA LaneStep ==
    ASSUME LaneInv, NEW files, NEW garblings, [LaneNext(files, garblings)]_feedVars
    PROVE  LaneInv' /\ \A e \in live : StillTracked(e.win) \/ WindowOver(e.win)
<1> DEFINE ends == \A e \in live : StillTracked(e.win) \/ WindowOver(e.win)
<1>1. UNCHANGED live => ends  BY DEF StillTracked
<1>2. CASE UNCHANGED feedVars
  BY <1>1, <1>2 DEF feedVars, LaneInv, DelistedAreOver, WindowOver, TrackedWindows
<1>3. CASE LaneClock  BY <1>1, <1>3, ClosureClockStep DEF LaneClock
<1>4. ASSUME NEW w \in ClosureWindow, SetUp(w) \/ PickUp(w) \/ Cancel(w) PROVE LaneInv' /\ ends
  <2>1. world.code[w] \in RadioCodes  BY DEF LaneInv, LaneWorld
  <2>2. CASE SetUp(w)
    <3>1. [world.code[w] EXCEPT !.set = TRUE] \in RadioCodes  BY <2>1 DEF RadioCodes
    <3> QED  BY <1>1, <2>2, <3>1, RadioStep DEF SetUp, Radio
  <2>3. CASE PickUp(w)
    <3>1. [world.code[w] EXCEPT !.picked = TRUE] \in RadioCodes /\ [world.code[w] EXCEPT !.picked = TRUE].picked
      BY <2>1 DEF RadioCodes
    <3> QED  BY <1>1, <2>3, <3>1, RadioStep DEF PickUp, Radio
  <2>4. CASE Cancel(w)
    <3>1. [world.code[w] EXCEPT !.cancelled = TRUE] \in RadioCodes /\ [world.code[w] EXCEPT !.cancelled = TRUE].cancelled
      BY <2>1 DEF RadioCodes
    <3> QED  BY <1>1, <2>4, <3>1, RadioStep DEF Cancel, Radio
  <2> QED  BY <1>4, <2>2, <2>3, <2>4
<1>5. ASSUME NEW w \in ClosureWindow, Delist(w) PROVE LaneInv' /\ ends
  BY <1>1, <1>5, DelistStep DEF Delist
<1>6. ASSUME NEW file \in files, NEW garbled \in garblings, LaneTick(file, garbled) PROVE LaneInv' /\ ends
  BY <1>6, LaneTickStep
<1> QED  BY <1>2, <1>3, <1>4, <1>5, <1>6 DEF LaneNext

\* A tracked window stays tracked until its crew, its end or the grace after it says
\* that it is over, whatever file is down, empty or frozen and whichever row is
\* garbled, for any windows in a store without events of the KML era
\* (LaneClosureNormalizer.Poll).
THEOREM LaneTheorem == ASSUME NEW CONSTANT files, NEW CONSTANT garblings PROVE LaneSpec(files, garblings) => ClosureEndsWhenOver
<1> DEFINE ends == part = "lanes" => \A e \in live : StillTracked(e.win) \/ WindowOver(e.win)
<1>1. LaneInv /\ [LaneNext(files, garblings)]_feedVars => LaneInv'  BY LaneStep
<1>2. LaneInv /\ [LaneNext(files, garblings)]_feedVars => [ends]_feedVars  BY LaneStep
<1> QED  BY <1>1, <1>2, LaneInitInv, PTL DEF LaneSpec, ClosureEndsWhenOver

(***************************************************************************)
(* May I burn today: for any lines, reporters, callers and clock, with     *)
(* pushes that are lost, repeated and overtaken, and restarts.             *)
(***************************************************************************)
\* A world is its fields.
BurnFields ==
    world = [now |-> world.now, says |-> world.says, calfire |-> world.calfire, calHeard |-> world.calHeard,
             bodies |-> world.bodies, staged |-> world.staged, newest |-> world.newest, reps |-> world.reps]
BurnTypes ==
    /\ part = "burn" /\ BurnFields /\ world.now \in Int
    /\ world.calfire \in {"permit-required", "suspended"}
    /\ \A b \in world.bodies : \A r \in b.readings : r.at \in Int

\* What is staged of a line is the newest reading of it.
StagedIsNewest ==
    \A l \in BurnLine :
        /\ world.staged[l] = world.newest[l]
        /\ world.staged[l].status \in BurnDays \cup {"none"} /\ world.staged[l].at \in Int

\* The county has one event, which has what CAL FIRE was last heard to say.
OneAnswer ==
    \/ live = {} /\ world.calHeard = "unknown"
    \/ \E e : live = {e} /\ e.id = <<"burn", 1>> /\ e.calfire = world.calHeard

BurnInv == BurnTypes /\ StagedIsNewest /\ OneAnswer

LEMMA BurnInitInv == part = "burn" /\ BurnInit => BurnInv
<1>1. SUFFICES ASSUME part = "burn", BurnInit PROVE BurnInv  OBVIOUS
<1> DEFINE says == [l \in BurnLine |-> "green"]
           unread == [l \in BurnLine |-> Unread]
           reps == [id \in ReporterId |-> NewReporter(ReporterOf(id))]
<1>2. world = [now |-> NotBefore, says |-> says, calfire |-> "permit-required", calHeard |-> "unknown", bodies |-> {},
               staged |-> unread, newest |-> unread, reps |-> reps] /\ live = {}
  BY <1>1 DEF BurnInit
<1>3. \A l \in BurnLine : unread[l] = Unread  OBVIOUS
<1>4. Unread.status = "none" /\ Unread.at = 0  BY DEF Unread
<1> HIDE DEF says, unread, reps
<1>5. /\ BurnFields /\ world.now = NotBefore /\ world.calfire = "permit-required" /\ world.calHeard = "unknown"
      /\ world.bodies = {} /\ world.staged = unread /\ world.newest = unread
  BY <1>2 DEF BurnFields
<1> QED  BY <1>1, <1>2, <1>3, <1>4, <1>5, BurnAssumption DEF BurnInv, BurnTypes, StagedIsNewest, OneAnswer

\* A step that stages nothing and answers nothing.
LEMMA QuietBurnStep ==
    ASSUME BurnInv, BurnFields', UNCHANGED <<part, live>>, world'.now \in Int,
           world'.calfire \in {"permit-required", "suspended"}, world'.calHeard = world.calHeard,
           world'.staged = world.staged, world'.newest = world.newest,
           \A b \in world'.bodies : b \in world.bodies \/ \A r \in b.readings : r.at \in Int
    PROVE  BurnInv'
<1>1. BurnTypes'  BY DEF BurnInv, BurnTypes
<1>2. StagedIsNewest'  BY DEF BurnInv, StagedIsNewest
<1>3. OneAnswer'  BY DEF BurnInv, OneAnswer
<1> QED  BY <1>1, <1>2, <1>3 DEF BurnInv

LEMMA BurnClockStep ==
    ASSUME BurnInv, BurnClock
    PROVE  BurnInv'
<1>1. PICK n \in Int : n = world.now + 1  BY DEF BurnInv, BurnTypes
<1>2. world' = [world EXCEPT !.now = n] /\ UNCHANGED <<part, live>>  BY <1>1 DEF BurnClock
<1> QED  BY <1>1, <1>2, QuietBurnStep DEF BurnInv, BurnTypes, BurnFields

LEMMA RecordingStep ==
    ASSUME BurnInv, NEW l, NEW s, ChangeRecording(l, s)
    PROVE  BurnInv'
<1>1. PICK says : says = [world.says EXCEPT ![l] = s]  OBVIOUS
<1>2. world' = [world EXCEPT !.says = says] /\ UNCHANGED <<part, live>>  BY <1>1 DEF ChangeRecording
<1> QED  BY <1>2, QuietBurnStep DEF BurnInv, BurnTypes, BurnFields

LEMMA PageStep ==
    ASSUME BurnInv, NEW s \in {"permit-required", "suspended"}, ChangePage(s)
    PROVE  BurnInv'
<1>1. world' = [world EXCEPT !.calfire = s] /\ UNCHANGED <<part, live>>  BY DEF ChangePage
<1> QED  BY <1>1, QuietBurnStep DEF BurnInv, BurnTypes, BurnFields

LEMMA RestartStep ==
    ASSUME BurnInv, BurnRestart
    PROVE  BurnInv'
<1>1. PICK reps : reps = RestoreBurnHealth  OBVIOUS
<1>2. world' = [world EXCEPT !.reps = reps] /\ UNCHANGED <<part, live>>  BY <1>1 DEF BurnRestart
<1> QED  BY <1>2, QuietBurnStep DEF BurnInv, BurnTypes, BurnFields

LEMMA RunStep ==
    ASSUME BurnInv, NEW lines, NEW token, NEW heard, WorkerRun(lines, token, heard)
    PROVE  BurnInv'
<1>1. PICK b : b = [token |-> token, readings |-> {ReadLine(l) : l \in heard}]  OBVIOUS
<1>2. world' = [world EXCEPT !.bodies = world.bodies \cup {b}] /\ UNCHANGED <<part, live>>
  BY <1>1 DEF WorkerRun
<1>3. \A r \in b.readings : r.at \in Int
  <2>1. \A l : ReadLine(l).at = world.now  BY DEF ReadLine
  <2>2. b.readings = {ReadLine(l) : l \in heard}  BY <1>1
  <2> QED  BY <2>1, <2>2 DEF BurnInv, BurnTypes
<1> QED  BY <1>2, <1>3, QuietBurnStep DEF BurnInv, BurnTypes, BurnFields

LEMMA LoseStep ==
    ASSUME BurnInv, NEW body, LoseBody(body)
    PROVE  BurnInv'
<1>1. world' = [world EXCEPT !.bodies = world.bodies \ {body}] /\ UNCHANGED <<part, live>>  BY DEF LoseBody
<1> QED  BY <1>1, QuietBurnStep DEF BurnInv, BurnTypes, BurnFields

LEMMA DeliverStep ==
    ASSUME BurnInv, NEW body \in world.bodies, NEW answered \in BOOLEAN, DeliverBody(body, answered)
    PROVE  BurnInv' /\ UNCHANGED live
<1> DEFINE who == CHOOSE i \in Authenticate(body.token) : TRUE
<1> DEFINE accepted == ServeStream(TRUE, body.token, "burn.line", FALSE, world.reps, world.now) = 202
           w == IF accepted THEN IngestBurn(body, who) ELSE world
<1>0. world' = [w EXCEPT !.bodies = IF answered THEN w.bodies \ {body} ELSE w.bodies]  BY DEF DeliverBody
<1> HIDE DEF accepted
<1>1. w = world \/ w = IngestBurn(body, who)  OBVIOUS
<1> HIDE DEF w
<1> DEFINE usable == UsableReadings(body)
           of(l) == {r \in usable : r.line = l}
           given(l) == StagedReading(CHOOSE r \in of(l) : TRUE, who)
           staged == [l \in BurnLine |-> IF of(l) = {} THEN world.staged[l] ELSE PutBurnReading(world.staged[l], given(l))]
           newest == [l \in BurnLine |-> IF of(l) # {} /\ given(l).at >= world.newest[l].at THEN given(l) ELSE world.newest[l]]
<1>2. \/ w = world
      \/ \E reps : w = [world EXCEPT !.reps = reps]
      \/ \E reps : w = [world EXCEPT !.staged = staged, !.newest = newest, !.reps = reps]
  <2>1. CASE w = IngestBurn(body, who) /\ usable = {}
    <3>1. w = [world EXCEPT !.reps = [world.reps EXCEPT ![who] = RecordFailure(@)]]  BY <2>1 DEF IngestBurn
    <3> QED  BY <3>1
  <2>2. CASE w = IngestBurn(body, who) /\ usable # {}
    <3>1. w = [world EXCEPT !.staged = staged, !.newest = newest, !.reps = [world.reps EXCEPT ![who] = RecordAccepted(@)]]
      BY <2>2 DEF IngestBurn
    <3> QED  BY <3>1
  <2> QED  BY <1>1, <2>1, <2>2
<1>3. ASSUME NEW l \in BurnLine
      PROVE  staged[l] = newest[l] /\ staged[l].status \in BurnDays \cup {"none"} /\ staged[l].at \in Int
  <2>1. world.staged[l] = world.newest[l] /\ world.staged[l].status \in BurnDays \cup {"none"} /\ world.staged[l].at \in Int
    BY DEF BurnInv, StagedIsNewest
  <2>2. CASE of(l) = {}  BY <2>1, <2>2
  <2>3. CASE of(l) # {}
    <3>1. PICK r \in of(l) : r = CHOOSE x \in of(l) : TRUE  BY <2>3
    <3>2. r.status \in BurnDays /\ r.at \in Int  BY <3>1 DEF UsableReadings, BurnInv, BurnTypes
    <3>3. given(l) = StagedReading(r, who)  BY <3>1
    <3>4. given(l).status = r.status /\ given(l).at = ClampPast(r.at, world.now)  BY <3>3 DEF StagedReading
    <3>5. given(l).at \in Int  BY <3>2, <3>4 DEF ClampPast, BurnInv, BurnTypes
    <3>6. staged[l] = PutBurnReading(world.staged[l], given(l))  BY <2>3
    <3>7. newest[l] = IF given(l).at >= world.newest[l].at THEN given(l) ELSE world.newest[l]  BY <2>3
    <3> HIDE DEF staged, newest, given
    <3> QED  BY <2>1, <3>2, <3>4, <3>5, <3>6, <3>7 DEF PutBurnReading
  <2> QED  BY <2>2, <2>3
<1> HIDE DEF staged, newest, usable, given
<1>4. /\ w = [now |-> world.now, says |-> world.says, calfire |-> world.calfire, calHeard |-> world.calHeard,
              bodies |-> world.bodies, staged |-> w.staged, newest |-> w.newest, reps |-> w.reps]
      /\ \/ w.staged = world.staged /\ w.newest = world.newest
         \/ w.staged = staged /\ w.newest = newest
  <2>1. CASE w = world  BY <2>1 DEF BurnInv, BurnTypes, BurnFields
  <2>2. CASE \E reps : w = [world EXCEPT !.reps = reps]
    <3>1. PICK reps : w = [world EXCEPT !.reps = reps]  BY <2>2
    <3> QED  BY <3>1 DEF BurnInv, BurnTypes, BurnFields
  <2>3. CASE \E reps : w = [world EXCEPT !.staged = staged, !.newest = newest, !.reps = reps]
    <3>1. PICK reps : w = [world EXCEPT !.staged = staged, !.newest = newest, !.reps = reps]  BY <2>3
    <3> QED  BY <3>1 DEF BurnInv, BurnTypes, BurnFields
  <2> QED  BY <1>2, <2>1, <2>2, <2>3
<1>5. /\ world' = [w EXCEPT !.bodies = world'.bodies]
      /\ world'.bodies \subseteq world.bodies
  <2>1. w.bodies = world.bodies  BY <1>4
  <2>2. CASE answered  BY <1>0, <1>4, <2>1, <2>2
  <2>3. CASE ~answered  BY <1>0, <1>4, <2>1, <2>3
  <2> QED  BY <2>2, <2>3
<1>6. /\ BurnFields' /\ world'.now = world.now /\ world'.calfire = world.calfire /\ world'.calHeard = world.calHeard
      /\ world'.staged = w.staged /\ world'.newest = w.newest
  BY <1>4, <1>5 DEF BurnFields
<1>7. UNCHANGED <<part, live>>  BY DEF DeliverBody
<1>8. BurnTypes'  BY <1>5, <1>6, <1>7 DEF BurnInv, BurnTypes
<1>9. StagedIsNewest'  BY <1>3, <1>4, <1>6 DEF BurnInv, StagedIsNewest
<1>10. OneAnswer'  BY <1>6, <1>7 DEF BurnInv, OneAnswer
<1> QED  BY <1>7, <1>8, <1>9, <1>10 DEF BurnInv

\* What AllowedIsBacked says of a step.
Backed ==
    \A e \in live' : e.permission = "ALLOWED" =>
       /\ \A l \in DialedLine : world.newest[l].status = "green" /\ world.now - world.newest[l].at <= BurnDayStale
       /\ \A l \in BurnLine : world.newest[l].status = "red" => world.now - world.newest[l].at > BurnDayStale
       /\ world'.calHeard \notin {"suspended", "unknown"}

LEMMA MergedYes ==
    ASSUME BurnInv, BurnDayStale > 0, MergeBurnDays(UsableLines) = "YES"
    PROVE  /\ \A l \in DialedLine : world.newest[l].status = "green" /\ world.now - world.newest[l].at <= BurnDayStale
           /\ \A l \in BurnLine : world.newest[l].status = "red" => world.now - world.newest[l].at > BurnDayStale
<1> DEFINE said == {world.staged[l].status : l \in UsableLines}
<1>1. "red" \notin said /\ "orange" \notin said /\ DialedLine \subseteq UsableLines  BY DEF MergeBurnDays
<1>2. \A l \in UsableLines : world.staged[l].status \in said  OBVIOUS
<1> HIDE DEF said
<1>3. \A l \in BurnLine : /\ world.staged[l] = world.newest[l] /\ world.staged[l].status \in BurnDays \cup {"none"}
                          /\ world.now - world.staged[l].at \in Int
  BY DEF BurnInv, BurnTypes, StagedIsNewest
<1>4. \A l \in BurnLine : l \in UsableLines <=> /\ world.staged[l].status # "none"
                                               /\ world.now - world.staged[l].at <= BurnDayStale
  BY BurnAssumption DEF UsableLines, FreshReading
<1>5. UsableLines \subseteq BurnLine  BY DEF UsableLines
<1>6. ASSUME NEW l \in DialedLine PROVE world.newest[l].status = "green" /\ world.now - world.newest[l].at <= BurnDayStale
  BY <1>1, <1>2, <1>3, <1>4, <1>5 DEF BurnDays
<1>7. ASSUME NEW l \in BurnLine, world.newest[l].status = "red" PROVE world.now - world.newest[l].at > BurnDayStale
  BY <1>1, <1>2, <1>3, <1>4, <1>7, BurnAssumption
<1> QED  BY <1>6, <1>7

LEMMA BurnTickStep ==
    ASSUME BurnInv, NEW reply \in {"ok", "unreadable", "error"}, BurnTick(reply)
    PROVE  BurnInv' /\ (BurnDayStale > 0 => UNCHANGED live \/ Backed)
<1>1. PICK c : c = IF reply = "ok" /\ ~result'.hard THEN world.calfire ELSE world.calHeard  OBVIOUS
<1>2. world' = [world EXCEPT !.calHeard = c] /\ part' = part  BY <1>1 DEF BurnTick
<1>3. /\ BurnFields' /\ world'.now = world.now /\ world'.calfire = world.calfire /\ world'.calHeard = c
      /\ world'.bodies = world.bodies /\ world'.staged = world.staged /\ world'.newest = world.newest
  BY <1>2 DEF BurnFields, BurnInv, BurnTypes
<1>4. BurnTypes' /\ StagedIsNewest'
  BY <1>2, <1>3 DEF BurnInv, BurnTypes, StagedIsNewest
<1>5. CASE PollBurn(reply) = PollError
  <2>1. PollError.hard  BY DEF PollError
  <2>2. live' = live /\ result'.hard  BY <1>5, <2>1 DEF BurnTick, Apply, Tracked
  <2>3. OneAnswer'  BY <1>1, <1>3, <2>2 DEF OneAnswer, BurnInv
  <2> QED  BY <1>4, <2>2, <2>3 DEF BurnInv
<1>6. CASE PollBurn(reply) # PollError
  <2> DEFINE e == BuildBurnEvent(reply)
  <2>1. PICK failed : PollBurn(reply) = PollResult({e}, failed, {}, {})  BY <1>6 DEF PollBurn
  <2>2. ~result'.hard /\ live' = {e} \cup {x \in live : x.id \notin Ids({e}) /\ (x.source \in failed \/ x.source \in ExpireSource)}
    BY <2>1 DEF BurnTick, Apply, Tracked, PollResult
  <2>3. e.id = <<"burn", 1>>  BY DEF BuildBurnEvent
  <2>4. Ids({e}) = {<<"burn", 1>>}
    <3> HIDE DEF e
    <3> QED  BY <2>3 DEF Ids
  <2>5. \A x \in live : x.id = <<"burn", 1>>  BY DEF BurnInv, OneAnswer
  <2>6. live' = {e}
    <3> HIDE DEF e
    <3> QED  BY <2>2, <2>4, <2>5
  <2> DEFINE before == IF live = {} THEN "unknown" ELSE (CHOOSE x \in live : TRUE).calfire
             said == GetBurnStatus(reply)
             heard == IF said # "unknown" THEN said ELSE before
  <2>7. e.calfire = heard /\ e.permission = DerivePermission(MergeBurnDays(UsableLines), heard)
    BY DEF BuildBurnEvent
  <2>8. before = world.calHeard
    <3>1. CASE live = {}  BY <3>1 DEF BurnInv, OneAnswer
    <3>2. CASE live # {}
      <4>1. PICK x : live = {x} /\ x.calfire = world.calHeard  BY <3>2 DEF BurnInv, OneAnswer
      <4>2. (CHOOSE y \in live : TRUE) = x  BY <4>1
      <4> QED  BY <3>2, <4>1, <4>2
    <3> QED  BY <3>1, <3>2
  <2>9. heard = c
    BY <1>1, <2>2, <2>8 DEF GetBurnStatus, BurnInv, BurnTypes
  <2> HIDE DEF e, heard
  <2>10. OneAnswer'  BY <1>3, <2>3, <2>6, <2>7, <2>9 DEF OneAnswer
  <2>11. BurnDayStale > 0 => Backed
    <3>1. SUFFICES ASSUME BurnDayStale > 0, e.permission = "ALLOWED"
                   PROVE  /\ \A l \in DialedLine : world.newest[l].status = "green"
                                                   /\ world.now - world.newest[l].at <= BurnDayStale
                          /\ \A l \in BurnLine : world.newest[l].status = "red"
                                                   => world.now - world.newest[l].at > BurnDayStale
                          /\ world'.calHeard \notin {"suspended", "unknown"}
      BY <2>6 DEF Backed
    <3>2. MergeBurnDays(UsableLines) = "YES" /\ heard \in {"permit-required", "no-permit-required"}
      BY <2>7, <3>1 DEF DerivePermission
    <3> QED  BY <1>3, <2>9, <3>1, <3>2, MergedYes
  <2> QED  BY <1>4, <2>10, <2>11 DEF BurnInv
<1> QED  BY <1>5, <1>6

LEMMA BurnStep ==
    ASSUME BurnInv, NEW changing, [BurnNext(changing)]_feedVars
    PROVE  BurnInv' /\ (BurnDayStale > 0 => UNCHANGED live \/ Backed)
<1>1. CASE UNCHANGED feedVars
  BY <1>1 DEF feedVars, BurnInv, BurnTypes, BurnFields, StagedIsNewest, OneAnswer
<1>2. CASE BurnClock  BY <1>2, BurnClockStep DEF BurnClock
<1>3. CASE BurnRestart  BY <1>3, RestartStep DEF BurnRestart
<1>4. ASSUME NEW l, NEW s, ChangeRecording(l, s) PROVE BurnInv' /\ UNCHANGED live
  BY <1>4, RecordingStep DEF ChangeRecording
<1>5. ASSUME NEW s \in {"permit-required", "suspended"}, ChangePage(s) PROVE BurnInv' /\ UNCHANGED live
  BY <1>5, PageStep DEF ChangePage
<1>6. ASSUME NEW apiUp, NEW token, NEW heard, ScheduledRun(apiUp, token, heard) PROVE BurnInv' /\ UNCHANGED live
  BY <1>6, RunStep DEF ScheduledRun, WorkerRun
<1>7. ASSUME NEW l, NEW token, ManualRun(l, token) PROVE BurnInv' /\ UNCHANGED live
  BY <1>7, RunStep DEF ManualRun, WorkerRun
<1>8. ASSUME NEW body \in world.bodies, LoseBody(body) PROVE BurnInv' /\ UNCHANGED live
  BY <1>8, LoseStep DEF LoseBody
<1>9. ASSUME NEW body \in world.bodies, NEW answered \in BOOLEAN, DeliverBody(body, answered) PROVE BurnInv' /\ UNCHANGED live
  BY <1>9, DeliverStep
<1>10. ASSUME NEW reply \in {"ok", "unreadable", "error"}, BurnTick(reply) PROVE BurnInv' /\ (BurnDayStale > 0 => UNCHANGED live \/ Backed)
  BY <1>10, BurnTickStep
<1> QED  BY <1>1, <1>2, <1>3, <1>4, <1>5, <1>6, <1>7, <1>8, <1>9, <1>10 DEF BurnNext

\* A retry, a duplicate or a push that was overtaken never moves a line back to an
\* older reading, for any lines and callers (PutBurnReading).
THEOREM NewestTheorem == ASSUME NEW CONSTANT changing PROVE BurnSpec(changing) => []NewestReadingStaged
<1>1. BurnInv /\ [BurnNext(changing)]_feedVars => BurnInv'  BY BurnStep
<1>2. BurnInv => NewestReadingStaged  BY DEF BurnInv, StagedIsNewest, NewestReadingStaged
<1> QED  BY <1>1, <1>2, BurnInitInv, PTL DEF BurnSpec

\* A poll answers ALLOWED only when each dialed line was heard saying so within the
\* bound, no other line said no within it, and CAL FIRE was last heard not to have
\* suspended burning, for any lines and callers, wherever readings are bounded at all
\* (mergeBurnDays, derivePermission).
THEOREM AllowedTheorem == ASSUME BurnDayStale > 0, NEW CONSTANT changing PROVE BurnSpec(changing) => AllowedIsBacked
<1> DEFINE backed == part = "burn" /\ live' # live =>
         \A e \in live' : e.permission = "ALLOWED" =>
            /\ \A l \in DialedLine : world.newest[l].status = "green" /\ world.now - world.newest[l].at <= BurnDayStale
            /\ \A l \in BurnLine : world.newest[l].status = "red" => world.now - world.newest[l].at > BurnDayStale
            /\ world'.calHeard \notin {"suspended", "unknown"}
<1>1. BurnInv /\ [BurnNext(changing)]_feedVars => BurnInv'  BY BurnStep
<1>2. BurnInv /\ [BurnNext(changing)]_feedVars => [backed]_feedVars  BY BurnStep DEF Backed
<1> QED  BY <1>1, <1>2, BurnInitInv, PTL DEF BurnSpec, AllowedIsBacked

(***************************************************************************)
(* Weather alerts, for any alerts, any interval and any timeout, while the *)
(* poller and a visitor fetch beside each other and overwrite each other's *)
(* list.                                                                   *)
(***************************************************************************)
AlertList == SUBSET {a \in Alert : a.zones \cap Zones # {}}
AlertWorld ==
    [now : Nat, inForce : SUBSET Alert, cache : [list : AlertList, at : Int],
     poller : [list : AlertList, began : Int], visitor : [list : AlertList, began : Int],
     lacked : [Alert -> Int], listed : [Alert -> Int]]
AlertTypes == part = "weather" /\ world \in AlertWorld

\* The history of each alert is kept up to the moment.
HistoryIsKept ==
    /\ \A a \in world.inForce : world.listed[a] = world.now
    /\ \A a \in Alert \ world.inForce : world.lacked[a] = world.now

\* A list tells what NWS had in force at some moment since `since`.
TrueSince(list, since) ==
    /\ \A a \in list : since <= world.listed[a]
    /\ \A a \in Alert : a.zones \cap Zones # {} /\ a \notin list => since <= world.lacked[a]

FetchIsRecent(f) == f # NoFetch => f.began <= world.now /\ world.now <= f.began + FetchTime /\ TrueSince(f.list, f.began)

CacheIsTrue == world.cache # NoList => world.cache.at <= world.now /\ TrueSince(world.cache.list, world.cache.at - FetchTime)

\* What is tracked is an alert of the configured zones.
TrackedAlerts == \A e \in live : e.source = "nws" /\ \E a \in Alert : e.id = <<"wx", a.id>> /\ a.zones \cap Zones # {}

WeatherInv ==
    /\ AlertTypes /\ HistoryIsKept /\ TrackedAlerts
    /\ FetchIsRecent(world.poller) /\ FetchIsRecent(world.visitor)
    /\ CacheIsTrue

LEMMA WeatherInitInv == part = "weather" /\ WeatherInit => WeatherInv
BY DEF WeatherInit, WeatherInv, AlertTypes, AlertWorld, AlertList, HistoryIsKept, TrackedAlerts, FetchIsRecent, CacheIsTrue,
       NoFetch, NoList

LEMMA ClockStep ==
    ASSUME WeatherInv, AlertClock
    PROVE  WeatherInv'
<1>0. \A a \in Alert : world.lacked[a] \in Int /\ world.listed[a] \in Int  BY DEF WeatherInv, AlertTypes, AlertWorld
<1>1. PICK n \in Nat : n = world.now + 1  BY DEF WeatherInv, AlertTypes, AlertWorld
<1>2. PICK lacked \in [Alert -> Int] :
        lacked = [a \in Alert |-> IF a \in world.inForce THEN world.lacked[a] ELSE n]
  <2> DEFINE t(a) == IF a \in world.inForce THEN world.lacked[a] ELSE n
  <2>1. \A a \in Alert : t(a) \in Int  BY <1>0, <1>1
  <2> HIDE DEF t
  <2>2. [a \in Alert |-> t(a)] \in [Alert -> Int]  BY <2>1
  <2> QED  BY <2>2 DEF t
<1>3. PICK listed \in [Alert -> Int] :
        listed = [a \in Alert |-> IF a \in world.inForce THEN n ELSE world.listed[a]]
  <2> DEFINE t(a) == IF a \in world.inForce THEN n ELSE world.listed[a]
  <2>1. \A a \in Alert : t(a) \in Int  BY <1>0, <1>1
  <2> HIDE DEF t
  <2>2. [a \in Alert |-> t(a)] \in [Alert -> Int]  BY <2>1
  <2> QED  BY <2>2 DEF t
<1>4. world' = [world EXCEPT !.now = n, !.lacked = lacked, !.listed = listed]
  BY <1>1, <1>2, <1>3 DEF AlertClock, WeatherInv, AlertTypes, AlertWorld
<1>5. /\ world' \in AlertWorld /\ world'.now = n /\ world'.lacked = lacked /\ world'.listed = listed
      /\ world'.inForce = world.inForce /\ world'.cache = world.cache
      /\ world'.poller = world.poller /\ world'.visitor = world.visitor
  BY <1>4 DEF WeatherInv, AlertTypes, AlertWorld
<1>6. AlertTypes' /\ HistoryIsKept' /\ TrackedAlerts'
  BY <1>2, <1>3, <1>5 DEF WeatherInv, AlertTypes, AlertWorld, HistoryIsKept, TrackedAlerts, AlertClock
<1>7. \A a \in Alert : world.lacked[a] <= lacked[a] /\ world.listed[a] <= listed[a]
  BY <1>1, <1>2, <1>3 DEF WeatherInv, AlertTypes, AlertWorld, HistoryIsKept
<1>8. ASSUME NEW list \in AlertList, NEW since \in Int, TrueSince(list, since) PROVE TrueSince(list, since)'
  BY <1>5, <1>7, <1>8 DEF TrueSince, AlertList, WeatherInv, AlertTypes, AlertWorld
<1>9. ASSUME NEW f \in [list : AlertList, began : Int], f # NoFetch, FetchIsRecent(f), world.now < f.began + FetchTime
      PROVE  n <= f.began + FetchTime /\ f.began <= n /\ TrueSince(f.list, f.began)'
  BY <1>1, <1>8, <1>9, AlertAssumption DEF FetchIsRecent, WeatherInv, AlertTypes, AlertWorld
<1>10. /\ world.poller # NoFetch => world.now < world.poller.began + FetchTime
       /\ world.visitor # NoFetch => world.now < world.visitor.began + FetchTime
  BY DEF AlertClock
<1>11. FetchIsRecent(world.poller)' /\ FetchIsRecent(world.visitor)'
  BY <1>5, <1>9, <1>10 DEF FetchIsRecent, WeatherInv, AlertTypes, AlertWorld
<1>12. CacheIsTrue'
  BY <1>1, <1>5, <1>8, AlertAssumption DEF CacheIsTrue, WeatherInv, AlertTypes, AlertWorld
<1> QED  BY <1>6, <1>11, <1>12 DEF WeatherInv

LEMMA IssueStep ==
    ASSUME WeatherInv, NEW a \in Alert, IssueOrLift(a)
    PROVE  WeatherInv'
<1>1. /\ world' \in AlertWorld /\ world'.now = world.now /\ world'.cache = world.cache
      /\ world'.poller = world.poller /\ world'.visitor = world.visitor
      /\ world'.inForce = IF a \in world.inForce THEN world.inForce \ {a} ELSE world.inForce \cup {a}
      /\ world'.lacked = IF a \in world.inForce THEN [world.lacked EXCEPT ![a] = world.now] ELSE world.lacked
      /\ world'.listed = IF a \in world.inForce THEN world.listed ELSE [world.listed EXCEPT ![a] = world.now]
  <2>1. CASE a \in world.inForce
    <3>1. PICK lacked \in [Alert -> Int] : lacked = [world.lacked EXCEPT ![a] = world.now]
      <4>1. world.now \in Int /\ world.lacked \in [Alert -> Int]  BY DEF WeatherInv, AlertTypes, AlertWorld
      <4> QED  BY <4>1
    <3>2. world' = [world EXCEPT !.inForce = world.inForce \ {a}, !.lacked = lacked]
      BY <2>1, <3>1 DEF IssueOrLift, WeatherInv, AlertTypes, AlertWorld
    <3> QED  BY <2>1, <3>1, <3>2 DEF WeatherInv, AlertTypes, AlertWorld
  <2>2. CASE a \notin world.inForce
    <3>1. PICK listed \in [Alert -> Int] : listed = [world.listed EXCEPT ![a] = world.now]
      <4>1. world.now \in Int /\ world.listed \in [Alert -> Int]  BY DEF WeatherInv, AlertTypes, AlertWorld
      <4> QED  BY <4>1
    <3>2. world' = [world EXCEPT !.inForce = world.inForce \cup {a}, !.listed = listed]
      BY <2>2, <3>1 DEF IssueOrLift, WeatherInv, AlertTypes, AlertWorld
    <3> QED  BY <2>2, <3>1, <3>2 DEF WeatherInv, AlertTypes, AlertWorld
  <2> QED  BY <2>1, <2>2
<1>2. \A b \in Alert : /\ world.lacked[b] \in Int /\ world.listed[b] \in Int
                       /\ world'.lacked[b] = IF a \in world.inForce /\ b = a THEN world.now ELSE world.lacked[b]
                       /\ world'.listed[b] = IF a \notin world.inForce /\ b = a THEN world.now ELSE world.listed[b]
  BY <1>1 DEF WeatherInv, AlertTypes, AlertWorld
<1>3. world.now \in Int  BY DEF WeatherInv, AlertTypes, AlertWorld
<1>4. AlertTypes' /\ HistoryIsKept' /\ TrackedAlerts'
  BY <1>1, <1>2, <1>3 DEF WeatherInv, AlertTypes, AlertWorld, HistoryIsKept, TrackedAlerts, IssueOrLift
<1>5. ASSUME NEW list \in AlertList, NEW since \in Int, since <= world.now, TrueSince(list, since) PROVE TrueSince(list, since)'
  BY <1>2, <1>3, <1>5 DEF TrueSince, AlertList
<1>6. ASSUME NEW f \in [list : AlertList, began : Int], FetchIsRecent(f)
      PROVE  f # NoFetch => f.began <= world.now /\ world.now <= f.began + FetchTime /\ TrueSince(f.list, f.began)'
  BY <1>5, <1>6 DEF FetchIsRecent
<1>7. FetchIsRecent(world.poller)' /\ FetchIsRecent(world.visitor)'
  BY <1>1, <1>6 DEF FetchIsRecent, WeatherInv, AlertTypes, AlertWorld
<1>8. CacheIsTrue'
  BY <1>1, <1>3, <1>5, AlertAssumption DEF CacheIsTrue, WeatherInv, AlertTypes, AlertWorld
<1> QED  BY <1>4, <1>7, <1>8 DEF WeatherInv

\* Steps that leave the offices and the clock alone keep what is true of a list.
LEMMA SameOffices ==
    ASSUME WeatherInv, world' \in AlertWorld, world'.now = world.now, world'.inForce = world.inForce,
           world'.lacked = world.lacked, world'.listed = world.listed
    PROVE  HistoryIsKept' /\ \A list, since : TrueSince(list, since) => TrueSince(list, since)'
BY DEF WeatherInv, HistoryIsKept, TrueSince

LEMMA BeginStep ==
    ASSUME WeatherInv, NEW who \in {"poller", "visitor"}, BeginFetch(who)
    PROVE  WeatherInv'
<1>1. PICK f \in [list : AlertList, began : Int] : f = [list |-> GetActiveZoneAlerts, began |-> world.now]
  <2>1. world.now \in Int /\ world.inForce \subseteq Alert  BY DEF WeatherInv, AlertTypes, AlertWorld
  <2>2. GetActiveZoneAlerts \in AlertList  BY <2>1 DEF GetActiveZoneAlerts, AlertList
  <2> QED  BY <2>1, <2>2
<1>2. /\ world' \in AlertWorld /\ world'.now = world.now /\ world'.inForce = world.inForce
      /\ world'.lacked = world.lacked /\ world'.listed = world.listed /\ world'.cache = world.cache
      /\ world'.poller \in {world.poller, f} /\ world'.visitor \in {world.visitor, f}
  <2>1. world' = [world EXCEPT ![who] = f]  BY <1>1 DEF BeginFetch
  <2>2. CASE who = "poller"
    <3>1. world' = [world EXCEPT !.poller = f]  BY <2>1, <2>2
    <3> QED  BY <3>1 DEF WeatherInv, AlertTypes, AlertWorld
  <2>3. CASE who = "visitor"
    <3>1. world' = [world EXCEPT !.visitor = f]  BY <2>1, <2>3
    <3> QED  BY <3>1 DEF WeatherInv, AlertTypes, AlertWorld
  <2> QED  BY <2>2, <2>3
<1>3. HistoryIsKept' /\ \A list, since : TrueSince(list, since) => TrueSince(list, since)'  BY <1>2, SameOffices
<1>4. TrueSince(f.list, f.began) /\ f.began = world.now
  BY <1>1 DEF TrueSince, GetActiveZoneAlerts, WeatherInv, AlertTypes, AlertWorld, HistoryIsKept
<1>5. FetchIsRecent(f)
  BY <1>4, AlertAssumption DEF FetchIsRecent, WeatherInv, AlertTypes, AlertWorld
<1>6. ASSUME NEW g, FetchIsRecent(g) PROVE g # NoFetch => g.began <= world'.now /\ world'.now <= g.began + FetchTime /\ TrueSince(g.list, g.began)'
  BY <1>2, <1>3, <1>6 DEF FetchIsRecent
<1>7. FetchIsRecent(world.poller)' /\ FetchIsRecent(world.visitor)'
  BY <1>2, <1>5, <1>6 DEF FetchIsRecent, WeatherInv
<1>8. CacheIsTrue'  BY <1>2, <1>3 DEF CacheIsTrue, WeatherInv
<1> QED  BY <1>2, <1>3, <1>7, <1>8 DEF WeatherInv, AlertTypes, TrackedAlerts, BeginFetch

\* An answer that comes back is cached with the time it came back.
LEMMA FetchedWorld ==
    ASSUME WeatherInv, NEW who \in {"poller", "visitor"}, NEW ok \in BOOLEAN, world[who] # NoFetch, world' = Fetched(who, ok)
    PROVE  /\ world' \in AlertWorld /\ HistoryIsKept'
           /\ FetchIsRecent(world.poller)' /\ FetchIsRecent(world.visitor)' /\ CacheIsTrue'
<1>1. PICK f \in [list : AlertList, began : Int] : f = world[who] /\ FetchIsRecent(f) /\ f # NoFetch
  BY DEF WeatherInv, AlertTypes, AlertWorld
<1>2. PICK c \in [list : AlertList, at : Int] : c = IF ok THEN [list |-> f.list, at |-> world.now] ELSE world.cache
  <2>1. world.now \in Int /\ world.cache \in [list : AlertList, at : Int]  BY DEF WeatherInv, AlertTypes, AlertWorld
  <2>2. [list |-> f.list, at |-> world.now] \in [list : AlertList, at : Int]  BY <1>1, <2>1
  <2> QED  BY <2>1, <2>2
<1>3. NoFetch \in [list : AlertList, began : Int]  BY DEF NoFetch, AlertList
<1>4. /\ world' \in AlertWorld /\ world'.now = world.now /\ world'.inForce = world.inForce
      /\ world'.lacked = world.lacked /\ world'.listed = world.listed /\ world'.cache = c
      /\ world'.poller \in {world.poller, NoFetch} /\ world'.visitor \in {world.visitor, NoFetch}
  <2>1. world' = [world EXCEPT ![who] = NoFetch, !.cache = c]
    <3>1. CASE who = "poller"  BY <1>1, <1>2, <3>1 DEF Fetched, WeatherInv, AlertTypes, AlertWorld
    <3>2. CASE who = "visitor"  BY <1>1, <1>2, <3>2 DEF Fetched, WeatherInv, AlertTypes, AlertWorld
    <3> QED  BY <3>1, <3>2
  <2>2. CASE who = "poller"
    <3>1. world' = [world EXCEPT !.poller = NoFetch, !.cache = c]  BY <2>1, <2>2
    <3> QED  BY <1>3, <3>1 DEF WeatherInv, AlertTypes, AlertWorld
  <2>3. CASE who = "visitor"
    <3>1. world' = [world EXCEPT !.visitor = NoFetch, !.cache = c]  BY <2>1, <2>3
    <3> QED  BY <1>3, <3>1 DEF WeatherInv, AlertTypes, AlertWorld
  <2> QED  BY <2>2, <2>3
<1>5. HistoryIsKept' /\ \A list, since : TrueSince(list, since) => TrueSince(list, since)'  BY <1>4, SameOffices
<1>6. FetchIsRecent(world.poller)' /\ FetchIsRecent(world.visitor)'
  BY <1>4, <1>5 DEF FetchIsRecent, WeatherInv
<1>7. ASSUME ok PROVE TrueSince(f.list, world.now - FetchTime)
  <2>1. world.now - FetchTime <= f.began /\ TrueSince(f.list, f.began)
    BY <1>1, AlertAssumption DEF FetchIsRecent, WeatherInv, AlertTypes, AlertWorld
  <2>2. \A a \in Alert : world.listed[a] \in Int /\ world.lacked[a] \in Int  BY DEF WeatherInv, AlertTypes, AlertWorld
  <2>3. world.now - FetchTime \in Int /\ f.began \in Int /\ f.list \subseteq Alert
    BY <1>1, AlertAssumption DEF AlertList, WeatherInv, AlertTypes, AlertWorld
  <2> QED  BY <2>1, <2>2, <2>3 DEF TrueSince
<1>8. CacheIsTrue'
  <2>1. CASE ok
    <3>1. c.list = f.list /\ c.at = world.now  BY <1>2, <2>1
    <3>2. TrueSince(c.list, c.at - FetchTime)'  BY <1>5, <1>7, <2>1, <3>1
    <3> QED  BY <1>4, <3>1, <3>2 DEF CacheIsTrue, WeatherInv, AlertTypes, AlertWorld
  <2>2. CASE ~ok  BY <1>2, <1>4, <1>5, <2>2 DEF CacheIsTrue, WeatherInv
  <2> QED  BY <2>1, <2>2
<1> QED  BY <1>4, <1>5, <1>6, <1>8

\* A poll of a list that is true since some moment ends and begins alerts by it.
LEMMA PolledAlerts ==
    ASSUME WeatherInv, NEW list \in AlertList, NEW err \in BOOLEAN, NEW since \in Int, TrueSince(list, since) \/ (list = {} /\ err),
           live' = Tracked(PollWeather(list, err), LapsedAlerts), NEW a \in Alert
    PROVE  /\ TrackedAlerts'
           /\ <<"wx", a.id>> \in Ended => ~err /\ since <= world.lacked[a]
           /\ <<"wx", a.id>> \in Ids(live') \ Ids(live) => since <= world.listed[a]
<1> DEFINE events == {BuildWeatherAlert(b) : b \in list}
<1>1. live' = live \/ (/\ events \subseteq live' /\ live' \subseteq events \cup live
                       /\ list # {} \/ ~err
                       /\ err => \A e \in live : e.source = "nws" /\ e.id \notin Ids(events) => e \in live')
  BY DEF Tracked, PollWeather, PollError, PollResult
<1>2. \A b \in list : BuildWeatherAlert(b).id = <<"wx", b.id>> /\ BuildWeatherAlert(b).source = "nws"
  BY DEF BuildWeatherAlert
<1>3. \A b \in list : b \in Alert /\ b.zones \cap Zones # {}  BY DEF AlertList
<1>4. CASE live' = live  BY <1>4 DEF Ended, WeatherInv, TrackedAlerts
<1>5. CASE live' # live
  <2>1. /\ events \subseteq live' /\ live' \subseteq events \cup live
        /\ err => \A e \in live : e.source = "nws" /\ e.id \notin Ids(events) => e \in live'
        /\ TrueSince(list, since)
    BY <1>1, <1>5
  <2>2. \A e \in events : e.source = "nws" /\ \E b \in list : e.id = <<"wx", b.id>>  BY <1>2
  <2>3. \A b \in list : <<"wx", b.id>> \in Ids(events)
    <3>1. ASSUME NEW b \in list PROVE <<"wx", b.id>> \in Ids(events)
      <4>1. BuildWeatherAlert(b) \in events  OBVIOUS
      <4> HIDE DEF events
      <4> QED  BY <1>2, <4>1 DEF Ids
    <3> QED  BY <3>1
  <2> HIDE DEF events
  <2>4. TrackedAlerts'
    <3>1. \A e \in live : e.source = "nws" /\ \E b \in Alert : e.id = <<"wx", b.id>> /\ b.zones \cap Zones # {}
      BY DEF WeatherInv, TrackedAlerts
    <3>2. \A e \in live' : e.source = "nws" /\ \E b \in Alert : e.id = <<"wx", b.id>> /\ b.zones \cap Zones # {}
      BY <1>3, <2>1, <2>2, <3>1
    <3> QED  BY <3>2 DEF TrackedAlerts, Zones
  <2>5. ASSUME <<"wx", a.id>> \in Ended PROVE ~err /\ since <= world.lacked[a]
    <3>1. PICK e \in live : e.id = <<"wx", a.id>> /\ e.id \notin Ids(live')  BY <2>5 DEF Ended, Ids
    <3>2. e.id \notin Ids(events) /\ e \notin live'  BY <2>1, <3>1 DEF Ids
    <3>3. e.source = "nws" /\ a.zones \cap Zones # {}
      BY <3>1, AlertAssumption DEF WeatherInv, TrackedAlerts
    <3>4. a \notin list  BY <2>3, <3>1, <3>2
    <3> QED  BY <2>1, <3>2, <3>3, <3>4 DEF TrueSince
  <2>6. ASSUME <<"wx", a.id>> \in Ids(live') \ Ids(live) PROVE since <= world.listed[a]
    <3>1. PICK e \in live' : e.id = <<"wx", a.id>> /\ e \notin live  BY <2>6 DEF Ids
    <3>2. e \in events  BY <2>1, <3>1
    <3>3. PICK b \in list : e.id = <<"wx", b.id>>  BY <2>2, <3>2
    <3>4. a \in list  BY <1>3, <3>1, <3>3, AlertAssumption
    <3> QED  BY <2>1, <3>4 DEF TrueSince
  <2> QED  BY <2>4, <2>5, <2>6
<1> QED  BY <1>4, <1>5

\* What AlertsFollowNws says of a step.
Follows ==
    \A a \in Alert :
        /\ <<"wx", a.id>> \in Ended => world.now - world.lacked[a] <= AlertTTL + FetchTime
        /\ <<"wx", a.id>> \in Ids(live') \ Ids(live) => world.now - world.listed[a] <= 2 * AlertTTL + FetchTime

LEMMA PollFollows ==
    ASSUME WeatherInv, Alert # {}, NEW list \in AlertList, NEW err \in BOOLEAN, NEW since \in Int,
           TrueSince(list, since) \/ (list = {} /\ err),
           live' = Tracked(PollWeather(list, err), LapsedAlerts),
           world.now - (2 * AlertTTL + FetchTime) <= since, ~err => world.now - (AlertTTL + FetchTime) <= since
    PROVE  TrackedAlerts' /\ Follows
<1>1. \A a \in Alert : /\ TrackedAlerts'
                       /\ <<"wx", a.id>> \in Ended => ~err /\ since <= world.lacked[a]
                       /\ <<"wx", a.id>> \in Ids(live') \ Ids(live) => since <= world.listed[a]
  BY PolledAlerts
<1>2. \A a \in Alert : world.listed[a] \in Int /\ world.lacked[a] \in Int  BY DEF WeatherInv, AlertTypes, AlertWorld
<1>3. world.now \in Int  BY DEF WeatherInv, AlertTypes, AlertWorld
<1>4. TrackedAlerts'  BY <1>1
<1>5. ASSUME NEW a \in Alert, <<"wx", a.id>> \in Ended PROVE world.now - world.lacked[a] <= AlertTTL + FetchTime
  BY <1>1, <1>2, <1>3, <1>5, AlertAssumption
<1>6. ASSUME NEW a \in Alert, <<"wx", a.id>> \in Ids(live') \ Ids(live)
      PROVE  world.now - world.listed[a] <= 2 * AlertTTL + FetchTime
  BY <1>1, <1>2, <1>3, <1>6, AlertAssumption
<1> QED  BY <1>4, <1>5, <1>6 DEF Follows

LEMMA CachedStep ==
    ASSUME WeatherInv, Alert # {}, PollCached
    PROVE  WeatherInv' /\ Follows
<1>1. world.cache \in [list : AlertList, at : Int] /\ world.now \in Int  BY DEF WeatherInv, AlertTypes, AlertWorld
<1>2. TrueSince(world.cache.list, world.cache.at - FetchTime) /\ world.now - world.cache.at <= AlertTTL
  BY DEF PollCached, CacheFresh, WeatherInv, CacheIsTrue
<1>3. PICK since \in Int : since = world.cache.at - FetchTime  BY <1>1, AlertAssumption
<1>4. world.now - (AlertTTL + FetchTime) <= since /\ world.now - (2 * AlertTTL + FetchTime) <= since
  BY <1>1, <1>2, <1>3, AlertAssumption
<1>5. TrackedAlerts' /\ Follows
  BY <1>1, <1>2, <1>3, <1>4, PollFollows DEF PollCached, Apply
<1>6. UNCHANGED <<part, world>>  BY DEF PollCached
<1> QED  BY <1>5, <1>6 DEF WeatherInv, AlertTypes, HistoryIsKept, FetchIsRecent, CacheIsTrue, TrueSince

LEMMA VisitorStep ==
    ASSUME WeatherInv, NEW ok \in BOOLEAN, VisitorEnds(ok)
    PROVE  WeatherInv'
<1>1. /\ world' \in AlertWorld /\ HistoryIsKept'
      /\ FetchIsRecent(world.poller)' /\ FetchIsRecent(world.visitor)' /\ CacheIsTrue'
  BY FetchedWorld DEF VisitorEnds
<1> QED  BY <1>1 DEF VisitorEnds, WeatherInv, AlertTypes, TrackedAlerts

LEMMA PollerStep ==
    ASSUME WeatherInv, Alert # {}, NEW ok \in BOOLEAN, PollerEnds(ok)
    PROVE  WeatherInv' /\ Follows
<1>1. /\ world' \in AlertWorld /\ HistoryIsKept'
      /\ FetchIsRecent(world.poller)' /\ FetchIsRecent(world.visitor)' /\ CacheIsTrue'
  BY FetchedWorld DEF PollerEnds
<1>2. /\ world.cache \in [list : AlertList, at : Int] /\ world.poller \in [list : AlertList, began : Int]
      /\ world.now \in Int
  BY DEF WeatherInv, AlertTypes, AlertWorld
<1>3. TrackedAlerts' /\ Follows
  <2>1. CASE ok
    <3>1. world.now <= world.poller.began + FetchTime /\ TrueSince(world.poller.list, world.poller.began)
      BY DEF PollerEnds, WeatherInv, FetchIsRecent
    <3>2. live' = Tracked(PollWeather(world.poller.list, FALSE), LapsedAlerts)  BY <2>1 DEF PollerEnds, Apply
    <3>3. PICK since \in Int : since = world.poller.began  BY <1>2
    <3>4. world.now - (AlertTTL + FetchTime) <= since /\ world.now - (2 * AlertTTL + FetchTime) <= since
      BY <1>2, <3>1, <3>3, AlertAssumption
    <3> QED  BY <1>2, <3>1, <3>2, <3>3, <3>4, PollFollows
  <2>2. CASE ~ok /\ CacheUsable
    <3>1. world.now - world.cache.at <= 2 * AlertTTL /\ TrueSince(world.cache.list, world.cache.at - FetchTime)
      BY <2>2 DEF CacheUsable, WeatherInv, CacheIsTrue
    <3>2. live' = Tracked(PollWeather(world.cache.list, TRUE), LapsedAlerts)  BY <2>2 DEF PollerEnds, Apply
    <3>3. PICK since \in Int : since = world.cache.at - FetchTime  BY <1>2, AlertAssumption
    <3>4. world.now - (2 * AlertTTL + FetchTime) <= since
      BY <1>2, <3>1, <3>3, AlertAssumption
    <3> QED  BY <1>2, <3>1, <3>2, <3>3, <3>4, PollFollows
  <2>3. CASE ~ok /\ ~CacheUsable
    <3>1. live' = Tracked(PollWeather({}, TRUE), LapsedAlerts)  BY <2>3 DEF PollerEnds, Apply
    <3>2. {} \in AlertList  BY DEF AlertList
    <3>3. world.now - (2 * AlertTTL + FetchTime) <= world.now  BY <1>2, AlertAssumption
    <3> QED  BY <1>2, <3>1, <3>2, <3>3, PollFollows
  <2> QED  BY <2>1, <2>2, <2>3
<1> QED  BY <1>1, <1>3 DEF PollerEnds, WeatherInv, AlertTypes

LEMMA WeatherStep ==
    ASSUME WeatherInv, Alert # {}, [WeatherNext]_feedVars
    PROVE  WeatherInv' /\ (UNCHANGED live \/ Follows)
<1>1. CASE UNCHANGED feedVars
  BY <1>1 DEF feedVars, WeatherInv, AlertTypes, HistoryIsKept, TrackedAlerts, FetchIsRecent, CacheIsTrue, TrueSince
<1>2. CASE PollCached  BY <1>2, CachedStep
<1>3. CASE AlertClock  BY <1>3, ClockStep DEF AlertClock
<1>4. ASSUME NEW who \in {"poller", "visitor"}, BeginFetch(who) PROVE WeatherInv' /\ UNCHANGED live
  BY <1>4, BeginStep DEF BeginFetch
<1>5. ASSUME NEW ok \in BOOLEAN, VisitorEnds(ok) PROVE WeatherInv' /\ UNCHANGED live
  BY <1>5, VisitorStep DEF VisitorEnds
<1>6. ASSUME NEW ok \in BOOLEAN, PollerEnds(ok) PROVE WeatherInv' /\ Follows
  BY <1>6, PollerStep
<1>7. ASSUME NEW a \in Alert, IssueOrLift(a) PROVE WeatherInv' /\ UNCHANGED live
  BY <1>7, IssueStep DEF IssueOrLift
<1> QED  BY <1>1, <1>2, <1>3, <1>4, <1>5, <1>6, <1>7 DEF WeatherNext, feedVars

\* However fetches fail, overlap and overwrite the list, an alert ends only when NWS
\* lacked it an interval and a request ago or less, and appears only when NWS had
\* it two intervals and a request ago or less, for any interval and timeout
\* (RawNWSAlerts, WeatherAlertNormalizer.Poll).
THEOREM AlertsTheorem == WeatherSpec => AlertsFollowNws
<1> DEFINE follows == part = "weather" /\ live' # live =>
         \A a \in Alert :
            /\ <<"wx", a.id>> \in Ended => world.now - world.lacked[a] <= AlertTTL + FetchTime
            /\ <<"wx", a.id>> \in Ids(live') \ Ids(live) => world.now - world.listed[a] <= 2 * AlertTTL + FetchTime
<1>1. CASE Alert = {}
  <2>1. [follows]_feedVars  BY <1>1
  <2> QED  BY <2>1, PTL DEF AlertsFollowNws
<1>2. CASE Alert # {}
  <2>1. WeatherInv /\ [WeatherNext]_feedVars => WeatherInv'  BY <1>2, WeatherStep
  <2>2. WeatherInv /\ [WeatherNext]_feedVars => [follows]_feedVars  BY <1>2, WeatherStep DEF Follows
  <2> QED  BY <2>1, <2>2, WeatherInitInv, PTL DEF WeatherSpec, AlertsFollowNws
<1> QED  BY <1>1, <1>2

-----------------------------------------------------------------------------
\* Earthquakes: the clock and what USGS has published.
QuakeInv == part = "quakes" /\ world \in [now : Int, published : SUBSET Quake]

\* A quake ends only when it is withdrawn or has left the window, the box or the
\* magnitudes, never because a query failed (EarthquakeNormalizer.Poll).
THEOREM QuakeTheorem == QuakeSpec => QuakeEndsWhenOver
<1> DEFINE over(q) == world.now - q.time > QuakeWindow \/ q.mag < QuakeMinMagnitude \/ ~InAnyArea(q.at)
           ends == part = "quakes" => \A q \in world.published : <<"usgs", q.id>> \in Ended => over(q)
<1>1. part = "quakes" /\ QuakeInit => QuakeInv  BY DEF QuakeInit, QuakeInv
<1>2. QuakeInv /\ [QuakeNext]_feedVars => QuakeInv'
  BY DEF QuakeInv, QuakeNext, QuakeClock, QuakeTick, PublishOrRevise, feedVars
<1>3. ASSUME QuakeInv, [QuakeNext]_feedVars PROVE [ends]_feedVars
  <2>1. CASE UNCHANGED live  BY <2>1 DEF Ended
  <2>2. ASSUME NEW up \in BOOLEAN, QuakeTick(up), NEW q \in world.published, <<"usgs", q.id>> \in Ended PROVE over(q)
    <3> DEFINE event(x) == [id |-> <<"usgs", x.id>>, source |-> "usgs", status |-> "ACTIVE", severity |-> FromMagnitude(x.mag)]
    <3>1. live' = live \/ \A x \in GetEarthquakes : event(x) \in live'
      BY <2>2 DEF QuakeTick, Apply, Tracked, PollQuakes, PollError, PollResult
    <3>2. event(q).id = <<"usgs", q.id>>  OBVIOUS
    <3> HIDE DEF event
    <3>3. q \notin GetEarthquakes  BY <2>2, <3>1, <3>2 DEF Ended, Ids
    <3>4. q.time \in Int /\ q.mag \in Int /\ world.now \in Int  BY <1>3, QuakeAssumption DEF QuakeInv
    <3>5. InAnyArea(q.at) => InUnion(q.at, 0)
      <4>1. \A a \in Area : a.lo - 0 = a.lo /\ a.hi + 0 = a.hi  BY AreaAssumption
      <4> QED  BY <4>1 DEF InAnyArea, InArea, InUnion
    <3>6. ~InAnyArea(q.at) \/ ~(q.mag >= QuakeMinMagnitude) \/ ~(q.time >= world.now - QuakeWindow)
      BY <3>3, <3>5 DEF GetEarthquakes
    <3> QED  BY <3>4, <3>6, QuakeAssumption
  <2> QED  BY <1>3, <2>1, <2>2 DEF QuakeNext, QuakeClock, PublishOrRevise, feedVars
<1> QED  BY <1>1, <1>2, <1>3, PTL DEF QuakeSpec, QuakeEndsWhenOver

=============================================================================
