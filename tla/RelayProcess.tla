---------------------------- MODULE RelayProcess ----------------------------
(***************************************************************************)
(* The mesh relay (cmd/mesh-relay).  First, its telemetry poller,            *)
(* internal/relaytelemetry.  The schedule of a shared repeater               *)
(* (schedule.go): the tick reads the share once and works on with that       *)
(* copy, one check over the mesh at a time, while hosts update the share,    *)
(* reports leave for the Grid (poller.go, report.go) and the relay           *)
(* restarts.  Second, the node behind a gateway (poller.go).  Third, the     *)
(* process as the handoff controller drives it (main.go).                    *)
(***************************************************************************)
EXTENDS Feed, SequencesExt

CONSTANTS Gateway,            \* the relay's gateways, in a sequence
          MaxMeshTries,       \* gateways that may transmit in a cycle
          RepeaterInterval, HibernateAfter, HibernateInterval,
          RepeaterRetries,    \* the waits before each retry on one gateway
          Offset,             \* offset: of this repeater in the interval
          CheckTime,          \* a check over the mesh takes no longer
          NodeKey,            \* keys of companion nodes
          MaxPollClock        \* bound of the model

\* A time of zero is no time; the clock starts at one.
NoGateway == "none"
NoShare == [updated |-> 0]
NoJob == [state |-> [next |-> 0]]
NoCycle == [start |-> 0]
NoTick == [at |-> 0]
NoEntry == [attempt |-> 0, success |-> 0, sample |-> 0, online |-> FALSE]

\* A repeater as a host shares it, in the relay's registry.
NewShare(gw) ==
    [updated |-> world.now, added |-> gw, last |-> NoGateway, attempt |-> 0, ok |-> 0, error |-> FALSE,
     poll |-> [primary |-> NoGateway, failed |-> 0, hib |-> 0, refused |-> 0, next |-> 0, reading |-> 0]]

\* candidates: its primary, the last that reached it, the one that shared it, the rest.
Candidates(c) ==
    LET first == SelectSeq(<<c.poll.primary, c.last, c.added>>, LAMBDA g : g \in ToSet(Gateway))
        all == first \o Gateway
    IN  FoldSeq(LAMBDA g, out : IF Contains(out, g) THEN out ELSE Append(out, g), <<>>, all)

\* restore: what the relay kept goes back into the report.
Restored(c) ==
    IF c.attempt = 0 THEN NoEntry
    ELSE [attempt |-> c.attempt, success |-> c.ok, online |-> c.ok # 0 /\ ~c.error,
          sample |-> IF c.ok # 0 THEN c.poll.reading ELSE 0]

\* A mutant: only the run that was refused waits.
RefusedInThisRun(j, c) == world.job # NoJob /\ j.state.refused # 0 /\ c.updated <= j.state.refused

\* A refused password waits for the share to be updated.
AwaitsUpdate(j, c) == j.state.refused # 0 /\ c.updated <= j.state.refused

\* tickRepeater, up to the work on the cycle.
JobOf(c) ==
    IF world.job # NoJob THEN world.job
    ELSE [state |-> [c.poll EXCEPT !.next = IF @ = 0 THEN world.now + Offset ELSE @], cycle |-> NoCycle, aliveAt |-> 0]
Unrefused(j) ==
    IF j.state.refused = 0 THEN j
    ELSE [j EXCEPT !.state.refused = 0, !.state.failed = 0, !.state.next = world.now]
Woken(j, alive) ==
    IF j.cycle = NoCycle /\ j.state.hib # 0 /\ world.now >= j.aliveAt /\ world.now < j.state.next
    THEN [j EXCEPT !.aliveAt = world.now + RepeaterInterval, !.state.hib = IF alive THEN 0 ELSE @,
                   !.state.next = IF alive THEN world.now ELSE @]
    ELSE j
NewCycle(j, c) ==
    [start |-> world.now, gws |-> Candidates(c), gi |-> 1, retry |-> 0,
     retries |-> j.state.failed = 0 /\ j.state.hib = 0, fallback |-> FALSE, triedFall |-> FALSE,
     nextAt |-> world.now, tried |-> 0, err |-> "none", via |-> NoGateway,
     sent |-> {}, checks |-> 0]  \* the gateways that transmitted, how many checks did: sent of the code is sent # {}
Started(j, c) ==
    IF j.cycle = NoCycle /\ world.now >= j.state.next THEN [j EXCEPT !.cycle = NewCycle(j, c)] ELSE j
TickEnds(j) == j.cycle = NoCycle \/ world.now < j.cycle.nextAt

\* gridAlive: the Grid knows of an advert, or of another monitor's reading, within the
\* window.  It does not ("silent"), or knows only this relay's own readings, or does
\* not answer.
GridAnswer == {"heard", "silent", "own", "down"}
GridAlive(answer) == answer = "heard"

\* RepeaterTick: the share as it is now; a repeater no longer shared leaves the
\* schedule and the report.
RepeaterTick(answer) ==
    /\ world.tick = NoTick
    /\ LET c == world.share
           alive == GridAlive(answer)
           j0 == JobOf(c)
           j == IF AwaitsUpdate(j0, c) THEN j0 ELSE Started(Woken(Unrefused(j0), alive), c)
       IN  world' = IF c = NoShare THEN [world EXCEPT !.job = NoJob, !.entry = NoEntry]
                    ELSE [world EXCEPT !.job = j,
                            !.entry = IF world.job = NoJob /\ @ = NoEntry THEN Restored(c) ELSE @,
                            !.tick = IF TickEnds(j) THEN NoTick ELSE [at |-> world.now, c |-> c]]
    /\ UNCHANGED <<part, live, result>>

\* The work goes on, or the tick ends, once the job is as it is now.
Works(j, w) == [w EXCEPT !.job = j, !.tick = IF TickEnds(j) THEN NoTick ELSE [@ EXCEPT !.at = world.now]]

\* SetRepeaterPollState and RecordRepeaterPoll, of the relay's registry; gone
\* when the share is.
SetRepeaterPollState(share, st) == IF share = NoShare THEN share ELSE [share EXCEPT !.poll = st]
RecordRepeaterPoll(share, gw, ok) ==
    IF share = NoShare THEN share
    ELSE [share EXCEPT !.attempt = world.now, !.ok = IF ok THEN world.now ELSE @, !.error = ~ok,
                       !.last = IF ok THEN gw ELSE @]

\* endCycle: the state after a cycle, of which out is the result.  alive is also
\* that the Grid gave no answer: then it does not hibernate.  failed counts no further
\* than to HibernateAfter, which is as far as it is told apart.
StateAfter(st, cy, out, alive) ==
    LET onTime == IF cy.start + RepeaterInterval > world.now THEN cy.start + RepeaterInterval
                  ELSE world.now + RepeaterInterval
        missed == st.hib # 0 \/ st.failed + 1 >= HibernateAfter
        hib == IF ~missed THEN st.hib ELSE IF alive THEN 0 ELSE IF st.hib # 0 THEN st.hib ELSE world.now
    IN  CASE out = "ok" -> [st EXCEPT !.primary = cy.via, !.failed = 0, !.hib = 0, !.reading = world.now, !.next = onTime]
          [] out = "refused" -> [st EXCEPT !.refused = world.now, !.next = onTime]
          [] out = "failed" -> [st EXCEPT !.failed = IF @ < HibernateAfter THEN @ + 1 ELSE @, !.hib = hib,
                                  !.next = IF hib # 0 THEN world.now + HibernateInterval ELSE onTime]
          [] out = "skipped" -> [st EXCEPT !.next = onTime]
EntryAfter(e, cy, out, reading) ==
    CASE out = "ok" -> [attempt |-> cy.start, success |-> cy.start, sample |-> reading, online |-> TRUE]
      [] out \in {"refused", "failed"} -> [e EXCEPT !.attempt = cy.start, !.online = FALSE]
      [] out = "skipped" -> [e EXCEPT !.online = FALSE]
EndCycle(j, cy, out, alive) ==
    LET st == StateAfter(j.state, cy, out, alive)
        saved == SetRepeaterPollState(world.share, st)
        recorded == IF out # "skipped" \/ cy.err = "notknown"
                    THEN RecordRepeaterPoll(saved, cy.via, out = "ok") ELSE saved
        asleep == out = "failed" /\ st.hib # 0
    IN  Works([j EXCEPT !.state = st, !.cycle = NoCycle, !.aliveAt = IF asleep THEN world.now + RepeaterInterval ELSE @],
              [world EXCEPT !.share = recorded, !.entry = EntryAfter(@, cy, out, world.now),
                            !.denied = IF out = "refused" THEN world.tick.c.updated ELSE @])

\* step: no gateway is left, or enough have transmitted.
Exhausted(cy) == cy.gi > Len(cy.gws) \/ cy.tried >= MaxMeshTries
OutOfGateways(answer) ==
    /\ world.tick # NoTick /\ Exhausted(world.job.cycle)
    /\ LET j == world.job
           cy == j.cycle
           last == world.tick.c.last
       IN  world' = IF cy.sent = {} /\ ~cy.triedFall /\ last \in ToSet(Gateway) /\ cy.tried < MaxMeshTries
                    THEN Works([j EXCEPT !.cycle = [cy EXCEPT !.gws = <<last>>, !.gi = 1, !.retry = 0,
                                                              !.fallback = TRUE, !.triedFall = TRUE]], world)
                    ELSE EndCycle(j, cy, IF cy.sent = {} THEN "skipped" ELSE "failed", GridAlive(answer) \/ answer = "down")
    /\ UNCHANGED <<part, live, result>>

MayRetry(cy) == cy.retries /\ cy.retry < Len(RepeaterRetries)

\* step: the gateway at hand checked the repeater (CheckRepeater of the relay).
\* It has no such contact, or is busy, paused or away; or the check went over the
\* mesh and was answered, refused or not answered.
TryGateway(out) ==
    LET j == world.job
        cy == j.cycle
        gw == cy.gws[cy.gi]
        next == [cy EXCEPT !.gi = @ + 1, !.retry = 0, !.nextAt = world.tick.at]
        sent == [cy EXCEPT !.sent = @ \cup {gw}, !.checks = @ + 1, !.err = out, !.via = gw]
    IN  CASE out = "ok" -> EndCycle(j, [cy EXCEPT !.via = gw, !.err = "none"], "ok", FALSE)
          [] out \in {"notknown", "busy"} ->
                Works([j EXCEPT !.cycle = [next EXCEPT !.err = IF @ = "none" THEN out ELSE @]], world)
          [] out = "refused" -> EndCycle(j, sent, "refused", FALSE)
          [] out = "noreply" ->
                Works([j EXCEPT !.cycle =
                         IF MayRetry(cy)
                         THEN [sent EXCEPT !.nextAt = world.tick.at + RepeaterRetries[cy.retry + 1], !.retry = @ + 1]
                         ELSE [sent EXCEPT !.gi = @ + 1, !.retry = 0, !.nextAt = world.tick.at, !.tried = @ + 1]], world)
CheckGateway(out) ==
    /\ world.tick # NoTick /\ ~Exhausted(world.job.cycle)
    /\ out = "notknown" => ~world.job.cycle.fallback
    /\ world' = TryGateway(out)
    /\ UNCHANGED <<part, live, result>>

\* Cycle, push: the report as it is now, a repeater never tried left out; it
\* arrives, or is lost, or only the answer is (nobody asks).
PushReport(arrives) ==
    /\ world' = [world EXCEPT !.box = IF arrives THEN world.entry ELSE @]
    /\ UNCHANGED <<part, live, result>>

\* Run, with the relay: what is in memory is lost.
RelayRestart ==
    /\ world' = [world EXCEPT !.job = NoJob, !.entry = NoEntry, !.tick = NoTick]
    /\ UNCHANGED <<part, live, result>>

\* A host shares the repeater, or its new password, or stops sharing it; time
\* passes, and no check outlasts CheckTime.
Share(gw) ==
    /\ world.share.updated < world.now
    /\ world' = [world EXCEPT !.share = IF @ = NoShare THEN NewShare(gw) ELSE [@ EXCEPT !.updated = world.now],
                            !.denied = 0]
    /\ UNCHANGED <<part, live, result>>
Unshare ==
    /\ world.share # NoShare
    /\ world' = [world EXCEPT !.share = NoShare]
    /\ UNCHANGED <<part, live, result>>
PollClock ==
    /\ world.now < MaxPollClock
    /\ world.tick # NoTick => world.now < world.tick.at + CheckTime
    /\ world' = [world EXCEPT !.now = @ + 1]
    /\ UNCHANGED <<part, live, result>>

\* box is the Grid's copy of the entry, denied the share whose password was refused.
TelemetryInit ==
    /\ world = [now |-> 1, share |-> NoShare, job |-> NoJob, tick |-> NoTick, entry |-> NoEntry,
                box |-> NoEntry, denied |-> 0]
    /\ live = {} /\ result = NeverPolled
TelemetryNext ==
    \/ \E answer \in GridAnswer : RepeaterTick(answer) \/ OutOfGateways(answer)
    \/ \E out \in {"ok", "notknown", "busy", "noreply", "refused"} : CheckGateway(out)
    \/ \E arrives \in BOOLEAN : PushReport(arrives)
    \/ RelayRestart \/ Unshare \/ PollClock
    \/ \E gw \in ToSet(Gateway) : Share(gw)

(***************************************************************************)
(* The node behind a gateway                                               *)
(***************************************************************************)
NoRead == [key |-> NoGateway]
NoNode == [key |-> NoGateway]
NewNode(key) == [key |-> key, attempt |-> 0, success |-> 0, of |-> NoGateway, online |-> FALSE]

\* Cycle: the pinned key is read, then the node; no key, and the gateway is forgotten.
BeginPoll ==
    /\ world.read = NoRead
    /\ world' = IF world.pinned = NoGateway THEN [world EXCEPT !.state = NoNode]
                ELSE [world EXCEPT !.read = [key |-> world.pinned, start |-> world.now, asked |-> FALSE, ended |-> FALSE]]
    /\ UNCHANGED <<part, live, result>>

\* readNode: APP_START, and the node must be the pinned one.
AppStart ==
    /\ world.read # NoRead /\ ~world.read.asked /\ ~world.read.ended
    /\ world' = [world EXCEPT !.read = IF world.node = @.key THEN [@ EXCEPT !.asked = TRUE] ELSE [@ EXCEPT !.ended = TRUE]]
    /\ UNCHANGED <<part, live, result>>

\* pollGateway: the pinned node changed, the old readings were someone else's.
StateFor(st, key) == IF st.key # key THEN NewNode(key) ELSE st

\* read, pollGateway: the node was read, or it could not be, or the lease was
\* refused or lost in a way that says nothing of the node.
EndPoll(out) ==
    /\ world.read # NoRead
    /\ out = "ok" => world.read.asked /\ ~world.read.ended
    /\ LET st == StateFor(world.state, world.read.key)
       IN  world' = [world EXCEPT !.read = NoRead,
                       !.state = CASE out = "ok" -> [st EXCEPT !.attempt = world.read.start, !.success = world.read.start,
                                                               !.of = world.node, !.online = TRUE]
                                   [] out = "failed" -> [st EXCEPT !.attempt = world.read.start, !.online = FALSE]
                                   [] out = "skipped" -> [st EXCEPT !.online = FALSE]]
    /\ UNCHANGED <<part, live, result>>

\* Report, of the nodes: one that was only ever skipped is left out.
Reported == IF world.state = NoNode \/ world.state.attempt = 0 THEN {} ELSE {world.state}
ReportNodes ==
    /\ world.read = NoRead
    /\ live' = Reported
    /\ UNCHANGED <<part, world, result>>

\* Another node is plugged in, which ends the lease; the relay pins a key.
SwapNode(key) ==
    /\ key # world.node
    /\ world' = [world EXCEPT !.node = key, !.read = IF @ = NoRead THEN @ ELSE [@ EXCEPT !.ended = TRUE]]
    /\ UNCHANGED <<part, live, result>>
Pin(key) ==
    /\ key # world.pinned
    /\ world' = [world EXCEPT !.pinned = key]
    /\ UNCHANGED <<part, live, result>>
NodeClock ==
    /\ world.now < MaxPollClock
    /\ world' = [world EXCEPT !.now = @ + 1]
    /\ UNCHANGED <<part, live, result>>

NodeInit ==
    /\ world = [now |-> 1, pinned |-> NoGateway, node |-> NoGateway, read |-> NoRead, state |-> NoNode]
    /\ live = {} /\ result = NeverPolled
NodeNext ==
    \/ BeginPoll \/ AppStart \/ ReportNodes \/ NodeClock
    \/ \E out \in {"ok", "failed", "skipped"} : EndPoll(out)
    \/ \E key \in NodeKey \cup {NoGateway} : SwapNode(key) \/ Pin(key)

(***************************************************************************)
(* Properties                                                              *)
(***************************************************************************)
\* step: a repeater that missed its last cycle costs at most maxMeshTries checks
\* over the mesh in a cycle, however gateways come and go between them.
DeadRepeaterIsCheap ==
    (part = "telemetry" /\ world.job # NoJob) =>
    (world.job.cycle # NoCycle /\ ~world.job.cycle.retries => world.job.cycle.checks <= MaxMeshTries)

\* step: at most maxMeshTries gateways transmit for a repeater in a cycle.
FewGatewaysTransmit ==
    (part = "telemetry" /\ world.job # NoJob) =>
    (world.job.cycle # NoCycle => Cardinality(world.job.cycle.sent) <= MaxMeshTries)

\* tickRepeater: a password that was refused is not sent again, by this run of the
\* relay or by the next.
RefusedIsNotResent ==
    (part = "telemetry" /\ world.tick # NoTick) => world.tick.c.updated # world.denied

\* endCycle: a refusal that keeps a share waiting for its update is one of that
\* share's password.
RefusalIsOfTheShare ==
    (part = "telemetry" /\ world.share # NoShare) =>
    (world.share.poll.refused >= world.share.updated => world.denied = world.share.updated)

\* "The report is the complete set, so without this a restart would blank its
\* readings on the Grid until its next cycle" (restore): no report takes a reading of
\* a shared repeater off the Grid, across restarts too.  TLC refutes it: the report
\* and the schedule start after the same delay, and the report may be first.
ReadingsSurviveRestart ==
    [][part = "telemetry" =>
         (world'.box # world.box /\ world.share # NoShare /\ world.share.ok # 0 =>
            (world.box.sample # 0 => world'.box.sample >= world.box.sample))]_feedVars

(***************************************************************************)
(* The relay's process as the handoff controller drives it                  *)
(* (cmd/mesh-relay/main.go): Activate opens relay.db, the listener and the  *)
(* telemetry poller, Quiesce ends their users and closes the database, and  *)
(* may be called again after it failed.  The controller serialises the two  *)
(* (module Handoff); sessions, requests, the poller and the server run      *)
(* beside them.  A failed activation leaves its server listening, so what   *)
(* is open is kept by activation.                                           *)
(***************************************************************************)
CONSTANT MaxActivations
ASSUME MaxActivationsAssumption == MaxActivations \in Nat

Use == {"store", "gate", "server", "poller", "session", "request", "stuck"}

\* prepareRelay: opens nothing.
RelayInit ==
    /\ world = [state |-> "STANDBY", held |-> FALSE, n |-> 0, step |-> "", quiesce |-> "", releasing |-> FALSE,
                has |-> {}, quiesced |-> {}]
    /\ live = [u \in Use |-> {}]
    /\ result = NeverPolled

Moves(w) == world' = w /\ UNCHANGED <<part, result>>
Opens(u) == live' = [live EXCEPT ![u] = @ \cup {world.n}]
Ends(u) == live' = [live EXCEPT ![u] = @ \ {world.n}]
Open(u) == world.n \in live[u]

(***************************************************************************)
(* Activate                                                                *)
(***************************************************************************)

ActivateBegins ==
    /\ world.state = "STANDBY" /\ world.n < MaxActivations
    /\ Moves([world EXCEPT !.state = "ACTIVATING", !.held = TRUE, !.n = @ + 1, !.step = "open",
                           !.has = {}, !.quiesced = {}])
    /\ UNCHANGED live

\* OpenStore waits for the lock, which a handle of this process holds too.
OpenStore ==
    /\ world.step = "open" /\ live["store"] = {}
    /\ Opens("store") /\ Moves([world EXCEPT !.step = "relay", !.has = {"store"}])

NewRelay ==
    /\ world.step = "relay"
    /\ Opens("gate") /\ Moves([world EXCEPT !.step = "serve", !.has = @ \cup {"relay"}])

\* PortFree, then the server starts.
StartServer ==
    /\ world.step = "serve" /\ live["server"] = {}
    /\ Opens("server") /\ Moves([world EXCEPT !.step = "listen"])

\* WaitListening, startTelemetry.
StartTelemetry ==
    /\ world.step = "listen" /\ Open("server")
    /\ \/ Opens("poller") /\ Moves([world EXCEPT !.step = "", !.state = "ACTIVE", !.has = @ \cup {"poller"}])
       \/ UNCHANGED live /\ Moves([world EXCEPT !.step = "", !.state = "ACTIVE"])

\* An error, a cancelled context or a panic, at any step: the deferred Quiesce.
ActivationFails ==
    /\ world.step # ""
    /\ Moves([world EXCEPT !.step = "", !.quiesce = "poller", !.releasing = TRUE])
    /\ UNCHANGED live

(***************************************************************************)
(* Quiesce                                                                 *)
(***************************************************************************)

QuiesceBegins ==
    /\ world.step = "" /\ world.quiesce = ""
    /\ world.state \in {"ACTIVE", "QUIESCING"}
    /\ Moves([world EXCEPT !.state = "QUIESCING", !.quiesce = "poller"])
    /\ UNCHANGED live

\* A mutant: the error of a failed release is not told from that of the activation.
ForgetsStillHeld ==
    [world EXCEPT !.quiesce = "", !.releasing = FALSE,
                  !.state = IF world.releasing THEN "STANDBY" ELSE "QUIESCING", !.held = ~world.releasing]

\* Quiesce fails; out of Activate with ErrStillHeld.  The database counts as held.
StillHeld == [world EXCEPT !.quiesce = "", !.releasing = FALSE, !.state = "QUIESCING", !.held = TRUE]
QuiesceFails == Moves(StillHeld) /\ UNCHANGED live

Passed(flag, next) == Moves([world EXCEPT !.quiesced = @ \cup {flag}, !.quiesce = next])
Skips(what, flag) == what \notin world.has \/ flag \in world.quiesced

\* Stop the poller and wait; it may not stop in time.
StopPoller ==
    /\ world.quiesce = "poller"
    /\ IF Open("poller") /\ ~Skips("poller", "poller") THEN QuiesceFails
       ELSE Passed("poller", "gate") /\ UNCHANGED live

CloseGate ==
    /\ world.quiesce = "gate"
    /\ Passed("gate", "sessions")
    /\ IF Skips("relay", "gate") THEN UNCHANGED live ELSE Ends("gate")

\* relay.Stop: ends the sessions, or gives up.
StopRelay ==
    /\ world.quiesce = "sessions"
    /\ IF Skips("relay", "sessions") THEN Passed("sessions", "drained") /\ UNCHANGED live
       ELSE (Passed("sessions", "drained") /\ Ends("session")) \/ QuiesceFails

\* gate.Drain: ends at last, and leaves behind what will not end.
DrainRelay ==
    /\ world.quiesce = "drained"
    /\ Passed("drained", "store")
    /\ IF ~Skips("relay", "drained") /\ Open("request") THEN Opens("stuck") ELSE UNCHANGED live

CloseStore ==
    /\ world.quiesce = "store"
    /\ \/ ~Skips("store", "store") /\ QuiesceFails
       \/ /\ Moves([world EXCEPT !.quiesced = @ \cup {"store"}, !.quiesce = "", !.releasing = FALSE, !.held = FALSE,
                                 !.state = IF world.releasing THEN "STANDBY" ELSE "QUIESCED"])
          /\ IF Skips("store", "store") THEN UNCHANGED live ELSE Ends("store")

(***************************************************************************)
(* The users                                                               *)
(***************************************************************************)

Beside(l) == live' = l /\ UNCHANGED <<part, world, result>>

\* The poller returns when it is told to, or panics.
TelemetryEnds == Open("poller") /\ Beside([live EXCEPT !["poller"] = @ \ {world.n}])

\* A request or a session, on any server, through that server's gate.
Enters(n, u) == n \in live["server"] /\ n \in live["gate"] /\ Beside([live EXCEPT ![u] = @ \cup {n}])
Leaves(n, u) == n \in live[u] /\ Beside([live EXCEPT ![u] = @ \ {n}, !["stuck"] = IF u = "request" THEN @ \ {n} ELSE @])

\* server.Start returns: an error (onFatal has the controller quiesce), or, when
\* the process is told to end, prefab's own shutdown, which Exit waits for.
ServerEnds(n) == n \in live["server"] /\ Beside([live EXCEPT !["server"] = @ \ {n}])

RelayNext ==
    \/ ActivateBegins \/ OpenStore \/ NewRelay \/ StartServer \/ StartTelemetry \/ ActivationFails
    \/ QuiesceBegins \/ StopPoller \/ CloseGate \/ StopRelay \/ DrainRelay \/ CloseStore
    \/ TelemetryEnds
    \/ \E n \in 1..MaxActivations : ServerEnds(n) \/ \E u \in {"session", "request"} : Enters(n, u) \/ Leaves(n, u)

RelaySpec == part = "relay" /\ RelayInit /\ [][RelayNext]_feedVars

\* relay.db is closed only after the poller, every session and every request of
\* that activation has ended, save one the drain gave up on, and a process that
\* reports the database free has no handle of it, of any activation, and no
\* server that still admits, not even the one a failed activation left listening
\* (Quiesce, Activate, cmd/mesh-relay/main.go).
RelayReleaseIsTrue ==
    part = "relay" =>
        /\ \A n \in 1..MaxActivations :
             n \notin live["store"] =>
                 n \notin live["poller"] \cup live["session"] \cup (live["request"] \ live["stuck"])
        /\ ~world.held => live["store"] = {} /\ live["gate"] = {}
============================================================================
