----------------------------- MODULE BurnLines -----------------------------
(***************************************************************************)
(* May I burn today?  The worker that dials the counties' telephone lines   *)
(* (cmd/burn-line, clients/burnline), the push of its readings              *)
(* (pushingest/burn.go), their staging rows (store/burn.go), CAL FIRE's      *)
(* page (clients/calfireburn), and the answer, ingest/burn_status.go.  One   *)
(* county, served by every line.                                            *)
(***************************************************************************)
EXTENDS Feed

(***************************************************************************)
(* The push endpoint, internal/pushingest: who may report on which stream, *)
(* and what becomes of a report.  Reporters keep their health in memory.   *)
(***************************************************************************)

CONSTANTS Reporter,      \* [id, committed, atDeploy, streams]: configured reporters, in a sequence
          Supplied,      \* ReporterTokenSha256: [ids -> hashes]
          NoHash,        \* no hash configured, none supplied, no token sent
          MinInterval,   \* MinIntervalOrDefault
          StaleAfter,    \* StaleAfterOrDefault
          ReporterDeadMultiple

KnownStreams == {"mesh.repeater", "mesh.packet", "burn.line"}
ReporterId == {Reporter[i].id : i \in DOMAIN Reporter}
ReporterOf(id) == Reporter[CHOOSE i \in DOMAIN Reporter : Reporter[i].id = id]

\* tokenHashFor: exactly one of the committed and the supplied hash; one that
\* is to come with the deployment may be missing.
HashConflict(rc) ==
    \/ rc.atDeploy /\ rc.committed # NoHash
    \/ rc.id \in DOMAIN Supplied /\ (rc.committed # NoHash \/ Supplied[rc.id] = NoHash)
    \/ rc.committed = NoHash /\ ~rc.atDeploy /\ rc.id \notin DOMAIN Supplied
TokenHashFor(rc) == IF rc.id \in DOMAIN Supplied THEN Supplied[rc.id] ELSE rc.committed

\* NewRegistry: unique ids and tokens, a stream each, no hash for a stranger.
RegistryStarts ==
    /\ \A i \in DOMAIN Reporter :
          /\ ~HashConflict(Reporter[i]) /\ Reporter[i].streams # {}
          /\ \A j \in DOMAIN Reporter : i # j =>
                /\ Reporter[i].id # Reporter[j].id
                /\ TokenHashFor(Reporter[i]) = NoHash \/ TokenHashFor(Reporter[i]) # TokenHashFor(Reporter[j])
    /\ DOMAIN Supplied \subseteq ReporterId
ASSUME ReportersAreValid == RegistryStarts

\* authenticate: the reporter a token belongs to, if any (TokenHash is one to one).
Authenticate(token) ==
    {id \in ReporterId : token # NoHash /\ TokenHashFor(ReporterOf(id)) = token}

\* A reporter: [accepted, byStream, error], times 0 when never.
NewReporter(rc) == [accepted |-> 0, byStream |-> [s \in rc.streams |-> 0], error |-> FALSE]

\* ServeStream up to its handler: the reporter, or the status of the refusal.
\* last is the time of the last report the stream accepted.
ServeStream(post, token, stream, preflight, reps, now) ==
    LET who == Authenticate(token)
        id == CHOOSE i \in who : TRUE
        last == reps[id].byStream[stream]
    IN  IF ~post THEN 405
        ELSE IF who = {} THEN 401
        ELSE IF stream \notin KnownStreams THEN 404
        ELSE IF stream \notin ReporterOf(id).streams THEN 403
        ELSE IF preflight THEN 204
        ELSE IF last # 0 /\ now - last < MinInterval THEN 429 ELSE 202

\* recordFailure.
RecordFailure(rep) == [rep EXCEPT !.error = TRUE]

\* ReporterState, healthLocked.
ReporterState(rep, now) ==
    IF rep.accepted = 0 THEN "UNKNOWN"
    ELSE IF now - rep.accepted <= StaleAfter THEN "OK"
    ELSE IF now - rep.accepted <= StaleAfter * ReporterDeadMultiple THEN "STALE" ELSE "DEAD"

\* The reporters of a stream.
ReporterIDs(stream) == {id \in ReporterId : stream \in ReporterOf(id).streams}

\* clampPast: the caller's clock is not trusted into the future.
ClampPast(t, now) == IF t > now THEN now ELSE t

(***************************************************************************)
(* The lines and their readings                                            *)
(***************************************************************************)

CONSTANTS BurnLine,      \* the lines of the county
          DialedLine,    \* EnabledLines, those that are dialed
          BurnToken,     \* the tokens callers hold
          BurnDayStale,  \* of the configuration, zero when disabled
          DayLength, NotBefore, MaxBurnClock, MaxBodies

ASSUME BurnAssumption == NotBefore \in Int /\ BurnDayStale \in Int

Unread == [status |-> "none", at |-> 0, by |-> NoHash, received |-> 0]
BurnDays == {"green", "red", "orange"}

(***************************************************************************)
(* The worker                                                              *)
(***************************************************************************)
\* dayStart.
DayStart(now) == (now \div DayLength) * DayLength + NotBefore

\* transcribe, extract: the status the recording states; other words are an error.
SpokenStatus(l) == world.says[l]

\* Read, record: a call that fails or is silent is an error; readWithRetry gives
\* up after some attempts.
ReadLine(l) == [line |-> l, status |-> SpokenStatus(l), at |-> world.now]

\* lineObservations: what the public API shows of the lines.
ShownAt(l) == IF live = {} THEN 0 ELSE (CHOOSE e \in live : TRUE).seen[l]

\* main with -not-before: too early, the lines already read today left out;
\* every line when the API does not answer.
Due(apiUp) ==
    IF world.now < DayStart(world.now) THEN {}
    ELSE IF apiUp THEN {l \in DialedLine : ShownAt(l) < DayStart(world.now)} ELSE DialedLine

\* main: preflight before any call, then the calls, then one push of what was
\* read; the run's body is under way.
WorkerRun(lines, token, heard) ==
    /\ Cardinality(world.bodies) < MaxBodies
    /\ lines # {} /\ heard # {}
    /\ ServeStream(TRUE, token, "burn.line", TRUE, world.reps, world.now) = 204
    /\ world' = [world EXCEPT !.bodies = @ \cup {[token |-> token, readings |-> {ReadLine(l) : l \in heard}]}]
    /\ UNCHANGED <<part, live>> /\ result' = NeverPolled
ScheduledRun(apiUp, token, heard) == heard \subseteq Due(apiUp) /\ WorkerRun(Due(apiUp), token, heard)
ManualRun(l, token) == WorkerRun({l}, token, {l})

(***************************************************************************)
(* The push and the staging rows                                           *)
(***************************************************************************)
\* The reading that came last.
PutAnyReading(old, new) == new

\* PutBurnReading: an older observation does not replace a newer one.
PutBurnReading(old, new) == IF new.at >= old.at THEN new ELSE old

\* ingestBurn: unknown lines and statuses are skipped; nothing left is an error.
UsableReadings(body) == {r \in body.readings : r.line \in BurnLine /\ r.status \in BurnDays}
StagedReading(r, who) ==
    [status |-> r.status, at |-> ClampPast(r.at, world.now), by |-> who, received |-> world.now]
RecordAccepted(rep) == [rep EXCEPT !.accepted = world.now, !.error = FALSE]
IngestBurn(body, who) ==
    LET usable == UsableReadings(body)
        of(l) == {r \in usable : r.line = l}
        given(l) == StagedReading(CHOOSE r \in of(l) : TRUE, who)
    IN  IF usable = {} THEN [world EXCEPT !.reps[who] = RecordFailure(@)]
        ELSE [world EXCEPT
                !.staged = [l \in BurnLine |-> IF of(l) = {} THEN @[l] ELSE PutBurnReading(@[l], given(l))],
                !.newest = [l \in BurnLine |-> IF of(l) # {} /\ given(l).at >= @[l].at THEN given(l) ELSE @[l]],
                !.reps[who] = RecordAccepted(@)]

\* The push arrives; the answer may get lost, then somebody sends it again.
DeliverBody(body, answered) ==
    /\ body \in world.bodies
    /\ world' = [IF ServeStream(TRUE, body.token, "burn.line", FALSE, world.reps, world.now) = 202
                 THEN IngestBurn(body, CHOOSE i \in Authenticate(body.token) : TRUE) ELSE world
                 EXCEPT !.bodies = IF answered THEN @ \ {body} ELSE @]
    /\ UNCHANGED <<part, live>> /\ result' = NeverPolled
LoseBody(body) ==
    /\ body \in world.bodies
    /\ world' = [world EXCEPT !.bodies = @ \ {body}]
    /\ UNCHANGED <<part, live>> /\ result' = NeverPolled

\* RestoreBurnHealth, after a restart: the reporters' health from the rows.
RestoreBurnHealth ==
    LET granted == ReporterIDs("burn.line")
        times(id) == {0} \cup {world.staged[l].received : l \in {k \in BurnLine : world.staged[k].by = id}}
    IN  [id \in ReporterId |-> [NewReporter(ReporterOf(id)) EXCEPT
            !.accepted = IF id \in granted THEN CHOOSE t \in times(id) : \A u \in times(id) : u <= t ELSE 0]]
BurnRestart ==
    /\ world' = [world EXCEPT !.reps = RestoreBurnHealth]
    /\ UNCHANGED <<part, live>> /\ result' = NeverPolled

(***************************************************************************)
(* The answer                                                              *)
(***************************************************************************)
\* freshnessError.
FreshReading(r) == r.status # "none" /\ (BurnDayStale <= 0 \/ world.now - r.at <= BurnDayStale)
UsableLines == {l \in BurnLine : FreshReading(world.staged[l])}

\* mergeBurnDays: the most restrictive; YES only when every dialed line was read.
MergeBurnDays(usable) ==
    LET said == {world.staged[l].status : l \in usable}
    IN  IF "red" \in said THEN "NO" ELSE IF "orange" \in said THEN "MARGINAL"
        ELSE IF "green" \in said /\ DialedLine \subseteq usable THEN "YES" ELSE "UNKNOWN"

\* derivePermission.
DerivePermission(day, calfire) ==
    IF day = "NO" \/ calfire = "suspended" THEN "PROHIBITED"
    ELSE IF day = "YES" /\ calfire \in {"permit-required", "no-permit-required"} THEN "ALLOWED" ELSE "UNKNOWN"

\* GetBurnStatus, parseStatus: the page's words, an error when no county parses;
\* "unreadable" when the county's row says nothing known.
GetBurnStatus(reply) == IF reply = "ok" THEN world.calfire ELSE "unknown"

\* buildEvent: what CAL FIRE said last stays; the burn day is never carried over.
BuildBurnEvent(reply) ==
    LET before == IF live = {} THEN "unknown" ELSE (CHOOSE e \in live : TRUE).calfire
        now == GetBurnStatus(reply)
        calfire == IF now # "unknown" THEN now ELSE before
        day == MergeBurnDays(UsableLines)
    IN  [id |-> <<"burn", 1>>, source |-> IF DialedLine # {} THEN "burn-line" ELSE "calfire-burn", calfire |-> calfire,
         permission |-> DerivePermission(day, calfire),
         seen |-> [l \in BurnLine |-> IF l \in UsableLines THEN world.staged[l].at ELSE 0]]

\* Poll.
PollBurn(reply) ==
    LET silent == DialedLine \ UsableLines
        failed == (IF reply = "error" THEN {"calfire-burn"} ELSE {}) \cup (IF silent # {} THEN {"burn-line"} ELSE {})
                  \cup {id \in ReporterIDs("burn.line") : ReporterState(world.reps[id], world.now) # "OK"}
    IN  IF BurnLine = {} \/ (reply = "error" /\ silent = DialedLine) THEN PollError
        ELSE PollResult({BuildBurnEvent(reply)}, failed, {}, {})

\* One tick, on its interval or at once after a push (burnAccepted).
BurnTick(reply) ==
    /\ Apply(PollBurn(reply), {})
    /\ world' = [world EXCEPT !.calHeard = IF reply = "ok" /\ ~result'.hard THEN world.calfire ELSE @]
    /\ UNCHANGED part

(***************************************************************************)
(* The authorities                                                         *)
(***************************************************************************)
BurnClock ==
    /\ world.now < MaxBurnClock
    /\ world' = [world EXCEPT !.now = @ + 1]
    /\ UNCHANGED <<part, live>> /\ result' = NeverPolled
ChangeRecording(l, s) ==
    /\ world.says[l] # s
    /\ world' = [world EXCEPT !.says[l] = s]
    /\ UNCHANGED <<part, live>> /\ result' = NeverPolled
ChangePage(s) ==
    /\ world.calfire # s
    /\ world' = [world EXCEPT !.calfire = s]
    /\ UNCHANGED <<part, live>> /\ result' = NeverPolled

BurnInit ==
    /\ world = [now |-> NotBefore, says |-> [l \in BurnLine |-> "green"], calfire |-> "permit-required",
                calHeard |-> "unknown", bodies |-> {},
                staged |-> [l \in BurnLine |-> Unread], newest |-> [l \in BurnLine |-> Unread],
                reps |-> [id \in ReporterId |-> NewReporter(ReporterOf(id))]]
    /\ live = {} /\ result = NeverPolled

BurnNext(changing) ==
    \/ BurnClock \/ BurnRestart
    \/ \E l \in changing, s \in {"green", "red"} : ChangeRecording(l, s)
    \/ \E s \in {"permit-required", "suspended"} : ChangePage(s)
    \/ \E apiUp \in BOOLEAN, token \in BurnToken, heard \in {{}, DialedLine} \cup {{l} : l \in changing} : ScheduledRun(apiUp, token, heard)
    \/ \E l \in changing \cap DialedLine, token \in BurnToken : ManualRun(l, token)
    \/ \E body \in world.bodies : LoseBody(body) \/ \E answered \in BOOLEAN : DeliverBody(body, answered)
    \/ \E reply \in {"ok", "unreadable", "error"} : BurnTick(reply)

BurnSpec(changing) == part = "burn" /\ BurnInit /\ [][BurnNext(changing)]_feedVars

(***************************************************************************)
(* Properties                                                              *)
(***************************************************************************)
\* PutBurnReading: "a retry or a duplicate delivery must never move a line
\* BACKWARDS to an older reading", whatever order two workers' pushes arrive in.
NewestReadingStaged ==
    part = "burn" => \A l \in BurnLine : world.staged[l].at = world.newest[l].at
                                         /\ world.staged[l].status = world.newest[l].status

\* mergeBurnDays, derivePermission: a poll answers ALLOWED only when each dialed
\* line was heard saying so, within the freshness bound, no other line was heard
\* saying no, and CAL FIRE was last heard not to have suspended burning.
AllowedIsBacked ==
    [][part = "burn" /\ live' # live =>
         \A e \in live' : e.permission = "ALLOWED" =>
            /\ \A l \in DialedLine : world.newest[l].status = "green" /\ world.now - world.newest[l].at <= BurnDayStale
            /\ \A l \in BurnLine : world.newest[l].status = "red" => world.now - world.newest[l].at > BurnDayStale
            /\ world'.calHeard \notin {"suspended", "unknown"}]_feedVars
============================================================================
