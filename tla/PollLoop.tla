------------------------------ MODULE PollLoop ------------------------------
(***************************************************************************)
(* The goroutines of the ingest scheduler (internal/ingest/scheduler.go):   *)
(* the loop of the burn poller with its wake-up, the refresh of the index   *)
(* statistics and the mesh maintenance, from Start to Stop, over restarts   *)
(* of the process.  A reading is its number: staged is the last one the     *)
(* push endpoint stored, live what the events show.                         *)
(***************************************************************************)
EXTENDS Feed

CONSTANTS StatsRefreshInterval, BootStatsRefreshDelay,
          MaxPushes,   \* bound on the readings
          MaxBoots     \* bound on the processes

ASSUME LoopIntervalsAssumption == StatsRefreshInterval \in Nat /\ BootStatsRefreshDelay \in Nat
ASSUME LoopBoundsAssumption == MaxPushes \in Nat /\ MaxBoots \in Nat

Bound == StatsRefreshInterval + BootStatsRefreshDelay

LoopInit ==
    /\ world = [phase |-> "off", maintains |-> FALSE, work |-> [g \in {} |-> "gone"], wake |-> FALSE, pushing |-> FALSE,
                staged |-> 0, holds |-> 0, tickFailed |-> FALSE, boots |-> 0, refreshIn |-> 0,
                stats |-> [has |-> FALSE, age |-> 0, refreshed |-> FALSE, excused |-> FALSE]]
    /\ live = {0}
    /\ result = NeverPolled

Set(w) == world' = w /\ UNCHANGED <<part, live, result>>

\* Analyze: the statistics are recomputed, or the run fails and they stay.
Analyzed(stats, ok) ==
    IF ok THEN [has |-> TRUE, age |-> 0, refreshed |-> TRUE, excused |-> FALSE]
    ELSE [stats EXCEPT !.excused = TRUE]

\* HasStatistics: they persist in the file.
HasStatistics(stats) == stats.has

\* runStatsRefresh, StatsRefreshFirstAfter: the first refresh comes early when
\* the boot kept the statistics it found.
FirstRefresh(kept) == IF kept THEN BootStatsRefreshDelay ELSE StatsRefreshInterval

\* The goroutines Start counts; the maintenance runs only for a deployment that
\* has a broker or a reporter (meshMaintenanceConfig).
Counted(maintains) == {"poller", "stats"} \cup (IF maintains THEN {"maintenance"} ELSE {})

Goroutines == {"poller", "stats", "maintenance"}

\* Activate, from HasStatistics on, and Start.  Without statistics they are
\* computed before the pollers start.
Boot(ok, maintains) ==
    /\ world.phase = "off" /\ world.boots < MaxBoots
    /\ LET kept == HasStatistics(world.stats)
           stats == IF kept THEN world.stats ELSE Analyzed(world.stats, ok)
       IN Set([world EXCEPT !.phase = "running", !.boots = @ + 1, !.maintains = maintains,
                 !.wake = FALSE, !.tickFailed = FALSE, !.refreshIn = FirstRefresh(kept),
                 !.stats = [stats EXCEPT !.refreshed = ~kept],
                 !.work = [g \in Goroutines |->
                             IF g = "poller" THEN "jitter" ELSE IF g = "stats" \/ maintains THEN "idle" ELSE "gone"]])

Up == world.phase # "off"
Work(g) == IF Up THEN world.work[g] ELSE "gone"

\* ingestBurn: the reading is stored, then the poller is woken.
PutReading ==
    /\ world.phase = "running" /\ ~world.pushing /\ world.staged < MaxPushes
    /\ Set([world EXCEPT !.staged = @ + 1, !.pushing = TRUE])

\* A mutant: the channel holds no signal, so only an idle poller gets it.
Unbuffered(pending) == pending \/ Work("poller") = "idle"

\* NewWake: a wake already pending absorbs another one.
Signalled(pending) == TRUE

WakeBurn ==
    /\ world.pushing
    /\ Set([world EXCEPT !.pushing = FALSE, !.wake = Signalled(@)])

\* run: after the jitter, at the interval, or when woken; the tick reads what is staged.
BeginTick(woken) ==
    /\ Work("poller") \in {"jitter", "idle"}
    /\ woken => world.wake /\ Work("poller") = "idle"
    /\ Set([world EXCEPT !.work["poller"] = "ticking", !.holds = world.staged,
                         !.wake = IF woken THEN FALSE ELSE @])

\* The tick publishes what it read; a failed, cancelled or panicking one nothing.
EndTick(ok) ==
    /\ Work("poller") = "ticking"
    /\ ok => world.phase # "cancelled"
    /\ live' = IF ok THEN {world.holds} ELSE live
    /\ world' = [world EXCEPT !.work["poller"] = "idle", !.tickFailed = ~ok]
    /\ UNCHANGED <<part, result>>

\* The timer of runStatsRefresh is reset, then ANALYZE runs.
BeginRefresh ==
    /\ Work("stats") = "idle" /\ world.refreshIn = 0
    /\ Set([world EXCEPT !.work["stats"] = "ticking", !.refreshIn = StatsRefreshInterval])
EndRefresh(ok) ==
    /\ Work("stats") = "ticking"
    /\ ok => world.phase # "cancelled"
    /\ Set([world EXCEPT !.work["stats"] = "idle", !.stats = Analyzed(@, ok)])

\* safeMeshMaintenance: each of its steps is logged and passed over when it fails.
BeginMaintenance ==
    /\ Work("maintenance") = "idle" /\ Set([world EXCEPT !.work["maintenance"] = "ticking"])
EndMaintenance ==
    /\ Work("maintenance") = "ticking" /\ Set([world EXCEPT !.work["maintenance"] = "idle"])

\* Time in service passes; a refresh that is due starts before more of it does.
LoopClock ==
    /\ world.phase = "running" /\ world.refreshIn > 0 /\ Work("stats") # "ticking"
    /\ world.stats.has /\ world.stats.age <= Bound
    /\ Set([world EXCEPT !.stats.age = @ + 1, !.refreshIn = @ - 1])

\* Stop: the loops are asked to exit; after the grace their context is cancelled.
BeginStop == world.phase = "running" /\ Set([world EXCEPT !.phase = "stopping"])
CancelWork == world.phase = "stopping" /\ Set([world EXCEPT !.phase = "cancelled"])

\* A loop between two ticks sees the stop and ends.
LoopExits(g) ==
    /\ world.phase \in {"stopping", "cancelled"} /\ Work(g) \in {"jitter", "idle"}
    /\ Set([world EXCEPT !.work[g] = "gone"])

\* Stop returns nil when all it counted have ended; the store is closed then.
StopReturns ==
    /\ world.phase \in {"stopping", "cancelled"} /\ ~world.pushing
    /\ \A g \in Counted(world.maintains) : Work(g) = "gone"
    /\ Set([world EXCEPT !.phase = "closed"])

\* The process ends after the close, or at any moment (a Stop that times out
\* leaves the phase as it is and is called again).  A process that ends
\* before its first refresh did nothing for the statistics.
ProcessEnds ==
    /\ Up
    /\ Set([world EXCEPT !.phase = "off", !.work = [g \in {} |-> "gone"], !.pushing = FALSE, !.wake = FALSE,
                         !.tickFailed = FALSE, !.refreshIn = 0, !.holds = 0,
                         !.stats.excused = @ \/ ~world.stats.refreshed])

LoopNext ==
    \/ \E ok, maintains \in BOOLEAN : Boot(ok, maintains)
    \/ PutReading \/ WakeBurn
    \/ \E b \in BOOLEAN : BeginTick(b) \/ EndTick(b) \/ EndRefresh(b)
    \/ BeginRefresh \/ BeginMaintenance \/ EndMaintenance \/ LoopClock
    \/ BeginStop \/ CancelWork \/ StopReturns \/ ProcessEnds
    \/ \E g \in Goroutines : LoopExits(g)

LoopSpec == part = "loop" /\ LoopInit /\ [][LoopNext]_feedVars

(***************************************************************************)
(* Properties                                                              *)
(***************************************************************************)

\* A reading accepted while the poller runs is never left to wait for the next
\* interval: when the poller is idle the events show the last reading, or a
\* wake-up is pending, or the last tick failed.  It covers a reading that lands
\* while a tick that has read the table already is still writing (NewWake,
\* scheduler.go; WithBurnAccepted, cmd/server/grid.go).
WakeIsNotLost ==
    part = "loop" /\ Work("poller") = "idle" /\ ~world.pushing /\ ~world.tickFailed
        => live = {world.staged} \/ world.wake

\* Deploys that follow one another faster than the refresh interval still
\* refresh the statistics: in time in service they never grow older than one
\* interval and the delay after a boot, unless an ANALYZE failed or a process ended before its
\* first (SchedulerConfig.StatsRefreshFirstAfter, scheduler.go).
StatsKeepUp ==
    part = "loop" /\ world.stats.has /\ ~world.stats.excused => world.stats.age <= Bound

\* Once Stop has returned nil nothing of the scheduler touches the store again:
\* no tick, no ANALYZE and no maintenance is under way when the store is closed
\* (Scheduler.Stop, scheduler.go).
StopIsFinal ==
    part = "loop" /\ world.phase = "closed" => \A g \in Goroutines : world.work[g] = "gone"
============================================================================
