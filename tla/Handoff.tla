------------------------------ MODULE Handoff ------------------------------
(***************************************************************************)
(* The lifecycle of the processes that may own one SQLite database:        *)
(* internal/handoff/controller.go (the state machine, its control API and  *)
(* Run) driving the Grid service of cmd/server/grid.go (Activate, Quiesce) *)
(* over the file lock of internal/store/store.go.                          *)
(*                                                                         *)
(* A member of Proc is one process incarnation (one instanceId).  Go's     *)
(* goroutines appear as separate actors on the same variables: the control *)
(* API handlers, the goroutine that runs the current operation (job), and  *)
(* Run's own loop (phase).  Every handler runs under Controller.mu, so it  *)
(* is one action; a service call takes many steps and may fail at each.    *)
(***************************************************************************)
EXTENDS Naturals

CONSTANTS Proc,          \* process incarnations
          Ids,           \* operation ids that control-API clients send (NoId: none)
          Standby,       \* the incarnations started with --standby
          LockEnforced   \* whether flock excludes a second opener

NoId    == "none"        \* operationId left out of a request
BootId  == "boot"        \* id of the activation Run begins without --standby
SigId   == "signal"      \* ids of the quiescences shutdown begins (random)
AnonId  == "anon"        \* an id the server makes up (random, never resent)

ASSUME HandoffAssumption ==
    /\ Standby \subseteq Proc
    /\ LockEnforced \in BOOLEAN
    /\ Ids \cap {BootId, SigId, AnonId} = {}

VARIABLES
    \* Controller, guarded by its mutex
    state,        \* the lifecycle state
    held,         \* databaseHeld: the database may be open
    op,           \* the current or last operation
    activatedBy,  \* id of the activation that succeeded
    cancelled,    \* the running activation's context was cancelled
    \* Run
    phase,        \* where Run is
    boot,         \* the boot activation, as Run's bootDone channel sees it
    tries,        \* shutdown's quiesce attempts
    fatal,        \* Fail's buffered channel holds an error
    code,         \* the exit code ("fatal": it will be 1 whatever happens)
    \* gridApp
    job,          \* the service call in progress and its next step
    gate,         \* the admission gate
    store,        \* the grid store
    sched,        \* the ingest scheduler's goroutines run
    bg,           \* the neighbour-graph rebuild runs (WaitGroup bg)
    done,         \* gridApp.quiesced: quiesce steps already completed
    port,         \* prefab's production listener is bound
    \* the kernel
    lock          \* holders of the flock on <db>.lock

ctlVars == <<state, held, op, activatedBy, cancelled>>
runVars == <<phase, boot, tries, fatal, code>>
svcVars == <<job, gate, store, sched, bg, done, port, lock>>
vars    == <<ctlVars, runVars, svcVars>>

States   == {"STANDBY", "ACTIVATING", "ACTIVE", "QUIESCING", "QUIESCED"}
OpIds    == Ids \cup {NoId, BootId, SigId, AnonId}
Kinds    == {"none", "activate", "quiesce"}
Statuses == {"none", "running", "succeeded", "failed"}
Steps    == {"drain", "workers", "bg", "store"}     \* of Quiesce
Jobs     == {"idle", "open", "seed", "listen", "acted", "released", "failed"}
                \cup Steps

NoOp == [id |-> NoId, kind |-> "none", status |-> "none"]

\* The process exists and its control listener answers.
Serving(p) == phase[p] \in {"boot", "wait", "stop", "exiting"}
Running(p) == op[p].status = "running"

-----------------------------------------------------------------------------
(***************************************************************************)
(* Process start.  New leaves a legacy process in ACTIVATING with no       *)
(* operation; Run serves the control API before it begins the boot         *)
(* activation, so there is a phase "boot" in which requests already land.  *)
(***************************************************************************)
Init ==
    /\ state       = [p \in Proc |-> IF p \in Standby THEN "STANDBY" ELSE "ACTIVATING"]
    /\ held        = [p \in Proc |-> FALSE]
    /\ op          = [p \in Proc |-> NoOp]
    /\ activatedBy = [p \in Proc |-> NoId]
    /\ cancelled   = [p \in Proc |-> FALSE]
    /\ phase       = [p \in Proc |-> "down"]
    /\ boot        = [p \in Proc |-> "none"]
    /\ tries       = [p \in Proc |-> 0]
    /\ fatal       = [p \in Proc |-> FALSE]
    /\ code        = [p \in Proc |-> "none"]
    /\ job         = [p \in Proc |-> "idle"]
    /\ gate        = [p \in Proc |-> "none"]
    /\ store       = [p \in Proc |-> "none"]
    /\ sched       = [p \in Proc |-> FALSE]
    /\ bg          = [p \in Proc |-> FALSE]
    /\ done        = [p \in Proc |-> {}]
    /\ port        = [p \in Proc |-> FALSE]
    /\ lock        = {}

Start(p) ==
    /\ phase[p] = "down"
    /\ phase' = [phase EXCEPT ![p] = IF p \in Standby THEN "wait" ELSE "boot"]
    /\ UNCHANGED <<ctlVars, boot, tries, fatal, code, svcVars>>

-----------------------------------------------------------------------------
(***************************************************************************)
(* beginLocked, finishLocked and fenceLocked: the mutex-protected edges of *)
(* every operation.  The goroutine of the operation starts at the first    *)
(* step of its service call.                                               *)
(***************************************************************************)
Begin(p, kind, id) ==
    /\ op'    = [op    EXCEPT ![p] = [id |-> id, kind |-> kind, status |-> "running"]]
    /\ state' = [state EXCEPT ![p] = IF kind = "activate" THEN "ACTIVATING" ELSE "QUIESCING"]
    /\ held'  = [held  EXCEPT ![p] = @ \/ kind = "activate"]
    /\ job'   = [job   EXCEPT ![p] = IF kind = "activate" THEN "open" ELSE "drain"]
    /\ UNCHANGED <<activatedBy, cancelled, gate, store, sched, bg, done, port, lock>>

\* finishLocked: record the outcome and close opDone, which is the boot
\* channel when the finished operation is the boot activation.
Finish(p, status) ==
    /\ op'   = [op   EXCEPT ![p].status = status]
    /\ boot' = [boot EXCEPT ![p] = IF op[p].id = BootId /\ @ = "running" THEN "done" ELSE @]
    /\ job'  = [job  EXCEPT ![p] = "idle"]
    /\ UNCHANGED <<phase, tries, fatal, code, gate, store, sched, bg, done, port, lock>>

FenceLocked(p, id) ==
    /\ op'    = [op    EXCEPT ![p] = [id |-> id, kind |-> "quiesce", status |-> "succeeded"]]
    /\ state' = [state EXCEPT ![p] = "QUIESCED"]
    /\ held'  = [held  EXCEPT ![p] = FALSE]
    /\ UNCHANGED <<activatedBy, cancelled, svcVars>>

-----------------------------------------------------------------------------
(***************************************************************************)
(* The control API.  The answers are the transition table of               *)
(* handleActivate and handleQuiesce: "begin" and "fence" change state,     *)
(* every other answer is a reply only.  "panic" is the nil dereference of  *)
(* c.op that net/http turns into a dropped connection.                     *)
(***************************************************************************)
\* Mutant: a released process accepts an activation.
ActivateAnswerReopens(p, id) == IF state[p] \in {"STANDBY", "QUIESCED"} THEN "begin" ELSE "released"

ActivateAnswer(p, id) ==
    CASE state[p] = "STANDBY" ->
             IF op[p].kind = "activate" /\ op[p].id = id /\ id # NoId
             THEN "operation_failed" ELSE "begin"
      [] state[p] = "ACTIVATING" ->
             IF id = NoId THEN "accepted"
             ELSE IF op[p] = NoOp THEN "panic"
             ELSE IF id = op[p].id THEN "accepted" ELSE "activation_in_progress"
      [] state[p] = "ACTIVE" ->
             IF id \in {NoId, activatedBy[p]} THEN "ok" ELSE "already_active"
      [] OTHER -> "released"

QuiesceAnswer(p, id) ==
    CASE state[p] = "STANDBY"    -> "fence"
      [] state[p] = "ACTIVATING" -> IF op[p] = NoOp THEN "panic" ELSE "activation_in_progress"
      [] state[p] = "ACTIVE"     -> "begin"
      [] state[p] = "QUIESCING"  ->
             IF Running(p)
             THEN IF id \in {NoId, op[p].id} THEN "accepted" ELSE "quiescence_in_progress"
             ELSE IF id # NoId /\ id = op[p].id THEN "operation_failed" ELSE "begin"
      [] OTHER -> "ok"

NamedId(id) == IF id = NoId THEN AnonId ELSE id

HandleActivate(p, id) ==
    /\ Serving(p)
    /\ ActivateAnswer(p, id) = "begin"
    /\ Begin(p, "activate", NamedId(id))
    /\ UNCHANGED runVars

HandleQuiesce(p, id) ==
    /\ Serving(p)
    /\ \/ /\ QuiesceAnswer(p, id) = "begin"
          /\ Begin(p, "quiesce", NamedId(id))
       \/ /\ QuiesceAnswer(p, id) = "fence"
          /\ FenceLocked(p, AnonId)
    /\ UNCHANGED runVars

-----------------------------------------------------------------------------
(***************************************************************************)
(* gridApp.Activate.  Each attempt starts from a fresh gate and cleared    *)
(* flags; every failure (an error, a cancelled context, a recovered panic) *)
(* runs Quiesce to release what the attempt opened.                        *)
(***************************************************************************)
Goto(p, step) == job' = [job EXCEPT ![p] = step]

\* acquireDBLock gets through: nobody else holds the flock, or the filesystem
\* does not enforce it between hosts.
LockFree(p) == LockEnforced => lock \subseteq {p}

\* store.Open: the flock is taken first, and kept only if the open succeeds.
OpenStore(p) ==
    /\ job[p] = "open"
    /\ LockFree(p)
    /\ lock'  = lock \cup {p}
    /\ store' = [store EXCEPT ![p] = "open"]
    /\ gate'  = [gate  EXCEPT ![p] = "open"]
    /\ done'  = [done  EXCEPT ![p] = {}]
    /\ Goto(p, "seed")
    /\ UNCHANGED <<ctlVars, runVars, sched, bg, port>>

\* The lock timed out, its wait was cancelled, or the open or a migration failed.
OpenFails(p) ==
    /\ job[p] = "open"
    /\ store' = [store EXCEPT ![p] = "none"]
    /\ gate'  = [gate  EXCEPT ![p] = "open"]
    /\ done'  = [done  EXCEPT ![p] = {}]
    /\ Goto(p, "drain")
    /\ UNCHANGED <<ctlVars, runVars, sched, bg, port, lock>>

\* The mesh registry, with its background rebuild if there are nodes to replay,
\* then scheduler.Start and the services that run beside it.
StartsRebuild(p) == \E b \in BOOLEAN : bg' = [bg EXCEPT ![p] = b]
StartsWorkers(p) == sched' = [sched EXCEPT ![p] = TRUE]

\* Seeding; the context is checked last just before the scheduler starts.
Seed(p) ==
    /\ job[p] = "seed"
    /\ ~cancelled[p]
    /\ StartsRebuild(p)
    /\ StartsWorkers(p)
    /\ Goto(p, "listen")
    /\ UNCHANGED <<ctlVars, runVars, gate, store, done, port, lock>>

SeedFails(p) ==
    /\ job[p] = "seed"
    /\ StartsRebuild(p)
    /\ Goto(p, "drain")
    /\ UNCHANGED <<ctlVars, runVars, gate, store, sched, done, port, lock>>

PortFree(p) == ~port[p]

\* PortFree, server.Start and WaitListening.  WaitListening dials before it
\* looks at the context, so a cancelled activation can still succeed here.
Listen(p) ==
    /\ job[p] = "listen"
    /\ PortFree(p)
    /\ port' = [port EXCEPT ![p] = TRUE]
    /\ Goto(p, "acted")
    /\ UNCHANGED <<ctlVars, runVars, gate, store, sched, bg, done, lock>>

\* PortFree refuses, or WaitListening gives up: the server it started is not
\* stopped and may still bind the port.
ListenFails(p) ==
    /\ job[p] = "listen"
    /\ \E b \in BOOLEAN : port' = [port EXCEPT ![p] = @ \/ b]
    /\ Goto(p, "drain")
    /\ UNCHANGED <<ctlVars, runVars, gate, store, sched, bg, done, lock>>

Activating(p) ==
    OpenStore(p) \/ OpenFails(p) \/ Seed(p) \/ SeedFails(p) \/ Listen(p) \/ ListenFails(p)

-----------------------------------------------------------------------------
(***************************************************************************)
(* gridApp.Quiesce: drain the gate, stop the scheduler, cancel and wait    *)
(* for the background readers, close the store.  A step already done is    *)
(* skipped, so a retry resumes at the step that failed.                    *)
(***************************************************************************)
Done(p, step) == done' = [done EXCEPT ![p] = @ \cup {step}]

Drain(p) ==
    /\ job[p] = "drain"
    /\ gate' = [gate EXCEPT ![p] = IF "drain" \notin done[p] /\ @ # "none" THEN "closed" ELSE @]
    /\ Done(p, "drain")
    /\ Goto(p, "workers")
    /\ UNCHANGED <<ctlVars, runVars, store, sched, bg, port, lock>>

\* Mutant: the scheduler is told to stop and not waited for.
StopWorkersNoWait(p) ==
    /\ job[p] = "workers"
    /\ Done(p, "workers")
    /\ Goto(p, "bg")
    /\ UNCHANGED <<ctlVars, runVars, gate, store, sched, bg, port, lock>>

StopWorkers(p) ==
    /\ job[p] = "workers"
    /\ sched' = [sched EXCEPT ![p] = @ /\ "workers" \in done[p]]
    /\ Done(p, "workers")
    /\ Goto(p, "bg")
    /\ UNCHANGED <<ctlVars, runVars, gate, store, bg, port, lock>>

\* MeshCore's Close cannot fail, and then runCancel ends the readers.
StopBackground(p) ==
    /\ job[p] = "bg"
    /\ bg' = [bg EXCEPT ![p] = @ /\ "bg" \in done[p]]
    /\ Done(p, "bg")
    /\ Goto(p, "store")
    /\ UNCHANGED <<ctlVars, runVars, gate, store, sched, port, lock>>

\* Store.Close closes the connections and then the lock file.
CloseStore(p) ==
    /\ job[p] = "store"
    /\ store' = [store EXCEPT ![p] = IF "store" \notin done[p] /\ @ = "open" THEN "closed" ELSE @]
    /\ lock'  = IF "store" \notin done[p] THEN lock \ {p} ELSE lock
    /\ Done(p, "store")
    /\ Goto(p, "released")
    /\ UNCHANGED <<ctlVars, runVars, gate, sched, bg, port>>

\* db.Close reports an error: the lock file is closed all the same.
CloseFails(p) ==
    /\ job[p] = "store"
    /\ "store" \notin done[p] /\ store[p] = "open"
    /\ store' = [store EXCEPT ![p] = "closed"]
    /\ lock'  = lock \ {p}
    /\ Goto(p, "failed")
    /\ UNCHANGED <<ctlVars, runVars, gate, sched, bg, done, port>>

\* Goroutines outlive the stop budget, or the step panics (callService).
StepFails(p) ==
    /\ job[p] \in Steps
    /\ Goto(p, "failed")
    /\ UNCHANGED <<ctlVars, runVars, gate, store, sched, bg, done, port, lock>>

Quiescing(p) ==
    \/ Drain(p) \/ StopWorkers(p) \/ StopBackground(p)
    \/ CloseStore(p) \/ CloseFails(p) \/ StepFails(p)

-----------------------------------------------------------------------------
(***************************************************************************)
(* runActivate and runQuiesce, once the service call has returned.  A      *)
(* failed activation that released is back in STANDBY; one that could not  *)
(* (ErrStillHeld) is QUIESCING with a failed operation.                    *)
(***************************************************************************)
\* Mutant: ErrStillHeld is ignored, every failed activation is back in STANDBY.
ActivateReturnsFree(p) ==
    /\ job[p] \in {"acted", "released", "failed"}
    /\ op[p].kind = "activate"
    /\ state' = [state EXCEPT ![p] = IF job[p] = "acted" THEN "ACTIVE" ELSE "STANDBY"]
    /\ held' = [held EXCEPT ![p] = job[p] = "acted"]
    /\ activatedBy' = [activatedBy EXCEPT ![p] = IF job[p] = "acted" THEN op[p].id ELSE @]
    /\ Finish(p, IF job[p] = "acted" THEN "succeeded" ELSE "failed")
    /\ cancelled' = [cancelled EXCEPT ![p] = FALSE]

ActivateReturns(p) ==
    /\ job[p] \in {"acted", "released", "failed"}
    /\ op[p].kind = "activate"
    /\ state' = [state EXCEPT ![p] = CASE job[p] = "acted"    -> "ACTIVE"
                                       [] job[p] = "released" -> "STANDBY"
                                       [] OTHER               -> "QUIESCING"]
    /\ held' = [held EXCEPT ![p] = job[p] # "released"]
    /\ activatedBy' = [activatedBy EXCEPT ![p] = IF job[p] = "acted" THEN op[p].id ELSE @]
    /\ Finish(p, IF job[p] = "acted" THEN "succeeded" ELSE "failed")
    /\ cancelled' = [cancelled EXCEPT ![p] = FALSE]

QuiesceReturns(p) ==
    /\ job[p] \in {"released", "failed"}
    /\ op[p].kind = "quiesce"
    /\ state' = [state EXCEPT ![p] = IF job[p] = "released" THEN "QUIESCED" ELSE @]
    /\ held'  = [held  EXCEPT ![p] = @ /\ job[p] # "released"]
    /\ Finish(p, IF job[p] = "released" THEN "succeeded" ELSE "failed")
    /\ UNCHANGED <<activatedBy, cancelled>>

\* The rebuild finishes by itself.
BackgroundEnds(p) ==
    /\ bg[p]
    /\ bg' = [bg EXCEPT ![p] = FALSE]
    /\ UNCHANGED <<ctlVars, runVars, job, gate, store, sched, done, port, lock>>

\* prefab's Start returns: on its own error after activation, which the
\* watcher reports through Fail, or for the SIGTERM that also reached Run.
ServerStops(p) ==
    /\ port[p]
    /\ port'  = [port  EXCEPT ![p] = FALSE]
    /\ fatal' = [fatal EXCEPT ![p] =
                    @ \/ (phase[p] = "wait" /\ (activatedBy[p] # NoId \/ job[p] = "acted"))]
    /\ UNCHANGED <<ctlVars, phase, boot, tries, code, job, gate, store, sched, bg, done, lock>>

-----------------------------------------------------------------------------
(***************************************************************************)
(* Run: the boot activation, the wait loop, shutdown, and the exit.        *)
(***************************************************************************)
BootBegins(p) ==
    /\ phase[p] = "boot"
    /\ phase' = [phase EXCEPT ![p] = "wait"]
    /\ boot'  = [boot  EXCEPT ![p] = "running"]
    /\ Begin(p, "activate", BootId)
    /\ UNCHANGED <<tries, fatal, code>>

\* case <-bootDone: anything but ACTIVE by the time Run looks ends the process.
BootDone(p) ==
    /\ phase[p] = "wait"
    /\ boot[p] = "done"
    /\ boot'  = [boot EXCEPT ![p] = "none"]
    /\ \/ /\ state[p] = "ACTIVE"
          /\ UNCHANGED <<phase, code>>
       \/ /\ state[p] # "ACTIVE"
          /\ phase' = [phase EXCEPT ![p] = "exiting"]
          /\ code'  = [code  EXCEPT ![p] = "one"]
    /\ UNCHANGED <<ctlVars, tries, fatal, svcVars>>

Signal(p) ==
    /\ phase[p] = "wait"
    /\ phase' = [phase EXCEPT ![p] = "stop"]
    /\ UNCHANGED <<ctlVars, boot, tries, fatal, code, svcVars>>

FailSeen(p) ==
    /\ phase[p] = "wait" /\ fatal[p]
    /\ phase' = [phase EXCEPT ![p] = "stop"]
    /\ fatal' = [fatal EXCEPT ![p] = FALSE]
    /\ code'  = [code  EXCEPT ![p] = "fatal"]
    /\ UNCHANGED <<ctlVars, boot, tries, svcVars>>

\* shutdown's result, forced to 1 after a failed service.
ShutdownReturns(p, c) ==
    /\ phase' = [phase EXCEPT ![p] = "exiting"]
    /\ code'  = [code  EXCEPT ![p] = IF @ = "fatal" THEN "one" ELSE c]
    /\ UNCHANGED <<boot, fatal>>

ShutdownFences(p) ==
    /\ phase[p] = "stop" /\ tries[p] < 2
    /\ state[p] = "STANDBY"
    /\ FenceLocked(p, SigId)
    /\ ShutdownReturns(p, "zero")
    /\ UNCHANGED tries

ShutdownReleased(p) ==
    /\ phase[p] = "stop" /\ tries[p] < 2
    /\ state[p] = "QUIESCED"
    /\ ShutdownReturns(p, "zero")
    /\ UNCHANGED <<tries, ctlVars, svcVars>>

\* cancelActive, then wait for the activation to finish: not an attempt.
ShutdownCancels(p) ==
    /\ phase[p] = "stop" /\ tries[p] < 2
    /\ state[p] = "ACTIVATING" /\ ~cancelled[p]
    /\ cancelled' = [cancelled EXCEPT ![p] = TRUE]
    /\ UNCHANGED <<state, held, op, activatedBy, runVars, svcVars>>

\* A quiescence already running is waited for (no step); otherwise one more
\* attempt, run synchronously.
ShutdownQuiesces(p) ==
    /\ phase[p] = "stop" /\ tries[p] < 2
    /\ state[p] \in {"ACTIVE", "QUIESCING"} /\ ~Running(p)
    /\ Begin(p, "quiesce", SigId)
    /\ tries' = [tries EXCEPT ![p] = @ + 1]
    /\ UNCHANGED <<phase, boot, fatal, code>>

\* Mutant: shutdown insists on a release before it gives up.
ShutdownEndsReleased(p) ==
    /\ phase[p] = "stop" /\ tries[p] = 2
    /\ ~held[p]
    /\ ShutdownReturns(p, "zero")
    /\ UNCHANGED <<tries, ctlVars, svcVars>>

\* Both attempts are used up and the second has returned.
ShutdownEnds(p) ==
    /\ phase[p] = "stop" /\ tries[p] = 2
    /\ ~(Running(p) /\ op[p].id = SigId)
    /\ ShutdownReturns(p, IF held[p] THEN "one" ELSE "zero")
    /\ UNCHANGED <<tries, ctlVars, svcVars>>

Shutdown(p) ==
    \/ ShutdownFences(p) \/ ShutdownReleased(p) \/ ShutdownCancels(p)
    \/ ShutdownQuiesces(p) \/ ShutdownEnds(p)

\* The end of the process: its memory and goroutines go, and the kernel closes
\* every file.  state stays as the last one reported.
Gone(p, c) ==
    /\ phase' = [phase EXCEPT ![p] = "exited"]
    /\ code'  = [code  EXCEPT ![p] = c]
    /\ held'  = [held  EXCEPT ![p] = FALSE]
    /\ op'    = [op    EXCEPT ![p] = NoOp]
    /\ activatedBy' = [activatedBy EXCEPT ![p] = NoId]
    /\ cancelled'   = [cancelled   EXCEPT ![p] = FALSE]
    /\ boot'  = [boot  EXCEPT ![p] = "none"]
    /\ tries' = [tries EXCEPT ![p] = 0]
    /\ fatal' = [fatal EXCEPT ![p] = FALSE]
    /\ job'   = [job   EXCEPT ![p] = "idle"]
    /\ gate'  = [gate  EXCEPT ![p] = "none"]
    /\ store' = [store EXCEPT ![p] = "none"]
    /\ sched' = [sched EXCEPT ![p] = FALSE]
    /\ bg'    = [bg    EXCEPT ![p] = FALSE]
    /\ done'  = [done  EXCEPT ![p] = {}]
    /\ port'  = [port  EXCEPT ![p] = FALSE]
    /\ lock'  = lock \ {p}
    /\ UNCHANGED state

Exit(p) == phase[p] = "exiting" /\ Gone(p, code[p])

SecondSignal(p) == phase[p] \in {"stop", "exiting"} /\ Gone(p, "one")

Killed(p) == Serving(p) /\ Gone(p, "killed")

-----------------------------------------------------------------------------
Api(p)     == \E id \in Ids : HandleActivate(p, id) \/ HandleQuiesce(p, id)
Service(p) == Activating(p) \/ Quiescing(p) \/ ActivateReturns(p) \/ QuiesceReturns(p)
Loop(p)    == BootBegins(p) \/ BootDone(p) \/ FailSeen(p) \/ Shutdown(p) \/ Exit(p)
Environ(p) == Start(p) \/ Signal(p) \/ SecondSignal(p) \/ Killed(p)
                  \/ BackgroundEnds(p) \/ ServerStops(p)

Next == \E p \in Proc : Api(p) \/ Service(p) \/ Loop(p) \/ Environ(p)

Spec == Init /\ [][Next]_vars

(***************************************************************************)
(* Fairness.  The operation's goroutine always gets on: every wait in      *)
(* Activate and Quiesce has a deadline or a cancellation, so a stuck step  *)
(* fails in the end.  Run's goroutine is scheduled whenever it can go on.  *)
(* Clients, signals, crashes and the listener owe nothing.                 *)
(***************************************************************************)
Fairness == \A p \in Proc : WF_vars(Service(p)) /\ WF_vars(Loop(p))

FairSpec == Spec /\ Fairness

(***************************************************************************)
(* A bound of the runs: every behaviour keeps to one process, so that one  *)
(* run covers both ways to start.  Two processes at once are the subject   *)
(* of Coordination.                                                        *)
(***************************************************************************)
Alone == \A p, q \in Proc : phase[p] # "down" /\ phase[q] # "down" => p = q
-----------------------------------------------------------------------------
(***************************************************************************)
(* Properties.                                                             *)
(***************************************************************************)
TypeOK ==
    /\ state \in [Proc -> States]
    /\ held \in [Proc -> BOOLEAN]
    /\ op \in [Proc -> [id : OpIds, kind : Kinds, status : Statuses]]
    /\ activatedBy \in [Proc -> OpIds]
    /\ cancelled \in [Proc -> BOOLEAN]
    /\ phase \in [Proc -> {"down", "boot", "wait", "stop", "exiting", "exited"}]
    /\ boot \in [Proc -> {"none", "running", "done"}]
    /\ tries \in [Proc -> 0..2]
    /\ fatal \in [Proc -> BOOLEAN]
    /\ code \in [Proc -> {"none", "fatal", "zero", "one", "killed"}]
    /\ job \in [Proc -> Jobs]
    /\ gate \in [Proc -> {"none", "open", "closed"}]
    /\ store \in [Proc -> {"none", "open", "closed"}]
    /\ sched \in [Proc -> BOOLEAN]
    /\ bg \in [Proc -> BOOLEAN]
    /\ done \in [Proc -> SUBSET Steps]
    /\ port \in [Proc -> BOOLEAN]
    /\ lock \subseteq Proc

\* Something of p reaches the database: its lock, its connections, a poller or
\* a background reader.
UsesDb(p) == p \in lock \/ store[p] = "open" \/ sched[p] \/ bg[p]

(* What /status reports is never optimistic: while anything of a process     *)
(* reaches the database, databaseHeld is true, through every failed, retried *)
(* or half-finished activation and quiescence (controller.go held).          *)
HeldCoversUse == \A p \in Proc : UsesDb(p) => held[p]

(* The quiescence contract's order, over retries that resume in the middle:  *)
(* once the store of an attempt is closed, no poller and no background       *)
(* reader is left running and the gate admits nobody (gridApp.Quiesce).      *)
UsersStopBeforeClose ==
    \A p \in Proc : store[p] = "closed" => ~sched[p] /\ ~bg[p] /\ gate[p] = "closed"

(* STANDBY and QUIESCED are settled: no service call is under way and the    *)
(* gate of an earlier attempt is shut, so a fence or an exit there leaves no *)
(* goroutine behind that could still open the database.                      *)
ReleasedIsSettled ==
    \A p \in Proc : Serving(p) /\ state[p] \in {"STANDBY", "QUIESCED"} =>
        /\ job[p] = "idle" /\ ~Running(p)
        /\ gate[p] # "open"

(* Exit status 0 is only ever returned by a process whose database ended     *)
(* released: terminally fenced or quiesced, nothing in use, although the     *)
(* control API still answers while Run is on its way out (Run, shutdown).    *)
ExitZeroReleased ==
    \A p \in Proc : code[p] = "zero" =>
        state[p] = "QUIESCED" /\ ~held[p] /\ ~UsesDb(p)

(* At most one operation is in flight, and it is the one c.op names: no      *)
(* handler, boot or signal replaces a running operation, so opDone is closed *)
(* exactly once (beginLocked, finishLocked).                                 *)
OneOperation ==
    [][\A p \in Proc : Running(p) /\ op'[p] # op[p] /\ phase'[p] # "exited" =>
          op'[p].status # "running" /\ op'[p].id = op[p].id /\ op'[p].kind = op[p].kind]_vars

(* A process that has begun to release never serves again: QUIESCED is       *)
(* terminal, and QUIESCING only ever leads to QUIESCED, whatever commands,   *)
(* replays and signals arrive.                                               *)
NeverReopens ==
    [][\A p \in Proc : /\ state[p] = "QUIESCED" => state'[p] = "QUIESCED" /\ ~UsesDb(p)'
                       /\ state[p] = "QUIESCING" => state'[p] \in {"QUIESCING", "QUIESCED"}]_vars

(* "Every response carries state, instanceId and operation" and the table of *)
(* docs/deploy-handoff.md gives every command an answer in every state.      *)
EveryCommandAnswered ==
    \A p \in Proc, id \in Ids : Serving(p) =>
        ActivateAnswer(p, id) # "panic" /\ QuiesceAnswer(p, id) # "panic"

(* SIGTERM, or a failed service, always ends the process, whatever operation *)
(* is running and however often its steps fail, once clients stop sending    *)
(* commands.  The condition is needed: shutdown does not count an attempt it *)
(* only waited for, so a client that retries a failing quiescence at the     *)
(* right moments keeps it from its own (shutdown, attempt--).                *)
ShutdownTerminates ==
    <>[][\A p \in Proc : ~Api(p)]_vars =>
        \A p \in Proc : phase[p] = "stop" ~> phase[p] = "exited"

(* Every accepted operation comes to an outcome a coordinator polling        *)
(* /status can see, or the process goes away with it.                        *)
OperationsFinish == \A p \in Proc : Running(p) ~> ~Running(p)
=============================================================================
