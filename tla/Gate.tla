-------------------------------- MODULE Gate --------------------------------
(***************************************************************************)
(* The admission gate of internal/handoff/gate.go: production requests     *)
(* enter and leave, quiescence closes the gate, waits for the ones inside, *)
(* cancels those that outlast the grace and reports what is left.          *)
(*                                                                         *)
(* The mutex makes enter, its done, Close, InFlight and idleCh atomic; the *)
(* drain calls them one after the other, and a request's context is tied   *)
(* to the gate's only after enter has released the mutex. Waiting is on    *)
(* the idle channel captured by the drain, which enter may replace: a      *)
(* channel is its number, and shut is the set of closed ones.              *)
(***************************************************************************)
EXTENDS Integers, FiniteSets

CONSTANTS
    Requests,  \* the requests that arrive; each enters at most once
    Ignoring   \* the ones whose handler ignores its context

ASSUME GateAssumption == IsFiniteSet(Requests) /\ Ignoring \subseteq Requests

VARIABLES
    closed,    \* Gate.closed
    inFlight,  \* Gate.inFlight
    idle,      \* Gate.idle: the channel
    shut,      \* the channels closed so far
    doubled,   \* a closed channel was closed again (a panic)
    cancelled, \* Gate.cancel was called
    req,       \* where each request is
    told,      \* the requests whose context is cancelled
    drain      \* the Drain call

gateVars == <<closed, inFlight, idle, shut, doubled, cancelled, req, told, drain>>

gate == <<closed, inFlight, idle, shut, doubled>>

NoDrain == [pc |-> "idle", ch |-> 0, inFlight |-> 0, cancelled |-> 0, remaining |-> 0]

\* NewGate: open, with a closed idle channel.
GateInit ==
    /\ closed = FALSE
    /\ inFlight = 0
    /\ idle = 0
    /\ shut = {0}
    /\ doubled = FALSE
    /\ cancelled = FALSE
    /\ req = [r \in Requests |-> "new"]
    /\ told = {}
    /\ drain = NoDrain

-----------------------------------------------------------------------------
\* enter on a closed gate: 503, or gRPC Unavailable.
Refuse(r) ==
    /\ req[r] = "new"
    /\ closed
    /\ req' = [req EXCEPT ![r] = "refused"]
    /\ UNCHANGED <<gate, cancelled, told, drain>>

\* enter, up to the unlock.
Admit(r) ==
    /\ req[r] = "new"
    /\ ~closed
    /\ idle' = IF inFlight = 0 THEN idle + 1 ELSE idle
    /\ inFlight' = inFlight + 1
    /\ req' = [req EXCEPT ![r] = "admitted"]
    /\ UNCHANGED <<closed, shut, doubled, cancelled, told, drain>>

(***************************************************************************)
(* context.AfterFunc: from here on a cancelled gate reaches the request,   *)
(* at once if it was cancelled before.                                     *)
(***************************************************************************)
Attach(r) ==
    /\ req[r] = "admitted"
    /\ req' = [req EXCEPT ![r] = "running"]
    /\ UNCHANGED <<gate, cancelled, told, drain>>

\* The runtime runs the AfterFunc of one request.
Tell(r) ==
    /\ req[r] = "running"
    /\ cancelled
    /\ r \notin told
    /\ told' = told \cup {r}
    /\ UNCHANGED <<gate, cancelled, req, drain>>

\* done: the handler returned, of itself or because its context ended.
Done(r) ==
    /\ req[r] = "running"
    /\ inFlight' = inFlight - 1
    /\ shut' = IF inFlight = 1 THEN shut \cup {idle} ELSE shut
    /\ doubled' = (doubled \/ (inFlight = 1 /\ idle \in shut))
    /\ req' = [req EXCEPT ![r] = "done"]
    /\ UNCHANGED <<closed, idle, cancelled, told, drain>>

-----------------------------------------------------------------------------
\* The relay's Quiesce closes the gate before it ends the sessions.
Close ==
    /\ ~closed
    /\ closed' = TRUE
    /\ UNCHANGED <<inFlight, idle, shut, doubled, cancelled, req, told, drain>>

\* Mutant: the drain waits without having closed the gate.
DrainStartOpen ==
    /\ drain.pc = "idle"
    /\ drain' = [drain EXCEPT !.pc = "closed"]
    /\ UNCHANGED <<gate, cancelled, req, told>>

DrainStart ==
    /\ drain.pc = "idle"
    /\ closed' = TRUE
    /\ drain' = [drain EXCEPT !.pc = "closed"]
    /\ UNCHANGED <<inFlight, idle, shut, doubled, cancelled, req, told>>

DrainCounts ==
    /\ drain.pc = "closed"
    /\ drain' = [drain EXCEPT !.pc = "counted", !.inFlight = inFlight]
    /\ UNCHANGED <<gate, cancelled, req, told>>

\* idleCh(), the argument of the first waitClosed.
DrainTakesChannel ==
    /\ drain.pc = "counted"
    /\ drain' = [drain EXCEPT !.pc = "grace", !.ch = idle]
    /\ UNCHANGED <<gate, cancelled, req, told>>

\* waitClosed returns true: everyone left inside the grace.
DrainIdle ==
    /\ drain.pc = "grace"
    /\ drain.ch \in shut
    /\ drain' = [drain EXCEPT !.pc = "done"]
    /\ UNCHANGED <<gate, cancelled, req, told>>

\* waitClosed returns false, and the requests left are counted.
DrainGraceEnds ==
    /\ drain.pc = "grace"
    /\ drain.ch \notin shut
    /\ drain' = [drain EXCEPT !.pc = "cancel"]
    /\ UNCHANGED <<gate, cancelled, req, told>>

DrainCountsLeft ==
    /\ drain.pc = "cancel"
    /\ drain' = [drain EXCEPT !.pc = "cancelling", !.cancelled = inFlight]
    /\ UNCHANGED <<gate, cancelled, req, told>>

DrainCancels ==
    /\ drain.pc = "cancelling"
    /\ cancelled' = TRUE
    /\ drain' = [drain EXCEPT !.pc = "wait", !.ch = idle]
    /\ UNCHANGED <<gate, req, told>>

\* The second waitClosed, whose result is not looked at.
DrainWaits ==
    /\ drain.pc = "wait"
    /\ drain' = [drain EXCEPT !.pc = "done", !.remaining = inFlight]
    /\ UNCHANGED <<gate, cancelled, req, told>>

Request(r) == Refuse(r) \/ Admit(r) \/ Attach(r) \/ Tell(r) \/ Done(r)

Drain ==
    \/ DrainStart \/ DrainCounts \/ DrainTakesChannel
    \/ DrainIdle \/ DrainGraceEnds \/ DrainCountsLeft \/ DrainCancels \/ DrainWaits

GateNext == Close \/ Drain \/ \E r \in Requests : Request(r)

GateSpec == GateInit /\ [][GateNext]_gateVars

(***************************************************************************)
(* The runtime runs an admitted request and its AfterFunc, and a handler   *)
(* that honours its context returns once the context ends. Nothing is      *)
(* assumed of a handler before that, nor of one that ignores its context.  *)
(***************************************************************************)
GateFairSpec ==
    /\ GateSpec
    /\ \A r \in Requests : WF_gateVars(Attach(r)) /\ WF_gateVars(Tell(r))
    /\ \A r \in Requests \ Ignoring : WF_gateVars(r \in told /\ Done(r))

-----------------------------------------------------------------------------
Inside == {r \in Requests : req[r] \in {"admitted", "running"}}

\* The gate, its requests and its drain hold values of their types.
GateTypeOK ==
    /\ closed \in BOOLEAN /\ doubled \in BOOLEAN /\ cancelled \in BOOLEAN
    /\ inFlight \in Nat
    /\ idle \in Nat
    /\ shut \subseteq 0..idle
    /\ req \in [Requests -> {"new", "refused", "admitted", "running", "done"}]
    /\ told \subseteq Requests
    /\ drain \in [pc : {"idle", "closed", "counted", "grace", "cancel", "cancelling",
                        "wait", "done"},
                  ch : Nat, inFlight : Nat, cancelled : Nat, remaining : Nat]

(***************************************************************************)
(* The idle channel is closed exactly while nobody is inside, though every *)
(* busy period has a channel of its own, and none is closed twice, which   *)
(* would panic in a request's done.                                        *)
(***************************************************************************)
IdleMeansNobody ==
    /\ idle \in shut <=> Inside = {}
    /\ ~doubled

(***************************************************************************)
(* A drain that reports nothing remaining, in the grace or after the       *)
(* cancellation, leaves no request inside, then or later; and the counts   *)
(* of its report only fall: nobody entered while it waited.                *)
(***************************************************************************)
DrainIsHonest ==
    drain.pc = "done" =>
        /\ drain.remaining = 0 => Inside = {}
        /\ drain.remaining <= drain.cancelled
        /\ drain.cancelled <= drain.inFlight
        /\ Cardinality(Inside) <= drain.inFlight

(***************************************************************************)
(* Once the drain cancels, every request inside whose handler honours its  *)
(* context leaves, one whose context was not yet tied to the gate's too.   *)
(***************************************************************************)
CancelReachesEveryone ==
    \A r \in Requests \ Ignoring :
        (cancelled /\ r \in Inside) ~> r \notin Inside

=============================================================================
