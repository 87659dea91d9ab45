--------------------------- MODULE HandoffProofs ---------------------------
(***************************************************************************)
(* Proofs about the process lifecycle of Handoff, for any set of           *)
(* processes, any operation ids, enforced and unenforced locks, and, in    *)
(* the second half, about the processes with their coordinator.            *)
(*                                                                         *)
(* None of the safety invariants is inductive by itself: that nothing is   *)
(* in use once databaseHeld is false depends on which quiesce steps are    *)
(* recorded as done, on where the service call is, and on the operation    *)
(* and the state agreeing about which call it is.  Inv is that             *)
(* strengthening, one conjunct per agreement.                              *)
(***************************************************************************)
EXTENDS Coordination, TLAPS

\* The state, the operation and the goroutine of the service call agree.
OpInv(p) ==
    /\ Running(p) <=> job[p] # "idle"
    /\ Running(p) => /\ phase[p] \in {"wait", "stop", "exiting"}
                     /\ held[p]
                     /\ op[p].kind \in {"activate", "quiesce"}
                     /\ op[p].kind = "activate" => state[p] = "ACTIVATING"
                     /\ op[p].kind = "quiesce" => /\ state[p] = "QUIESCING"
                                                  /\ job[p] \in Steps \cup {"released", "failed"}
    /\ state[p] = "ACTIVATING" /\ phase[p] \in {"wait", "stop", "exiting"} => Running(p)
    /\ phase[p] = "boot" => state[p] = "ACTIVATING" /\ op[p] = NoOp
    /\ phase[p] = "down" => /\ state[p] = IF p \in Standby THEN "STANDBY" ELSE "ACTIVATING"
                            /\ op[p] = NoOp
    /\ phase[p] = "exited" => op[p] = NoOp

\* databaseHeld follows the state, and nothing is in use without it.
HeldInv(p) ==
    /\ state[p] \in {"STANDBY", "QUIESCED"} => ~held[p]
    /\ state[p] \in {"ACTIVE", "QUIESCING"} /\ Serving(p) => held[p]
    /\ phase[p] \in {"down", "boot", "exited"} => ~held[p]
    /\ UsesDb(p) => held[p]
    /\ gate[p] = "open" => held[p]

\* What the recorded quiesce steps say about the resources.
StepInv(p) ==
    /\ "drain"   \in done[p] => gate[p] # "open"
    /\ "workers" \in done[p] => ~sched[p]
    /\ "bg"      \in done[p] => ~bg[p]
    /\ "store"   \in done[p] => store[p] # "open" /\ p \notin lock
    /\ store[p] # "none" => gate[p] # "none"
    /\ store[p] = "closed" => ~sched[p] /\ ~bg[p] /\ gate[p] = "closed"

\* What has been done by the time the service call is at a given step.
JobInv(p) ==
    /\ job[p] \in {"seed", "listen", "acted"} => done[p] = {} /\ store[p] = "open"
    /\ job[p] = "open" => ~UsesDb(p) /\ gate[p] # "open"
    /\ job[p] \in {"workers", "bg", "store", "released"} => "drain" \in done[p]
    /\ job[p] \in {"bg", "store", "released"} => "workers" \in done[p]
    /\ job[p] \in {"store", "released"} => "bg" \in done[p]
    /\ job[p] = "released" => "store" \in done[p]

\* shutdown and the exit code.
ExitInv(p) ==
    /\ tries[p] > 0 => state[p] \in {"QUIESCING", "QUIESCED"}
    /\ tries[p] > 0 => phase[p] \in {"stop", "exiting"}
    /\ code[p] = "zero" => state[p] = "QUIESCED"

ProcInv(p) == OpInv(p) /\ HeldInv(p) /\ StepInv(p) /\ JobInv(p) /\ ExitInv(p)

Inv == TypeOK /\ \A p \in Proc : ProcInv(p)

-----------------------------------------------------------------------------
(***************************************************************************)
(* Each action keeps Inv.  Three things are shown of an action of process  *)
(* p: the types, that no other process is touched, and p's own conjuncts.  *)
(***************************************************************************)

(* A step of a service call leaves the controller's side alone, so it keeps  *)
(* the agreement with it as long as a quiescence stays among its own steps.  *)
LEMMA ServiceStepKeepsOpInv ==
    ASSUME Inv, NEW p \in Proc, UNCHANGED <<ctlVars, runVars>>,
           job[p] # "idle", job'[p] # "idle",
           job[p] \in {"open", "seed", "listen"} \/ job'[p] \in Steps \cup {"released", "failed"}
    PROVE  OpInv(p)'
<1>1. OpInv(p)
  BY DEF Inv, ProcInv
<1> QED BY <1>1 DEF OpInv, ctlVars, runVars, Running, Steps

(* The two commands of the control API keep Inv. *)
LEMMA ApiKeepsInv ==
    ASSUME Inv, NEW p \in Proc, Api(p)
    PROVE  Inv'
<1> USE HandoffAssumption DEF Inv, TypeOK, ctlVars, runVars, svcVars, Running, Serving, NoOp
<1> PICK id \in Ids : HandleActivate(p, id) \/ HandleQuiesce(p, id)
  BY DEF Api
<1> DEFINE named == NamedId(id)
<1> named \in OpIds
  BY DEF NamedId, OpIds
<1> HIDE DEF named
<1>1. CASE HandleActivate(p, id)
  <2>1. state[p] = "STANDBY" /\ ~Running(p) /\ ~held[p] /\ job[p] = "idle" /\ gate[p] # "open"
    BY <1>1 DEF HandleActivate, ActivateAnswer, ProcInv, OpInv, HeldInv
  <2>2. /\ phase[p] \in {"wait", "stop", "exiting"}
        /\ ~(tries[p] > 0)
        /\ code[p] # "zero"
    <3>1. OpInv(p) /\ ExitInv(p) /\ Serving(p)
      BY <1>1 DEF HandleActivate, ProcInv
    <3> HIDE DEF Inv, TypeOK
    <3> QED BY <2>1, <3>1 DEF OpInv, ExitInv
  <2>3. Begin(p, "activate", named) /\ UNCHANGED runVars
    BY <1>1 DEF HandleActivate, named
  <2>4. TypeOK'
    BY <2>3 DEF Begin, States, OpIds, Kinds, Statuses, Steps, Jobs
  <2>5. ASSUME NEW q \in Proc, q # p PROVE ProcInv(q)'
    BY <2>3, <2>5 DEF Begin, ProcInv, OpInv, HeldInv, StepInv, JobInv, ExitInv, UsesDb
  <2>6. OpInv(p)' /\ HeldInv(p)'
    <3>1. /\ op'[p] = [id |-> named, kind |-> "activate", status |-> "running"]
          /\ job'[p] = "open" /\ state'[p] = "ACTIVATING" /\ held'[p] /\ phase'[p] = phase[p]
      BY <2>3 DEF Begin
    <3> HIDE DEF Inv, TypeOK
    <3> QED BY <2>2, <3>1 DEF OpInv, HeldInv
  <2>7. StepInv(p)' /\ JobInv(p)' /\ ExitInv(p)'
    BY <2>1, <2>2, <2>3 DEF Begin, ProcInv, OpInv, HeldInv, StepInv, JobInv, ExitInv, UsesDb
  <2> QED BY <2>4, <2>5, <2>6, <2>7 DEF ProcInv
<1>2. CASE HandleQuiesce(p, id)
  <2>1. CASE QuiesceAnswer(p, id) = "begin"
    <3>1. state[p] \in {"ACTIVE", "QUIESCING"} /\ ~Running(p) /\ held[p] /\ job[p] = "idle"
      BY <1>2, <2>1 DEF HandleQuiesce, QuiesceAnswer, ProcInv, OpInv, HeldInv
    <3>2. phase[p] \in {"wait", "stop", "exiting"} /\ code[p] # "zero"
      BY <1>2, <3>1 DEF HandleQuiesce, ProcInv, OpInv, ExitInv
    <3>3. Begin(p, "quiesce", named) /\ UNCHANGED runVars
      BY <1>2, <2>1 DEF HandleQuiesce, named
    <3>4. TypeOK'
      BY <3>3 DEF Begin, States, OpIds, Kinds, Statuses, Steps, Jobs
    <3>5. ASSUME NEW q \in Proc, q # p PROVE ProcInv(q)'
      BY <3>3, <3>5 DEF Begin, ProcInv, OpInv, HeldInv, StepInv, JobInv, ExitInv, UsesDb
    <3>6. OpInv(p)' /\ HeldInv(p)'
      BY <3>1, <3>2, <3>3 DEF Begin, Steps, ProcInv, OpInv, HeldInv, StepInv, JobInv, ExitInv, UsesDb
    <3>7. StepInv(p)' /\ JobInv(p)' /\ ExitInv(p)'
      BY <3>1, <3>2, <3>3 DEF Begin, ProcInv, OpInv, HeldInv, StepInv, JobInv, ExitInv, UsesDb
    <3> QED BY <3>4, <3>5, <3>6, <3>7 DEF ProcInv
  <2>2. CASE QuiesceAnswer(p, id) = "fence"
    <3>1. state[p] = "STANDBY"
      BY <2>2 DEF QuiesceAnswer
    <3>2. FenceLocked(p, AnonId) /\ UNCHANGED runVars
      BY <1>2, <2>2 DEF HandleQuiesce
    <3>3. TypeOK'
      BY <3>2 DEF FenceLocked, States, OpIds, Kinds, Statuses, Steps, Jobs
    <3>4. ASSUME NEW q \in Proc, q # p PROVE ProcInv(q)'
      BY <3>2, <3>4 DEF FenceLocked, ProcInv, OpInv, HeldInv, StepInv, JobInv, ExitInv, UsesDb
    <3>5. ProcInv(p)'
      BY <1>2, <3>1, <3>2 DEF HandleQuiesce, FenceLocked, ProcInv, OpInv, HeldInv, StepInv, JobInv, ExitInv, UsesDb
    <3> QED BY <3>3, <3>4, <3>5
  <2> QED BY <1>2, <2>1, <2>2 DEF HandleQuiesce
<1> QED BY <1>1, <1>2

(* The steps of gridApp.Activate keep Inv. *)
LEMMA ActivateStepsKeepInv ==
    ASSUME Inv, NEW p \in Proc, Activating(p)
    PROVE  Inv'
<1> USE HandoffAssumption DEF Inv, TypeOK, ctlVars, runVars, svcVars, Running, Serving, NoOp
<1>1. CASE OpenStore(p)
  <2> USE <1>1 DEF OpenStore, Goto, LockFree
  <2>1. TypeOK'
    BY DEF States, OpIds, Kinds, Statuses, Steps, Jobs
  <2>2. ASSUME NEW q \in Proc, q # p PROVE ProcInv(q)'
    BY <2>2 DEF ProcInv, OpInv, HeldInv, StepInv, JobInv, ExitInv, UsesDb
  <2>3. OpInv(p)'
    BY ServiceStepKeepsOpInv DEF Steps
  <2>4. HeldInv(p)'
    BY DEF ProcInv, OpInv, HeldInv, StepInv, JobInv, UsesDb
  <2>5. StepInv(p)'
    BY DEF ProcInv, HeldInv, StepInv, JobInv, UsesDb
  <2>6. JobInv(p)'
    BY DEF ProcInv, HeldInv, StepInv, JobInv, UsesDb, Steps
  <2>7. ExitInv(p)'
    BY DEF ProcInv, OpInv, HeldInv, ExitInv
  <2> QED BY <2>1, <2>2, <2>3, <2>4, <2>5, <2>6, <2>7 DEF ProcInv
<1>2. CASE OpenFails(p)
  <2> USE <1>2 DEF OpenFails, Goto
  <2>1. TypeOK'
    BY DEF States, OpIds, Kinds, Statuses, Steps, Jobs
  <2>2. ASSUME NEW q \in Proc, q # p PROVE ProcInv(q)'
    BY <2>2 DEF ProcInv, OpInv, HeldInv, StepInv, JobInv, ExitInv, UsesDb
  <2>3. OpInv(p)'
    BY ServiceStepKeepsOpInv DEF Steps
  <2>4. HeldInv(p)'
    BY DEF ProcInv, OpInv, HeldInv, StepInv, JobInv, UsesDb
  <2>5. StepInv(p)'
    BY DEF ProcInv, HeldInv, StepInv, JobInv, UsesDb
  <2>6. JobInv(p)'
    BY DEF ProcInv, HeldInv, StepInv, JobInv, UsesDb, Steps
  <2>7. ExitInv(p)'
    BY DEF ProcInv, OpInv, HeldInv, ExitInv
  <2> QED BY <2>1, <2>2, <2>3, <2>4, <2>5, <2>6, <2>7 DEF ProcInv
<1>3. CASE Seed(p)
  <2> USE <1>3 DEF Seed, Goto, StartsRebuild, StartsWorkers
  <2>1. TypeOK'
    BY DEF States, OpIds, Kinds, Statuses, Steps, Jobs
  <2>2. ASSUME NEW q \in Proc, q # p PROVE ProcInv(q)'
    BY <2>2 DEF ProcInv, OpInv, HeldInv, StepInv, JobInv, ExitInv, UsesDb
  <2>3. OpInv(p)'
    BY ServiceStepKeepsOpInv DEF Steps
  <2>4. HeldInv(p)'
    BY DEF ProcInv, OpInv, HeldInv, StepInv, JobInv, UsesDb
  <2>5. StepInv(p)'
    BY DEF ProcInv, HeldInv, StepInv, JobInv, UsesDb
  <2>6. JobInv(p)'
    BY DEF ProcInv, HeldInv, StepInv, JobInv, UsesDb, Steps
  <2>7. ExitInv(p)'
    BY DEF ProcInv, OpInv, HeldInv, ExitInv
  <2> QED BY <2>1, <2>2, <2>3, <2>4, <2>5, <2>6, <2>7 DEF ProcInv
<1>4. CASE SeedFails(p)
  <2> USE <1>4 DEF SeedFails, Goto, StartsRebuild
  <2>1. TypeOK'
    BY DEF States, OpIds, Kinds, Statuses, Steps, Jobs
  <2>2. ASSUME NEW q \in Proc, q # p PROVE ProcInv(q)'
    BY <2>2 DEF ProcInv, OpInv, HeldInv, StepInv, JobInv, ExitInv, UsesDb
  <2>3. OpInv(p)'
    BY ServiceStepKeepsOpInv DEF Steps
  <2>4. HeldInv(p)'
    BY DEF ProcInv, OpInv, HeldInv, StepInv, JobInv, UsesDb
  <2>5. StepInv(p)'
    BY DEF ProcInv, HeldInv, StepInv, JobInv, UsesDb
  <2>6. JobInv(p)'
    BY DEF ProcInv, HeldInv, StepInv, JobInv, UsesDb, Steps
  <2>7. ExitInv(p)'
    BY DEF ProcInv, OpInv, HeldInv, ExitInv
  <2> QED BY <2>1, <2>2, <2>3, <2>4, <2>5, <2>6, <2>7 DEF ProcInv
<1>5. CASE Listen(p)
  <2> USE <1>5 DEF Listen, Goto, PortFree
  <2>1. TypeOK'
    BY DEF States, OpIds, Kinds, Statuses, Steps, Jobs
  <2>2. ASSUME NEW q \in Proc, q # p PROVE ProcInv(q)'
    BY <2>2 DEF ProcInv, OpInv, HeldInv, StepInv, JobInv, ExitInv, UsesDb
  <2>3. OpInv(p)'
    BY ServiceStepKeepsOpInv DEF Steps
  <2>4. HeldInv(p)'
    BY DEF ProcInv, OpInv, HeldInv, StepInv, JobInv, UsesDb
  <2>5. StepInv(p)'
    BY DEF ProcInv, HeldInv, StepInv, JobInv, UsesDb
  <2>6. JobInv(p)'
    BY DEF ProcInv, HeldInv, StepInv, JobInv, UsesDb, Steps
  <2>7. ExitInv(p)'
    BY DEF ProcInv, OpInv, HeldInv, ExitInv
  <2> QED BY <2>1, <2>2, <2>3, <2>4, <2>5, <2>6, <2>7 DEF ProcInv
<1>6. CASE ListenFails(p)
  <2> USE <1>6 DEF ListenFails, Goto
  <2>1. TypeOK'
    BY DEF States, OpIds, Kinds, Statuses, Steps, Jobs
  <2>2. ASSUME NEW q \in Proc, q # p PROVE ProcInv(q)'
    BY <2>2 DEF ProcInv, OpInv, HeldInv, StepInv, JobInv, ExitInv, UsesDb
  <2>3. OpInv(p)'
    BY ServiceStepKeepsOpInv DEF Steps
  <2>4. HeldInv(p)'
    BY DEF ProcInv, OpInv, HeldInv, StepInv, JobInv, UsesDb
  <2>5. StepInv(p)'
    BY DEF ProcInv, HeldInv, StepInv, JobInv, UsesDb
  <2>6. JobInv(p)'
    BY DEF ProcInv, HeldInv, StepInv, JobInv, UsesDb, Steps
  <2>7. ExitInv(p)'
    BY DEF ProcInv, OpInv, HeldInv, ExitInv
  <2> QED BY <2>1, <2>2, <2>3, <2>4, <2>5, <2>6, <2>7 DEF ProcInv
<1> QED BY <1>1, <1>2, <1>3, <1>4, <1>5, <1>6 DEF Activating

(* The steps of gridApp.Quiesce, resumed ones included keep Inv. *)
LEMMA QuiesceStepsKeepInv ==
    ASSUME Inv, NEW p \in Proc, Quiescing(p)
    PROVE  Inv'
<1> USE HandoffAssumption DEF Inv, TypeOK, ctlVars, runVars, svcVars, Running, Serving, NoOp
<1>1. CASE Drain(p)
  <2> USE <1>1 DEF Drain, Goto, Done
  <2>1. TypeOK'
    BY DEF States, OpIds, Kinds, Statuses, Steps, Jobs
  <2>2. ASSUME NEW q \in Proc, q # p PROVE ProcInv(q)'
    BY <2>2 DEF ProcInv, OpInv, HeldInv, StepInv, JobInv, ExitInv, UsesDb
  <2>3. OpInv(p)'
    BY ServiceStepKeepsOpInv DEF Steps
  <2>4. HeldInv(p)'
    BY DEF ProcInv, OpInv, HeldInv, StepInv, JobInv, UsesDb
  <2>5. StepInv(p)'
    BY DEF ProcInv, HeldInv, StepInv, JobInv, UsesDb
  <2>6. JobInv(p)'
    BY DEF ProcInv, HeldInv, StepInv, JobInv, UsesDb, Steps
  <2>7. ExitInv(p)'
    BY DEF ProcInv, OpInv, HeldInv, ExitInv
  <2> QED BY <2>1, <2>2, <2>3, <2>4, <2>5, <2>6, <2>7 DEF ProcInv
<1>2. CASE StopWorkers(p)
  <2> USE <1>2 DEF StopWorkers, Goto, Done
  <2>1. ~sched'[p] /\ done'[p] = done[p] \cup {"workers"}
    BY DEF ProcInv, StepInv
  <2>2. TypeOK'
    BY <2>1 DEF States, OpIds, Kinds, Statuses, Steps, Jobs
  <2>3. ASSUME NEW q \in Proc, q # p PROVE ProcInv(q)'
    BY <2>3 DEF ProcInv, OpInv, HeldInv, StepInv, JobInv, ExitInv, UsesDb
  <2>4. OpInv(p)'
    BY ServiceStepKeepsOpInv DEF Steps
  <2>5. HeldInv(p)'
    BY <2>1 DEF ProcInv, OpInv, HeldInv, StepInv, JobInv, UsesDb
  <2>6. StepInv(p)'
    BY <2>1 DEF ProcInv, HeldInv, StepInv, JobInv, UsesDb
  <2>7. JobInv(p)'
    BY <2>1 DEF ProcInv, HeldInv, StepInv, JobInv, UsesDb, Steps
  <2>8. ExitInv(p)'
    BY <2>1 DEF ProcInv, OpInv, HeldInv, ExitInv
  <2> QED BY <2>2, <2>3, <2>4, <2>5, <2>6, <2>7, <2>8 DEF ProcInv
<1>3. CASE StopBackground(p)
  <2> USE <1>3 DEF StopBackground, Goto, Done
  <2>1. TypeOK'
    BY DEF States, OpIds, Kinds, Statuses, Steps, Jobs
  <2>2. ASSUME NEW q \in Proc, q # p PROVE ProcInv(q)'
    BY <2>2 DEF ProcInv, OpInv, HeldInv, StepInv, JobInv, ExitInv, UsesDb
  <2>3. OpInv(p)'
    BY ServiceStepKeepsOpInv DEF Steps
  <2>4. HeldInv(p)'
    BY DEF ProcInv, OpInv, HeldInv, StepInv, JobInv, UsesDb
  <2>5. StepInv(p)'
    BY DEF ProcInv, HeldInv, StepInv, JobInv, UsesDb
  <2>6. JobInv(p)'
    BY DEF ProcInv, HeldInv, StepInv, JobInv, UsesDb, Steps
  <2>7. ExitInv(p)'
    BY DEF ProcInv, OpInv, HeldInv, ExitInv
  <2> QED BY <2>1, <2>2, <2>3, <2>4, <2>5, <2>6, <2>7 DEF ProcInv
<1>4. CASE CloseStore(p)
  <2> USE <1>4 DEF CloseStore, Goto, Done
  <2>1. TypeOK'
    BY DEF States, OpIds, Kinds, Statuses, Steps, Jobs
  <2>2. ASSUME NEW q \in Proc, q # p PROVE ProcInv(q)'
    BY <2>2 DEF ProcInv, OpInv, HeldInv, StepInv, JobInv, ExitInv, UsesDb
  <2>3. OpInv(p)'
    BY ServiceStepKeepsOpInv DEF Steps
  <2>4. HeldInv(p)'
    BY DEF ProcInv, OpInv, HeldInv, StepInv, JobInv, UsesDb
  <2>5. StepInv(p)'
    BY DEF ProcInv, HeldInv, StepInv, JobInv, UsesDb
  <2>6. JobInv(p)'
    BY DEF ProcInv, HeldInv, StepInv, JobInv, UsesDb, Steps
  <2>7. ExitInv(p)'
    BY DEF ProcInv, OpInv, HeldInv, ExitInv
  <2> QED BY <2>1, <2>2, <2>3, <2>4, <2>5, <2>6, <2>7 DEF ProcInv
<1>5. CASE CloseFails(p)
  <2> USE <1>5 DEF CloseFails, Goto
  <2>1. TypeOK'
    BY DEF States, OpIds, Kinds, Statuses, Steps, Jobs
  <2>2. ASSUME NEW q \in Proc, q # p PROVE ProcInv(q)'
    BY <2>2 DEF ProcInv, OpInv, HeldInv, StepInv, JobInv, ExitInv, UsesDb
  <2>3. OpInv(p)'
    BY ServiceStepKeepsOpInv DEF Steps
  <2>4. HeldInv(p)'
    BY DEF ProcInv, OpInv, HeldInv, StepInv, JobInv, UsesDb
  <2>5. StepInv(p)'
    BY DEF ProcInv, HeldInv, StepInv, JobInv, UsesDb
  <2>6. JobInv(p)'
    BY DEF ProcInv, HeldInv, StepInv, JobInv, UsesDb, Steps
  <2>7. ExitInv(p)'
    BY DEF ProcInv, OpInv, HeldInv, ExitInv
  <2> QED BY <2>1, <2>2, <2>3, <2>4, <2>5, <2>6, <2>7 DEF ProcInv
<1>6. CASE StepFails(p)
  <2> USE <1>6 DEF StepFails, Goto
  <2>1. TypeOK'
    BY DEF States, OpIds, Kinds, Statuses, Steps, Jobs
  <2>2. ASSUME NEW q \in Proc, q # p PROVE ProcInv(q)'
    BY <2>2 DEF ProcInv, OpInv, HeldInv, StepInv, JobInv, ExitInv, UsesDb
  <2>3. OpInv(p)'
    BY ServiceStepKeepsOpInv DEF Steps
  <2>4. HeldInv(p)'
    BY DEF ProcInv, OpInv, HeldInv, StepInv, JobInv, UsesDb
  <2>5. StepInv(p)'
    BY DEF ProcInv, HeldInv, StepInv, JobInv, UsesDb
  <2>6. JobInv(p)'
    BY DEF ProcInv, HeldInv, StepInv, JobInv, UsesDb, Steps
  <2>7. ExitInv(p)'
    BY DEF ProcInv, OpInv, HeldInv, ExitInv
  <2> QED BY <2>1, <2>2, <2>3, <2>4, <2>5, <2>6, <2>7 DEF ProcInv
<1> QED BY <1>1, <1>2, <1>3, <1>4, <1>5, <1>6 DEF Quiescing

(* The outcomes runActivate and runQuiesce record keep Inv. *)
LEMMA ReturnsKeepInv ==
    ASSUME Inv, NEW p \in Proc, ActivateReturns(p) \/ QuiesceReturns(p)
    PROVE  Inv'
<1> USE HandoffAssumption DEF Inv, TypeOK, ctlVars, runVars, svcVars, Running, Serving, NoOp
<1>1. CASE ActivateReturns(p)
  <2> USE <1>1 DEF ActivateReturns, Finish
  <2>1. state' \in [Proc -> States]
    BY DEF States
  <2>2. op' \in [Proc -> [id : OpIds, kind : Kinds, status : Statuses]]
    BY DEF Statuses
  <2>3. activatedBy' \in [Proc -> OpIds]
    OBVIOUS
  <2>4. TypeOK'
    BY <2>1, <2>2, <2>3 DEF States, OpIds, Kinds, Statuses, Steps, Jobs
  <2>5. ASSUME NEW q \in Proc, q # p PROVE ProcInv(q)'
    BY <2>5 DEF ProcInv, OpInv, HeldInv, StepInv, JobInv, ExitInv, UsesDb
  <2>6. OpInv(p)'
    BY <2>1, <2>2, <2>3 DEF ProcInv, OpInv, JobInv, Steps
  <2>7. HeldInv(p)'
    BY <2>1, <2>2, <2>3 DEF ProcInv, OpInv, HeldInv, StepInv, JobInv, UsesDb
  <2>8. StepInv(p)'
    BY <2>1, <2>2, <2>3 DEF ProcInv, HeldInv, StepInv, JobInv, UsesDb
  <2>9. JobInv(p)'
    BY <2>1, <2>2, <2>3 DEF ProcInv, HeldInv, StepInv, JobInv, UsesDb, Steps
  <2>10. ExitInv(p)'
    BY <2>1, <2>2, <2>3 DEF ProcInv, OpInv, HeldInv, ExitInv
  <2> QED BY <2>4, <2>5, <2>6, <2>7, <2>8, <2>9, <2>10 DEF ProcInv
<1>2. CASE QuiesceReturns(p)
  <2> USE <1>2 DEF QuiesceReturns, Finish
  <2>1. TypeOK'
    BY DEF States, OpIds, Kinds, Statuses, Steps, Jobs
  <2>2. ASSUME NEW q \in Proc, q # p PROVE ProcInv(q)'
    BY <2>2 DEF ProcInv, OpInv, HeldInv, StepInv, JobInv, ExitInv, UsesDb
  <2>3. OpInv(p)'
    BY DEF ProcInv, OpInv, JobInv, Steps
  <2>4. HeldInv(p)'
    BY DEF ProcInv, OpInv, HeldInv, StepInv, JobInv, UsesDb
  <2>5. StepInv(p)'
    BY DEF ProcInv, HeldInv, StepInv, JobInv, UsesDb
  <2>6. JobInv(p)'
    BY DEF ProcInv, HeldInv, StepInv, JobInv, UsesDb, Steps
  <2>7. ExitInv(p)'
    BY DEF ProcInv, OpInv, HeldInv, ExitInv
  <2> QED BY <2>1, <2>2, <2>3, <2>4, <2>5, <2>6, <2>7 DEF ProcInv
<1> QED BY <1>1, <1>2

(* Shutdown's own steps keep Inv. *)
LEMMA ShutdownKeepsInv ==
    ASSUME Inv, NEW p \in Proc, Shutdown(p)
    PROVE  Inv'
<1> USE HandoffAssumption DEF Inv, TypeOK, ctlVars, runVars, svcVars, Running, Serving, NoOp
<1>1. CASE ShutdownFences(p)
  <2> USE <1>1 DEF ShutdownFences, FenceLocked, ShutdownReturns
  <2>1. TypeOK'
    BY DEF States, OpIds, Kinds, Statuses, Steps, Jobs
  <2>2. ASSUME NEW q \in Proc, q # p PROVE ProcInv(q)'
    BY <2>2 DEF ProcInv, OpInv, HeldInv, StepInv, JobInv, ExitInv, UsesDb
  <2>3. ProcInv(p)'
    BY DEF ProcInv, OpInv, HeldInv, StepInv, JobInv, ExitInv, UsesDb, Steps, Jobs
  <2> QED BY <2>1, <2>2, <2>3
<1>2. CASE ShutdownReleased(p)
  <2> USE <1>2 DEF ShutdownReleased, ShutdownReturns
  <2>1. TypeOK'
    BY DEF States, OpIds, Kinds, Statuses, Steps, Jobs
  <2>2. ASSUME NEW q \in Proc, q # p PROVE ProcInv(q)'
    BY <2>2 DEF ProcInv, OpInv, HeldInv, StepInv, JobInv, ExitInv, UsesDb
  <2>3. ProcInv(p)'
    BY DEF ProcInv, OpInv, HeldInv, StepInv, JobInv, ExitInv, UsesDb, Steps, Jobs
  <2> QED BY <2>1, <2>2, <2>3
<1>3. CASE ShutdownCancels(p)
  <2> USE <1>3 DEF ShutdownCancels
  <2>1. TypeOK'
    BY DEF States, OpIds, Kinds, Statuses, Steps, Jobs
  <2>2. ASSUME NEW q \in Proc, q # p PROVE ProcInv(q)'
    BY <2>2 DEF ProcInv, OpInv, HeldInv, StepInv, JobInv, ExitInv, UsesDb
  <2>3. ProcInv(p)'
    BY DEF ProcInv, OpInv, HeldInv, StepInv, JobInv, ExitInv, UsesDb, Steps, Jobs
  <2> QED BY <2>1, <2>2, <2>3
<1>4. CASE ShutdownQuiesces(p)
  <2> USE <1>4 DEF ShutdownQuiesces, Begin
  <2>1. /\ op'[p] = [id |-> SigId, kind |-> "quiesce", status |-> "running"]
        /\ job'[p] = "drain" /\ state'[p] = "QUIESCING" /\ phase'[p] = "stop"
    OBVIOUS
  <2>2. held'[p]
    BY DEF ProcInv, HeldInv
  <2>3. TypeOK'
    BY <2>1, <2>2 DEF States, OpIds, Kinds, Statuses, Steps, Jobs
  <2>4. ASSUME NEW q \in Proc, q # p PROVE ProcInv(q)'
    BY <2>4 DEF ProcInv, OpInv, HeldInv, StepInv, JobInv, ExitInv, UsesDb
  <2>5. OpInv(p)'
    BY <2>1, <2>2 DEF ProcInv, OpInv, JobInv, Steps
  <2>6. HeldInv(p)'
    BY <2>1, <2>2 DEF ProcInv, OpInv, HeldInv, StepInv, JobInv, UsesDb
  <2>7. StepInv(p)'
    BY <2>1, <2>2 DEF ProcInv, HeldInv, StepInv, JobInv, UsesDb
  <2>8. JobInv(p)'
    BY <2>1, <2>2 DEF ProcInv, HeldInv, StepInv, JobInv, UsesDb, Steps
  <2>9. ExitInv(p)'
    BY <2>1, <2>2 DEF ProcInv, OpInv, HeldInv, ExitInv
  <2> QED BY <2>3, <2>4, <2>5, <2>6, <2>7, <2>8, <2>9 DEF ProcInv
<1>5. CASE ShutdownEnds(p)
  <2> USE <1>5 DEF ShutdownEnds, ShutdownReturns
  <2>1. TypeOK'
    BY DEF States, OpIds, Kinds, Statuses, Steps, Jobs
  <2>2. ASSUME NEW q \in Proc, q # p PROVE ProcInv(q)'
    BY <2>2 DEF ProcInv, OpInv, HeldInv, StepInv, JobInv, ExitInv, UsesDb
  <2>3. ProcInv(p)'
    BY DEF ProcInv, OpInv, HeldInv, StepInv, JobInv, ExitInv, UsesDb, Steps, Jobs
  <2> QED BY <2>1, <2>2, <2>3
<1> QED BY <1>1, <1>2, <1>3, <1>4, <1>5 DEF Shutdown

(* Run's loop keep Inv. *)
LEMMA RunKeepsInv ==
    ASSUME Inv, NEW p \in Proc, Loop(p)
    PROVE  Inv'
<1> USE HandoffAssumption DEF Inv, TypeOK, ctlVars, runVars, svcVars, Running, Serving, NoOp
<1>1. CASE BootBegins(p)
  <2> USE <1>1 DEF BootBegins, Begin
  <2>1. /\ op'[p] = [id |-> BootId, kind |-> "activate", status |-> "running"]
        /\ job'[p] = "open" /\ state'[p] = "ACTIVATING" /\ held'[p] /\ phase'[p] = "wait"
    OBVIOUS
  <2>2. op[p] = NoOp /\ job[p] = "idle"
    BY DEF ProcInv, OpInv
  <2>3. TypeOK'
    BY <2>1, <2>2 DEF States, OpIds, Kinds, Statuses, Steps, Jobs
  <2>4. ASSUME NEW q \in Proc, q # p PROVE ProcInv(q)'
    BY <2>4 DEF ProcInv, OpInv, HeldInv, StepInv, JobInv, ExitInv, UsesDb
  <2>5. OpInv(p)'
    BY <2>1, <2>2 DEF ProcInv, OpInv, JobInv, Steps
  <2>6. HeldInv(p)'
    BY <2>1, <2>2 DEF ProcInv, OpInv, HeldInv, StepInv, JobInv, UsesDb
  <2>7. StepInv(p)'
    BY <2>1, <2>2 DEF ProcInv, HeldInv, StepInv, JobInv, UsesDb
  <2>8. JobInv(p)'
    BY <2>1, <2>2 DEF ProcInv, HeldInv, StepInv, JobInv, UsesDb, Steps
  <2>9. ExitInv(p)'
    BY <2>1, <2>2 DEF ProcInv, OpInv, HeldInv, ExitInv
  <2> QED BY <2>3, <2>4, <2>5, <2>6, <2>7, <2>8, <2>9 DEF ProcInv
<1>2. CASE BootDone(p)
  <2> USE <1>2 DEF BootDone
  <2>1. TypeOK'
    BY DEF States, OpIds, Kinds, Statuses, Steps, Jobs
  <2>2. ASSUME NEW q \in Proc, q # p PROVE ProcInv(q)'
    BY <2>2 DEF ProcInv, OpInv, HeldInv, StepInv, JobInv, ExitInv, UsesDb
  <2>3. ProcInv(p)'
    BY DEF ProcInv, OpInv, HeldInv, StepInv, JobInv, ExitInv, UsesDb, Steps, Jobs
  <2> QED BY <2>1, <2>2, <2>3
<1>3. CASE FailSeen(p)
  <2> USE <1>3 DEF FailSeen
  <2>1. TypeOK'
    BY DEF States, OpIds, Kinds, Statuses, Steps, Jobs
  <2>2. ASSUME NEW q \in Proc, q # p PROVE ProcInv(q)'
    BY <2>2 DEF ProcInv, OpInv, HeldInv, StepInv, JobInv, ExitInv, UsesDb
  <2>3. ProcInv(p)'
    BY DEF ProcInv, OpInv, HeldInv, StepInv, JobInv, ExitInv, UsesDb, Steps, Jobs
  <2> QED BY <2>1, <2>2, <2>3
<1>4. CASE Exit(p)
  <2> USE <1>4 DEF Exit, Gone
  <2>1. TypeOK'
    BY DEF States, OpIds, Kinds, Statuses, Steps, Jobs
  <2>2. ASSUME NEW q \in Proc, q # p PROVE ProcInv(q)'
    BY <2>2 DEF ProcInv, OpInv, HeldInv, StepInv, JobInv, ExitInv, UsesDb
  <2>3. ProcInv(p)'
    BY DEF ProcInv, OpInv, HeldInv, StepInv, JobInv, ExitInv, UsesDb, Steps, Jobs
  <2> QED BY <2>1, <2>2, <2>3
<1> QED BY <1>1, <1>2, <1>3, <1>4, ShutdownKeepsInv DEF Loop

(* Starts, signals, crashes and the server's own end keep Inv. *)
LEMMA EnvironKeepsInv ==
    ASSUME Inv, NEW p \in Proc, Environ(p)
    PROVE  Inv'
<1> USE HandoffAssumption DEF Inv, TypeOK, ctlVars, runVars, svcVars, Running, Serving, NoOp
<1>1. CASE Start(p)
  <2> USE <1>1 DEF Start
  <2>1. TypeOK'
    BY DEF States, OpIds, Kinds, Statuses, Steps, Jobs
  <2>2. ASSUME NEW q \in Proc, q # p PROVE ProcInv(q)'
    BY <2>2 DEF ProcInv, OpInv, HeldInv, StepInv, JobInv, ExitInv, UsesDb
  <2>3. ProcInv(p)'
    BY DEF ProcInv, OpInv, HeldInv, StepInv, JobInv, ExitInv, UsesDb, Steps, Jobs
  <2> QED BY <2>1, <2>2, <2>3
<1>2. CASE Signal(p)
  <2> USE <1>2 DEF Signal
  <2>1. TypeOK'
    BY DEF States, OpIds, Kinds, Statuses, Steps, Jobs
  <2>2. ASSUME NEW q \in Proc, q # p PROVE ProcInv(q)'
    BY <2>2 DEF ProcInv, OpInv, HeldInv, StepInv, JobInv, ExitInv, UsesDb
  <2>3. ProcInv(p)'
    BY DEF ProcInv, OpInv, HeldInv, StepInv, JobInv, ExitInv, UsesDb, Steps, Jobs
  <2> QED BY <2>1, <2>2, <2>3
<1>3. CASE SecondSignal(p)
  <2> USE <1>3 DEF SecondSignal, Gone
  <2>1. TypeOK'
    BY DEF States, OpIds, Kinds, Statuses, Steps, Jobs
  <2>2. ASSUME NEW q \in Proc, q # p PROVE ProcInv(q)'
    BY <2>2 DEF ProcInv, OpInv, HeldInv, StepInv, JobInv, ExitInv, UsesDb
  <2>3. ProcInv(p)'
    BY DEF ProcInv, OpInv, HeldInv, StepInv, JobInv, ExitInv, UsesDb, Steps, Jobs
  <2> QED BY <2>1, <2>2, <2>3
<1>4. CASE Killed(p)
  <2> USE <1>4 DEF Killed, Gone
  <2>1. TypeOK'
    BY DEF States, OpIds, Kinds, Statuses, Steps, Jobs
  <2>2. ASSUME NEW q \in Proc, q # p PROVE ProcInv(q)'
    BY <2>2 DEF ProcInv, OpInv, HeldInv, StepInv, JobInv, ExitInv, UsesDb
  <2>3. ProcInv(p)'
    BY DEF ProcInv, OpInv, HeldInv, StepInv, JobInv, ExitInv, UsesDb, Steps, Jobs
  <2> QED BY <2>1, <2>2, <2>3
<1>5. CASE BackgroundEnds(p)
  <2> USE <1>5 DEF BackgroundEnds
  <2>1. TypeOK'
    BY DEF States, OpIds, Kinds, Statuses, Steps, Jobs
  <2>2. ASSUME NEW q \in Proc, q # p PROVE ProcInv(q)'
    BY <2>2 DEF ProcInv, OpInv, HeldInv, StepInv, JobInv, ExitInv, UsesDb
  <2>3. ProcInv(p)'
    BY DEF ProcInv, OpInv, HeldInv, StepInv, JobInv, ExitInv, UsesDb, Steps, Jobs
  <2> QED BY <2>1, <2>2, <2>3
<1>6. CASE ServerStops(p)
  <2> USE <1>6 DEF ServerStops
  <2>1. TypeOK'
    BY DEF States, OpIds, Kinds, Statuses, Steps, Jobs
  <2>2. ASSUME NEW q \in Proc, q # p PROVE ProcInv(q)'
    BY <2>2 DEF ProcInv, OpInv, HeldInv, StepInv, JobInv, ExitInv, UsesDb
  <2>3. ProcInv(p)'
    BY DEF ProcInv, OpInv, HeldInv, StepInv, JobInv, ExitInv, UsesDb, Steps, Jobs
  <2> QED BY <2>1, <2>2, <2>3
<1> QED BY <1>1, <1>2, <1>3, <1>4, <1>5, <1>6 DEF Environ

-----------------------------------------------------------------------------
(* A started process has nothing open and no operation: Inv holds at first. *)
LEMMA InitInv == Init => Inv
BY HandoffAssumption DEF Init, Inv, TypeOK, States, OpIds, Kinds, Statuses, Steps, Jobs,
   ProcInv, OpInv, HeldInv, StepInv, JobInv, ExitInv, UsesDb, Running, Serving, NoOp

(* Inv is inductive: every step of every process keeps it. *)
LEMMA NextInv == Inv /\ [Next]_vars => Inv'
<1> SUFFICES ASSUME Inv, [Next]_vars PROVE Inv'
  OBVIOUS
<1>1. CASE UNCHANGED vars
  BY <1>1 DEF vars, ctlVars, runVars, svcVars, Inv, TypeOK, ProcInv, OpInv, HeldInv, StepInv,
     JobInv, ExitInv, UsesDb, Running, Serving
<1>2. ASSUME NEW p \in Proc, Api(p) \/ Service(p) \/ Loop(p) \/ Environ(p)
      PROVE  Inv'
  BY <1>2, ApiKeepsInv, ActivateStepsKeepInv, QuiesceStepsKeepInv, ReturnsKeepInv, RunKeepsInv,
     EnvironKeepsInv DEF Service
<1> QED BY <1>1, <1>2 DEF Next

(* The controller, the service call and the recorded quiesce steps agree in   *)
(* every reachable state, for any number of processes and any ids.           *)
THEOREM Invariance == Spec => []Inv
<1> QED BY InitInv, NextInv, PTL DEF Spec

(* Every variable of the controller, of Run and of the Grid service keeps    *)
(* its type; in particular shutdown never makes a third quiesce attempt.     *)
THEOREM TypeCorrect == Spec => []TypeOK
<1>1. Inv => TypeOK
  BY DEF Inv
<1> QED BY <1>1, Invariance, PTL

(* databaseHeld is true whenever anything of the process reaches the         *)
(* database (what GET /status reports is never optimistic).                  *)
THEOREM HeldIsHonest == Spec => []HeldCoversUse
<1>1. Inv => HeldCoversUse
  BY DEF Inv, ProcInv, HeldInv, HeldCoversUse
<1> QED BY <1>1, Invariance, PTL

(* The store is closed only after the gate, the pollers and the background   *)
(* readers, through any number of failed and resumed quiescences.            *)
THEOREM ReleaseOrder == Spec => []UsersStopBeforeClose
<1>1. Inv => UsersStopBeforeClose
  BY DEF Inv, ProcInv, StepInv, UsersStopBeforeClose
<1> QED BY <1>1, Invariance, PTL

(* In STANDBY and QUIESCED no service call is under way and the gate admits  *)
(* nobody.                                                                   *)
THEOREM Settled == Spec => []ReleasedIsSettled
<1>1. Inv => ReleasedIsSettled
  <2> SUFFICES ASSUME Inv, NEW p \in Proc, Serving(p), state[p] \in {"STANDBY", "QUIESCED"}
               PROVE  job[p] = "idle" /\ ~Running(p) /\ gate[p] # "open"
    BY DEF ReleasedIsSettled
  <2>1. OpInv(p) /\ HeldInv(p)
    BY DEF Inv, ProcInv
  <2> QED BY <2>1 DEF OpInv, HeldInv
<1> QED BY <1>1, Invariance, PTL

(* Exit status 0 is only returned with the database released.                *)
THEOREM ExitCode == Spec => []ExitZeroReleased
<1>1. Inv => ExitZeroReleased
  BY DEF Inv, ProcInv, ExitInv, HeldInv, ExitZeroReleased
<1> QED BY <1>1, Invariance, PTL

-----------------------------------------------------------------------------
(***************************************************************************)
(* The two action properties.  An action leaves op and state alone, or ends  *)
(* the process, or begins an operation, or finishes the running one.         *)
(***************************************************************************)
Leaves(p)   == state'[p] = state[p] /\ (op'[p] = op[p] \/ phase'[p] = "exited")

Begins(p)   == /\ ~Running(p)
               /\ state[p] # "QUIESCED"
               /\ state[p] = "QUIESCING" => state'[p] = "QUIESCING"

Finishes(p) == /\ op'[p].status # "running" /\ op'[p].id = op[p].id /\ op'[p].kind = op[p].kind
               /\ state[p] # "QUIESCED"
               /\ state[p] = "QUIESCING" => state'[p] \in {"QUIESCING", "QUIESCED"}

Edge(p) == Leaves(p) \/ Begins(p) \/ Finishes(p)

(* Every step is, for every process, one of the three edges. *)
LEMMA StepsAreEdges ==
    ASSUME Inv, Next, NEW p \in Proc
    PROVE  Edge(p)
<1> USE DEF Inv, TypeOK, ctlVars, runVars, svcVars
<1>1. PICK q \in Proc : Api(q) \/ Service(q) \/ Loop(q) \/ Environ(q)
  BY DEF Next
<1>2. OpInv(q)
  BY DEF ProcInv
<1>3. CASE Api(q)
  <2> PICK id \in Ids : HandleActivate(q, id) \/ HandleQuiesce(q, id)
    BY <1>3 DEF Api
  <2>1. CASE HandleActivate(q, id)
    <3>1. state[q] = "STANDBY" /\ ~Running(q)
      BY <1>2, <2>1 DEF HandleActivate, ActivateAnswer, Serving, OpInv, Running, NoOp
    <3> QED BY <2>1, <3>1 DEF HandleActivate, Begin, Edge, Leaves, Begins
  <2>2. CASE HandleQuiesce(q, id)
    <3>1. /\ state[q] \in {"STANDBY", "ACTIVE", "QUIESCING"}
          /\ state[q] = "STANDBY" => QuiesceAnswer(q, id) = "fence"
          /\ state[q] = "QUIESCING" => QuiesceAnswer(q, id) = "begin"
          /\ ~Running(q)
      BY <1>2, <2>2 DEF HandleQuiesce, QuiesceAnswer, Serving, OpInv, Running, NoOp
    <3>2. CASE p = q
      BY <2>2, <3>1, <3>2 DEF HandleQuiesce, Begin, Edge, Begins
    <3>3. CASE p # q
      BY <2>2, <3>3 DEF HandleQuiesce, Begin, FenceLocked, Edge, Leaves
    <3> QED BY <3>2, <3>3
  <2> QED BY <2>1, <2>2
<1>4. CASE Activating(q) \/ Quiescing(q)
  BY <1>4 DEF Activating, Quiescing, OpenStore, OpenFails, Seed, SeedFails, Listen, ListenFails,
     Drain, StopWorkers, StopBackground, CloseStore, CloseFails, StepFails, Edge, Leaves
<1>5. CASE ActivateReturns(q)
  <2>1. state[q] = "ACTIVATING"
    BY <1>2, <1>5 DEF ActivateReturns, OpInv, Running
  <2> QED BY <1>5, <2>1 DEF ActivateReturns, Finish, Edge, Leaves, Finishes
<1>6. CASE QuiesceReturns(q)
  <2>1. state[q] = "QUIESCING"
    BY <1>2, <1>6 DEF QuiesceReturns, OpInv, Running
  <2> QED BY <1>6, <2>1 DEF QuiesceReturns, Finish, Edge, Leaves, Finishes
<1>7. CASE Shutdown(q)
  <2>1. CASE ShutdownFences(q)
    <3>1. ~Running(q)
      BY <1>2, <2>1 DEF ShutdownFences, OpInv
    <3> QED BY <2>1, <3>1 DEF ShutdownFences, FenceLocked, Edge, Leaves, Begins
  <2>2. CASE ShutdownQuiesces(q)
    BY <2>2 DEF ShutdownQuiesces, Begin, Edge, Leaves, Begins
  <2>3. CASE ShutdownReleased(q) \/ ShutdownCancels(q) \/ ShutdownEnds(q)
    BY <2>3 DEF ShutdownReleased, ShutdownCancels, ShutdownEnds, Edge, Leaves
  <2> QED BY <1>7, <2>1, <2>2, <2>3 DEF Shutdown
<1>8. CASE BootBegins(q)
  <2>1. state[q] = "ACTIVATING" /\ ~Running(q)
    BY <1>2, <1>8 DEF BootBegins, OpInv, Running, NoOp
  <2> QED BY <1>8, <2>1 DEF BootBegins, Begin, Edge, Leaves, Begins
<1>9. CASE BootDone(q) \/ FailSeen(q)
  BY <1>9 DEF BootDone, FailSeen, Edge, Leaves
<1>10. CASE Exit(q) \/ SecondSignal(q) \/ Killed(q)
  BY <1>10 DEF Exit, SecondSignal, Killed, Gone, Edge, Leaves
<1>11. CASE Start(q) \/ Signal(q) \/ BackgroundEnds(q) \/ ServerStops(q)
  BY <1>11 DEF Start, Signal, BackgroundEnds, ServerStops, Edge, Leaves
<1> QED BY <1>1, <1>3, <1>4, <1>5, <1>6, <1>7, <1>8, <1>9, <1>10, <1>11 DEF Service, Loop, Environ

(* No handler, boot or signal replaces a running operation: it is finished   *)
(* first, under its own id and kind (beginLocked, finishLocked).             *)
THEOREM SingleOperation == Spec => OneOperation
<1>1. ASSUME Inv, [Next]_vars, NEW p \in Proc, Running(p), op'[p] # op[p], phase'[p] # "exited"
      PROVE  op'[p].status # "running" /\ op'[p].id = op[p].id /\ op'[p].kind = op[p].kind
  BY <1>1, StepsAreEdges DEF Edge, Leaves, Begins, Finishes, vars, ctlVars
<1>2. Inv /\ [Next]_vars =>
        [\A p \in Proc : Running(p) /\ op'[p] # op[p] /\ phase'[p] # "exited" =>
            op'[p].status # "running" /\ op'[p].id = op[p].id /\ op'[p].kind = op[p].kind]_vars
  BY <1>1
<1> QED BY <1>2, Invariance, PTL DEF Spec, OneOperation

(* QUIESCED is terminal and nothing of such a process reaches the database   *)
(* again; QUIESCING leads nowhere else.                                      *)
THEOREM ReleaseIsFinal == Spec => NeverReopens
<1>1. ASSUME Inv, [Next]_vars, NEW p \in Proc
      PROVE  /\ state[p] = "QUIESCED" => state'[p] = "QUIESCED" /\ ~UsesDb(p)'
             /\ state[p] = "QUIESCING" => state'[p] \in {"QUIESCING", "QUIESCED"}
  <2>1. Inv'
    BY <1>1, NextInv
  <2>2. state[p] = "QUIESCED" => state'[p] = "QUIESCED"
    BY <1>1, StepsAreEdges DEF Edge, Leaves, Begins, Finishes, vars, ctlVars
  <2>3. state[p] = "QUIESCING" => state'[p] \in {"QUIESCING", "QUIESCED"}
    BY <1>1, StepsAreEdges DEF Edge, Leaves, Begins, Finishes, vars, ctlVars
  <2> QED BY <2>1, <2>2, <2>3 DEF Inv, ProcInv, HeldInv
<1>2. Inv /\ [Next]_vars =>
        [\A p \in Proc : /\ state[p] = "QUIESCED" => state'[p] = "QUIESCED" /\ ~UsesDb(p)'
                         /\ state[p] = "QUIESCING" => state'[p] \in {"QUIESCING", "QUIESCED"}]_vars
  BY <1>1
<1> QED BY <1>2, Invariance, PTL DEF Spec, NeverReopens

-----------------------------------------------------------------------------
(***************************************************************************)
(* Proofs about the composition of processes and coordinator: at most one  *)
(* process reaches the database, whether or not the file lock is enforced, *)
(* and the composition implements DbOwnership.                             *)
(*                                                                         *)
(* The argument: a process holds the database only if it was granted it,   *)
(* of two granted processes one is confirmed, and a confirmed one is gone  *)
(* or released for good.  The last part rests on Handoff's own invariant   *)
(* (a release is final and databaseHeld is honest).                        *)
(***************************************************************************)
GrantInv ==
    /\ net \subseteq Commands /\ granted \subseteq Proc /\ confirmed \subseteq Proc
    /\ \A m \in net : m.kind = "activate" => m.expect \in granted
    /\ Proc \ Standby \subseteq granted
    /\ \A p \in Proc : phase[p] = "boot" => p \notin Standby
    /\ OnlyGrantedHold
    /\ ConfirmedIsFinal
    /\ \A p, q \in granted : p = q \/ p \in confirmed \/ q \in confirmed

CoordInv == Inv /\ GrantInv

-----------------------------------------------------------------------------
(***************************************************************************)
(* What a step of process q can do to ownership.                           *)
(***************************************************************************)
Frame(q)   == \A p \in Proc \ {q} :
                  phase'[p] = phase[p] /\ held'[p] = held[p] /\ state'[p] = state[p]

Keeps(q)   == /\ held'[q] = held[q]
              /\ state'[q] = "QUIESCED" <=> state[q] = "QUIESCED"
              /\ phase'[q] = "exited" <=> phase[q] = "exited"

Claims(q)  == /\ ~held[q] /\ held'[q]
              /\ state[q] # "QUIESCED" /\ state'[q] # "QUIESCED"
              /\ phase[q] # "exited" /\ phase'[q] # "exited"

Frees(q)   == /\ held[q] /\ ~held'[q]
              /\ state[q] # "QUIESCED" /\ state'[q] # "QUIESCED"
              /\ phase[q] # "exited" /\ phase'[q] # "exited"

Retires(q) == ~held'[q] /\ (phase'[q] = "exited" \/ state'[q] = "QUIESCED")

Boots(q) == phase'[q] = "boot" => phase[q] = "boot" \/ q \notin Standby

(* An accepted activate claims the database for a process that did not hold  *)
(* it and has not retired.                                                   *)
LEMMA ActivateClaims ==
    ASSUME Inv, NEW q \in Proc, NEW id \in Ids, HandleActivate(q, id)
    PROVE  Frame(q) /\ Claims(q) /\ Boots(q)
<1>1. OpInv(q) /\ HeldInv(q)
  BY DEF Inv, ProcInv
<1>2. state[q] = "STANDBY"
  BY <1>1 DEF HandleActivate, ActivateAnswer, Serving, OpInv, Running, NoOp
<1>3. Begin(q, "activate", NamedId(id)) /\ UNCHANGED phase /\ phase[q] # "exited"
  BY DEF HandleActivate, Serving, runVars
<1> QED BY <1>1, <1>2, <1>3 DEF Inv, TypeOK, Begin, HeldInv, Frame, Claims, Boots

(* Any other step of a process claims it only as the boot activation; it     *)
(* may free or retire, and touches no other process.                         *)
LEMMA OtherStepsKeepOrFree ==
    ASSUME Inv, NEW q \in Proc,
           (\E id \in Ids : HandleQuiesce(q, id)) \/ Service(q) \/ Loop(q) \/ Environ(q)
    PROVE  /\ Frame(q) /\ Boots(q)
           /\ Keeps(q) \/ Frees(q) \/ Retires(q) \/ (Claims(q) /\ phase[q] = "boot")
<1> USE DEF Inv, TypeOK, ctlVars, runVars, svcVars
<1>1. OpInv(q) /\ HeldInv(q)
  BY DEF ProcInv
<1>2. ASSUME NEW id \in Ids, HandleQuiesce(q, id)
      PROVE  Frame(q) /\ Boots(q) /\ (Keeps(q) \/ Retires(q))
  <2>1. CASE QuiesceAnswer(q, id) = "begin"
    <3>1. state[q] \in {"ACTIVE", "QUIESCING"}
      BY <1>2, <2>1 DEF QuiesceAnswer
    <3> QED BY <1>1, <1>2, <2>1, <3>1
            DEF HandleQuiesce, Begin, HeldInv, Serving, Frame, Boots, Keeps
  <2>2. CASE QuiesceAnswer(q, id) = "fence"
    BY <1>2, <2>2 DEF HandleQuiesce, FenceLocked, Frame, Boots, Retires
  <2> QED BY <1>2, <2>1, <2>2 DEF HandleQuiesce
<1>3. CASE Activating(q) \/ Quiescing(q)
  BY <1>3 DEF Activating, Quiescing, OpenStore, OpenFails, Seed, SeedFails, Listen, ListenFails,
     Drain, StopWorkers, StopBackground, CloseStore, CloseFails, StepFails, Frame, Boots, Keeps
<1>4. CASE ActivateReturns(q)
  <2>1. state[q] = "ACTIVATING" /\ held[q] /\ phase[q] # "exited"
    BY <1>1, <1>4 DEF ActivateReturns, OpInv, Running
  <2>2. Frame(q) /\ Boots(q)
    BY <1>4 DEF ActivateReturns, Finish, Frame, Boots
  <2>3. phase'[q] = phase[q] /\ state'[q] # "QUIESCED" /\ held'[q] \in BOOLEAN
    BY <1>4 DEF ActivateReturns, Finish
  <2> QED BY <2>1, <2>2, <2>3 DEF Keeps, Frees
<1>5. CASE QuiesceReturns(q)
  <2>1. state[q] = "QUIESCING"
    BY <1>1, <1>5 DEF QuiesceReturns, OpInv, Running
  <2> QED BY <1>5, <2>1 DEF QuiesceReturns, Finish, Frame, Boots, Keeps, Retires
<1>6. CASE Shutdown(q)
  <2>1. CASE ShutdownFences(q)
    BY <2>1 DEF ShutdownFences, FenceLocked, ShutdownReturns, Frame, Boots, Retires
  <2>2. CASE ShutdownQuiesces(q)
    <3>1. held[q]
      BY <1>1, <2>2 DEF ShutdownQuiesces, HeldInv, Serving
    <3> QED BY <2>2, <3>1 DEF ShutdownQuiesces, Begin, Frame, Boots, Keeps
  <2>3. CASE ShutdownReleased(q) \/ ShutdownCancels(q) \/ ShutdownEnds(q)
    BY <2>3 DEF ShutdownReleased, ShutdownCancels, ShutdownEnds, ShutdownReturns, Frame, Boots, Keeps
  <2> QED BY <1>6, <2>1, <2>2, <2>3 DEF Shutdown
<1>7. CASE BootBegins(q)
  <2>1. state[q] = "ACTIVATING" /\ ~held[q] /\ phase[q] = "boot"
    BY <1>1, <1>7 DEF BootBegins, OpInv, HeldInv
  <2> QED BY <1>7, <2>1 DEF BootBegins, Begin, Frame, Boots, Claims
<1>8. CASE BootDone(q) \/ FailSeen(q)
  BY <1>8 DEF BootDone, FailSeen, Frame, Boots, Keeps
<1>9. CASE Exit(q) \/ SecondSignal(q) \/ Killed(q)
  BY <1>9 DEF Exit, SecondSignal, Killed, Gone, Frame, Boots, Retires
<1>10. CASE Start(q) \/ Signal(q) \/ BackgroundEnds(q) \/ ServerStops(q)
  BY <1>10 DEF Start, Signal, BackgroundEnds, ServerStops, Frame, Boots, Keeps
<1> QED BY <1>2, <1>3, <1>4, <1>5, <1>6, <1>7, <1>8, <1>9, <1>10 DEF Service, Loop, Environ

Step(q) == Keeps(q) \/ Frees(q) \/ Retires(q) \/ (Claims(q) /\ q \in granted)

(* In the composition a process claims the database only when it has been    *)
(* granted: by a command pinned to it, or as the legacy boot.                *)
LEMMA ProcessSteps ==
    ASSUME CoordInv, NEW q \in Proc,
           \/ \E m \in net : Deliver(q, m)
           \/ CoordStart(q) \/ CoordEnviron(q) \/ ProcessStep(q)
    PROVE  Next /\ UNCHANGED coordVars /\ Frame(q) /\ Boots(q) /\ Step(q)
<1> USE DEF CoordInv
<1>1. ASSUME NEW m \in net, Deliver(q, m)
      PROVE  Next /\ UNCHANGED coordVars /\ Frame(q) /\ Boots(q) /\ Step(q)
  <2>1. m.id \in Ids /\ m.expect = q /\ (m.kind = "activate" => m.expect \in granted)
    BY <1>1 DEF GrantInv, Commands, Deliver, Authed
  <2>2. CASE m.kind = "activate" /\ HandleActivate(q, m.id)
    BY <1>1, <2>1, <2>2, ActivateClaims DEF Deliver, Step, Next, Api
  <2>3. CASE m.kind = "quiesce" /\ HandleQuiesce(q, m.id)
    <3>1. ~(phase[q] = "boot" /\ Claims(q))
      <4>1. OpInv(q)
        BY DEF Inv, ProcInv
      <4> QED BY <2>3, <4>1 DEF HandleQuiesce, QuiesceAnswer, OpInv
    <3> QED BY <1>1, <2>1, <2>3, <3>1, OtherStepsKeepOrFree DEF Deliver, Step, Next, Api
  <2> QED BY <1>1, <2>2, <2>3 DEF Deliver
<1>2. CASE CoordStart(q) \/ CoordEnviron(q) \/ ProcessStep(q)
  <2>1. (Service(q) \/ Loop(q) \/ Environ(q)) /\ UNCHANGED coordVars
    BY <1>2 DEF CoordStart, CoordEnviron, ProcessStep, Environ
  <2>2. phase[q] = "boot" => q \in granted
    BY DEF GrantInv
  <2> QED BY <2>1, <2>2, OtherStepsKeepOrFree DEF Step, Next
<1> QED BY <1>1, <1>2

(* Nobody holds the database at first, and the legacy process, if any, is    *)
(* the only one granted.                                                     *)
LEMMA CoordInitInv == CoordInit => CoordInv
<1> SUFFICES ASSUME CoordInit PROVE CoordInv
  OBVIOUS
<1>1. Init /\ Inv
  BY InitInv DEF CoordInit
<1>2. GrantInv
  BY <1>1, SlotAssumption, HandoffAssumption
     DEF CoordInit, Init, GrantInv, Commands, OnlyGrantedHold, ConfirmedIsFinal
<1> QED BY <1>1, <1>2 DEF CoordInv

(* Every step of the composition keeps the grant discipline. *)
LEMMA CoordNextInv == CoordInv /\ [CoordNext]_allVars => CoordInv'
<1> SUFFICES ASSUME CoordInv, [CoordNext]_allVars PROVE CoordInv'
  OBVIOUS
<1>1. CASE UNCHANGED allVars
  <2>1. Inv'
    BY <1>1, NextInv DEF CoordInv, allVars
  <2> QED BY <1>1, <2>1 DEF CoordInv, GrantInv, OnlyGrantedHold, ConfirmedIsFinal, Live, Commands,
          allVars, coordVars, vars, ctlVars, runVars
<1>2. ASSUME NEW p \in Proc, NEW id \in Ids, Grant(p, id)
      PROVE  CoordInv'
  <2>1. Inv'
    BY <1>2, NextInv DEF CoordInv, Grant
  <2>2. UNCHANGED <<phase, held, state, confirmed>> /\ granted' = granted \cup {p}
    BY <1>2 DEF Grant, vars, ctlVars, runVars
  <2>3. net' \subseteq Commands /\ \A m \in net' : m.kind = "activate" => m.expect \in granted'
    BY <1>2, <2>2, SlotAssumption DEF CoordInv, GrantInv, Grant, Send, Commands
  <2>4. \A a, b \in granted' : a = b \/ a \in confirmed' \/ b \in confirmed'
    BY <1>2, <2>2 DEF Grant
  <2> QED BY <2>1, <2>2, <2>3, <2>4 DEF CoordInv, GrantInv, OnlyGrantedHold, ConfirmedIsFinal, Live
<1>3. ASSUME NEW p \in Proc, NEW id \in Ids, AskRelease(p, id)
      PROVE  CoordInv'
  <2>1. Inv'
    BY <1>3, NextInv DEF CoordInv, AskRelease
  <2>2. UNCHANGED <<phase, held, state, granted, confirmed>>
    BY <1>3 DEF AskRelease, vars, ctlVars, runVars
  <2>3. net' \subseteq Commands /\ \A m \in net' : m.kind = "activate" => m.expect \in granted'
    BY <1>3, <2>2, SlotAssumption DEF CoordInv, GrantInv, AskRelease, Send, Commands
  <2> QED BY <2>1, <2>2, <2>3 DEF CoordInv, GrantInv, OnlyGrantedHold, ConfirmedIsFinal, Live
<1>4. ASSUME NEW p \in Proc, Confirm(p)
      PROVE  CoordInv'
  <2>1. Inv'
    BY <1>4, NextInv DEF CoordInv, Confirm
  <2>2. UNCHANGED <<phase, held, state, net, granted>> /\ confirmed' = confirmed \cup {p}
    BY <1>4 DEF Confirm, vars, ctlVars, runVars
  <2>3. phase[p] = "exited" \/ (state[p] = "QUIESCED" /\ ~held[p])
    BY <1>4 DEF Confirm
  <2> QED BY <2>1, <2>2, <2>3 DEF CoordInv, GrantInv, OnlyGrantedHold, ConfirmedIsFinal, Live, Commands
<1>5. ASSUME NEW q \in Proc,
             \/ \E m \in net : Deliver(q, m)
             \/ CoordStart(q) \/ CoordEnviron(q) \/ ProcessStep(q)
      PROVE  CoordInv'
  <2>1. Next /\ UNCHANGED coordVars /\ Frame(q) /\ Boots(q) /\ Step(q)
    BY <1>5, ProcessSteps
  <2>2. Inv'
    BY <2>1, NextInv DEF CoordInv
  <2>3. OnlyGrantedHold'
    BY <2>1 DEF CoordInv, GrantInv, coordVars, OnlyGrantedHold, Frame, Step, Keeps, Frees, Retires, Claims
  <2>4. ConfirmedIsFinal'
    <3> SUFFICES ASSUME NEW p \in confirmed
                 PROVE  phase'[p] = "exited" \/ (state'[p] = "QUIESCED" /\ ~held'[p])
      BY <2>1 DEF coordVars, ConfirmedIsFinal, Live
    <3>1. p \in Proc /\ (phase[p] = "exited" \/ (state[p] = "QUIESCED" /\ ~held[p]))
      BY DEF CoordInv, GrantInv, ConfirmedIsFinal, Live
    <3> QED BY <2>1, <3>1 DEF Frame, Step, Keeps, Frees, Retires, Claims
  <2>5. \A p \in Proc : phase'[p] = "boot" => p \notin Standby
    BY <2>1 DEF CoordInv, GrantInv, Frame, Boots
  <2> QED BY <2>1, <2>2, <2>3, <2>4, <2>5 DEF CoordInv, GrantInv, coordVars, Commands
<1> QED BY <1>1, <1>2, <1>3, <1>4, <1>5 DEF CoordNext

(* The grant discipline holds in every reachable state of the composition.   *)
THEOREM CoordInvariance == CoordSpec => []CoordInv
<1> QED BY CoordInitInv, CoordNextInv, PTL DEF CoordSpec

(* Of two processes that hold the database one would be confirmed, and a     *)
(* confirmed process does not hold it.                                       *)
LEMMA OneHolder ==
    ASSUME CoordInv, NEW p \in Proc, NEW q \in Proc, held[p], held[q]
    PROVE  p = q
<1>1. p \in granted /\ q \in granted
  BY DEF CoordInv, GrantInv, OnlyGrantedHold
<1>2. \A r \in confirmed : r \in Proc /\ ~held[r]
  BY DEF CoordInv, GrantInv, ConfirmedIsFinal, Live, Inv, ProcInv, HeldInv
<1> QED BY <1>1, <1>2 DEF CoordInv, GrantInv

(* Two processes never reach the database at once, with or without the file  *)
(* lock, whatever is lost, repeated, delayed or delivered to a successor.    *)
THEOREM OneWriter == CoordSpec => []SingleWriter
<1>1. CoordInv => SingleWriter
  <2> SUFFICES ASSUME CoordInv, NEW p \in Proc, NEW q \in Proc, UsesDb(p), UsesDb(q)
               PROVE  p = q
    BY DEF SingleWriter
  <2>1. held[p] /\ held[q]
    BY DEF CoordInv, Inv, ProcInv, HeldInv
  <2> QED BY <2>1, OneHolder
<1> QED BY <1>1, CoordInvariance, PTL

(* Only a process that was itself put in charge holds the database.          *)
THEOREM HoldersGranted == CoordSpec => []OnlyGrantedHold
<1>1. CoordInv => OnlyGrantedHold
  BY DEF CoordInv, GrantInv
<1> QED BY <1>1, CoordInvariance, PTL

(* What the coordinator took for a release stays one.                        *)
THEOREM ConfirmationsHold == CoordSpec => []ConfirmedIsFinal
<1>1. CoordInv => ConfirmedIsFinal
  BY DEF CoordInv, GrantInv
<1> QED BY <1>1, CoordInvariance, PTL

-----------------------------------------------------------------------------
(***************************************************************************)
(* The composition implements the abstract ownership.                      *)
(***************************************************************************)
(* A step of a process is a claim, a release, a retirement or a stutter of   *)
(* the abstract owner.                                                       *)
LEMMA StepRefines ==
    ASSUME CoordInv, NEW q \in Proc, Frame(q), Step(q),
           \A p \in Proc : held'[p] => p = q \/ held[p],
           Claims(q) => \A p \in Proc : ~held[p]
    PROVE  Ownership!Next \/ (Owners' = Owners /\ Retired' = Retired)
<1> USE DEF Owners, Retired, Live, Frame
<1>1. CASE Keeps(q)
  BY <1>1 DEF Keeps
<1>2. CASE Claims(q)
  <2>1. Owners = {} /\ Owners' = {q} /\ Retired' = Retired /\ q \notin Retired
    BY <1>2 DEF Claims
  <2> QED BY <2>1 DEF Ownership!Next, Ownership!Claim
<1>3. CASE Frees(q)
  <2>1. \A p \in Proc : held[p] => p = q
    BY <1>3, OneHolder DEF Frees
  <2>2. Owners = {q} /\ Owners' = {} /\ Retired' = Retired
    BY <1>3, <2>1 DEF Frees
  <2> QED BY <2>2 DEF Ownership!Next, Ownership!Release
<1>4. CASE Retires(q)
  <2>1. Owners' = Owners \ {q} /\ Retired' = Retired \cup {q}
    BY <1>4 DEF Retires
  <2> QED BY <2>1 DEF Ownership!Next, Ownership!Retire
<1> QED BY <1>1, <1>2, <1>3, <1>4 DEF Step

(* The composition of processes and coordinator implements DbOwnership: a    *)
(* claim only ever happens when nobody holds the database.                   *)
THEOREM OwnershipRefined == CoordSpec => ImplementsOwnership
<1>1. CoordInit => Ownership!Init
  <2> SUFFICES ASSUME CoordInit PROVE Owners = {} /\ Retired = {}
    BY DEF Ownership!Init
  <2>1. \A p \in Proc : ~held[p] /\ phase[p] = "down" /\ state[p] # "QUIESCED"
    BY DEF CoordInit, Init
  <2> QED BY <2>1 DEF Owners, Retired, Live
<1>2. CoordInv /\ CoordInv' /\ [CoordNext]_allVars => [Ownership!Next]_(Ownership!ownVars)
  <2> SUFFICES ASSUME CoordInv, CoordInv', [CoordNext]_allVars
               PROVE  Ownership!Next \/ (Owners' = Owners /\ Retired' = Retired)
    BY DEF Ownership!ownVars
  <2>1. CASE UNCHANGED vars
    BY <2>1 DEF vars, ctlVars, runVars, Owners, Retired, Live
  <2>2. ASSUME NEW q \in Proc,
               \/ \E m \in net : Deliver(q, m)
               \/ CoordStart(q) \/ CoordEnviron(q) \/ ProcessStep(q)
        PROVE  Ownership!Next \/ (Owners' = Owners /\ Retired' = Retired)
    <3>1. UNCHANGED coordVars /\ Frame(q) /\ Step(q)
      BY <2>2, ProcessSteps
    <3>2. \A p \in Proc : held'[p] => p = q \/ held[p]
      BY <3>1 DEF Frame
    <3>3. Claims(q) => \A p \in Proc : ~held[p]
      <4> SUFFICES ASSUME Claims(q), NEW p \in Proc, held[p] PROVE FALSE
        OBVIOUS
      <4>1. p # q /\ held'[p] /\ held'[q]
        BY <3>1 DEF Claims, Frame
      <4>2. \A a, b \in Proc : held'[a] /\ held'[b] => a = b
        <5>1. \A a \in Proc : held'[a] => a \in granted'
          BY DEF CoordInv, GrantInv, OnlyGrantedHold
        <5>2. \A r \in confirmed' : r \in Proc /\ ~held'[r]
          BY DEF CoordInv, GrantInv, ConfirmedIsFinal, Live, Inv, ProcInv, HeldInv
        <5> QED BY <5>1, <5>2 DEF CoordInv, GrantInv
      <4> QED BY <4>1, <4>2
    <3> QED BY <3>1, <3>2, <3>3, StepRefines
  <2> QED BY <2>1, <2>2 DEF CoordNext, Grant, AskRelease, Confirm, allVars
<1> QED BY <1>1, <1>2, CoordInvariance, PTL DEF CoordSpec, ImplementsOwnership, Ownership!Spec
=============================================================================
