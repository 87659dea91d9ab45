---------------------------- MODULE Coordination ----------------------------
(***************************************************************************)
(* Processes of Handoff under a deployment coordinator.                    *)
(*                                                                         *)
(* The coordinator is not in this repository.  It is modelled from the     *)
(* contract the control API is built for: it reads /status, pins every     *)
(* command to one incarnation with expectedInstanceId, and grants the      *)
(* database only after each process it granted it to before is confirmed   *)
(* released (QUIESCED, not held) or gone.  Its commands may be delayed,    *)
(* duplicated and reordered: they stay in net for ever.  The processes of  *)
(* one slot (address and port of a container) follow each other, so a late *)
(* command can reach the successor of the process it was meant for.        *)
(***************************************************************************)
EXTENDS Handoff

CONSTANTS Slot,     \* container addresses
          SlotOf    \* the address each incarnation runs at

ASSUME SlotAssumption ==
    /\ SlotOf \in [Proc -> Slot]
    /\ \A p, q \in Proc \ Standby : p = q     \* one legacy boot: the first owner

VARIABLES net,        \* commands sent
          granted,    \* processes the coordinator has put in charge
          confirmed   \* processes it knows to have released or stopped

coordVars == <<net, granted, confirmed>>
allVars   == <<vars, coordVars>>

Commands == [kind : {"activate", "quiesce"}, id : Ids, to : Slot, expect : Proc]

CoordInit ==
    /\ Init
    /\ net = {}
    /\ granted = Proc \ Standby
    /\ confirmed = {}

-----------------------------------------------------------------------------
(***************************************************************************)
(* Coordinator.                                                            *)
(***************************************************************************)
Send(kind, id, p) ==
    net' = net \cup {[kind |-> kind, id |-> id, to |-> SlotOf[p], expect |-> p]}

\* p answered as a standby; everyone granted before is out of the way.  The
\* same process may be granted again (a retry, with the same or a new id).
Grant(p, id) ==
    /\ Serving(p) /\ p \in Standby
    /\ granted \ {p} \subseteq confirmed
    /\ Send("activate", id, p)
    /\ granted' = granted \cup {p}
    /\ UNCHANGED <<vars, confirmed>>

AskRelease(p, id) ==
    /\ Serving(p)
    /\ Send("quiesce", id, p)
    /\ UNCHANGED <<vars, granted, confirmed>>

\* GET /status said QUIESCED with databaseHeld false, or the task is gone.
Confirm(p) ==
    /\ phase[p] = "exited" \/ (Serving(p) /\ state[p] = "QUIESCED" /\ ~held[p])
    /\ confirmed' = confirmed \cup {p}
    /\ UNCHANGED <<vars, net, granted>>

-----------------------------------------------------------------------------
\* authed: a command for another incarnation never reaches the handlers.
Authed(p, m) == m.to = SlotOf[p] /\ m.expect = p

Deliver(p, m) ==
    /\ Authed(p, m)
    /\ \/ m.kind = "activate" /\ HandleActivate(p, m.id)
       \/ m.kind = "quiesce"  /\ HandleQuiesce(p, m.id)
    /\ UNCHANGED coordVars

\* A container starts its next process when the last one is gone.
SlotFree(p) == \A q \in Proc : SlotOf[q] = SlotOf[p] => phase[q] \in {"down", "exited"}

CoordStart(p) == SlotFree(p) /\ Start(p) /\ UNCHANGED coordVars

CoordEnviron(p) ==
    /\ Signal(p) \/ SecondSignal(p) \/ Killed(p) \/ BackgroundEnds(p) \/ ServerStops(p)
    /\ UNCHANGED coordVars

ProcessStep(p) == (Service(p) \/ Loop(p)) /\ UNCHANGED coordVars

CoordNext ==
    \E p \in Proc :
        \/ \E id \in Ids : Grant(p, id) \/ AskRelease(p, id)
        \/ Confirm(p)
        \/ \E m \in net : Deliver(p, m)
        \/ CoordStart(p) \/ CoordEnviron(p) \/ ProcessStep(p)

CoordSpec == CoordInit /\ [][CoordNext]_allVars

-----------------------------------------------------------------------------
(***************************************************************************)
(* Properties.                                                             *)
(***************************************************************************)
CoordTypeOK ==
    /\ TypeOK
    /\ net \subseteq Commands
    /\ granted \subseteq Proc
    /\ confirmed \subseteq Proc

Live(p) == phase[p] # "exited"

(* Two processes never reach the database at once.  The coordinator's        *)
(* confirmed release is what prevents two writers; the file lock is only a   *)
(* safeguard, so this must hold with LockEnforced FALSE, under late,         *)
(* repeated and misdelivered commands, restarts and failed releases.         *)
SingleWriter == \A p, q \in Proc : UsesDb(p) /\ UsesDb(q) => p = q

(* A process holds the database only if the coordinator put that very        *)
(* incarnation in charge: a delayed or repeated command meant for a process  *)
(* that has gone never activates its successor at the same address.          *)
OnlyGrantedHold == \A p \in Proc : held[p] => p \in granted

(* A process the coordinator has written off is not in the way of the next   *)
(* one: it is gone, or released for good (a confirmation cannot go stale).   *)
ConfirmedIsFinal ==
    \A p \in confirmed : ~Live(p) \/ (state[p] = "QUIESCED" /\ ~held[p])

\* The abstract view: who may have the database open, and who is out for good.
Owners  == {p \in Proc : Live(p) /\ held[p]}
Retired == {p \in Proc : ~Live(p) \/ state[p] = "QUIESCED"}

Ownership == INSTANCE DbOwnership WITH owner <- Owners, retired <- Retired

(* The composition implements the abstract ownership: a process claims the   *)
(* database only when nobody has it, and a retired one never does.           *)
ImplementsOwnership == Ownership!Spec
=============================================================================
