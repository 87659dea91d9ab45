---------------------------- MODULE DbOwnership ----------------------------
(***************************************************************************)
(* What a deployment handoff promises about one database, with no process, *)
(* message or failure in sight: at most one process at a time may have the *)
(* database open, and a process that has let go for good never gets it     *)
(* back (internal/handoff/doc.go, the package's rules).                    *)
(***************************************************************************)
CONSTANT Proc

VARIABLES owner,    \* the processes that may have the database open
          retired   \* the processes that will never open it (again)

ownVars == <<owner, retired>>

Init == owner = {} /\ retired = {}

\* A process is put in charge.
Claim(p) ==
    /\ owner = {}
    /\ p \notin retired
    /\ owner' = {p}
    /\ UNCHANGED retired

\* The owner lets go: after a failed attempt it may be put in charge again.
Release(p) ==
    /\ owner = {p}
    /\ owner' = {}
    /\ UNCHANGED retired

\* A process retires, whether or not it was in charge.
Retire(p) ==
    /\ owner' = owner \ {p}
    /\ retired' = retired \cup {p}

Next == \E p \in Proc : Claim(p) \/ Release(p) \/ Retire(p)

Spec == Init /\ [][Next]_ownVars
=============================================================================
