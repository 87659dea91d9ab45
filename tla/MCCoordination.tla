--------------------------- MODULE MCCoordination ---------------------------
(***************************************************************************)
(* The TLC instance of Coordination.  The first owner booted the legacy    *)
(* way in one container; the replacement stands by in another, and a third *)
(* process succeeds the replacement at its address.  old and new do        *)
(* whatever the model allows; once the successor has started, processes    *)
(* may be killed but are not signalled (Handover), which keeps the state   *)
(* space finite in minutes: shutdown next to another process is covered by *)
(* old and new.                                                            *)
(***************************************************************************)
EXTENDS Coordination, TLC

CONSTANTS old, new, again, taskA, taskB, opA

Three        == {old, new, again}
ThreeStandby == {new, again}
ThreeSlots   == [p \in Three |-> IF p = old THEN taskA ELSE taskB]

Slots == {taskA, taskB}
OneId == {opA}

Quiet(p) == phase[p] \notin {"stop", "exiting"} /\ ~fatal[p] /\ ~bg[p]

Handover ==
    phase[again] # "down" => phase[new] = "exited" /\ \A p \in Proc : Quiet(p)
=============================================================================
