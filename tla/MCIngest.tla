------------------------------ MODULE MCIngest ------------------------------
(***************************************************************************)
(* TLC instances of Ingest: two sources of one poller, with enhancements   *)
(* and no clock; one event of two contents, one with an expiry of its own, *)
(* with telemetry, a town seeded at a restart and a clock; two events that *)
(* both lie in a town seeded late.                                         *)
(***************************************************************************)
EXTENDS Ingest, TLC

CONSTANTS wildfire,          \* pollers
          calfire, firis,    \* sources
          incident, perimeter,   \* events
          plain, dated,      \* contents: without and with an expiry of their own
          enh, tel, town

OnePoller  == {wildfire}
TwoSources == {calfire, firis}
TwoEvents  == {incident, perimeter}
BothPolled == [s \in TwoSources |-> wildfire]
Owners     == (incident :> calfire) @@ (perimeter :> firis)
Policies   == (calfire :> "resolve") @@ (firis :> "expire")
NoPlaces   == {}
Nowhere    == [e \in TwoEvents |-> {}]
NoExtras   == {}
Dated      == (plain :> 0) @@ (dated :> 1)
Both       == {plain, dated}
OnlyPlain  == {plain}
UndatedOne == [c \in OnlyPlain |-> 0]
ActiveOnly == {"ACTIVE"}

OneSource  == {calfire}
OneEvent   == {incident}
OnePolled  == [s \in OneSource |-> wildfire]
OneOwner   == [e \in OneEvent |-> calfire]
ExpirePolicy  == [s \in OneSource |-> "expire"]
OneTown    == {town}
OneInTown  == [e \in OneEvent |-> OneTown]
InTown     == [e \in TwoEvents |-> OneTown]
TwoOwned   == [e \in TwoEvents |-> calfire]
Extras     == {enh, tel}
OnlyTel    == {tel}
OnlyEnh    == {enh}
=============================================================================
